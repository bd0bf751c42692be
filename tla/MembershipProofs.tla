-------------------------- MODULE MembershipProofs --------------------------
(***************************************************************************)
(* What holds of billing and identities for any users, payments, names,    *)
(* overlapping handlers and crashes, and however long they run.            *)
(***************************************************************************)
EXTENDS Membership, MapTheorems, TLAPS, FiniteSetTheorems

(***************************************************************************)
(* Types                                                                   *)
(***************************************************************************)

\* What a suspended handler holds, by its operation.
LEMMA CallKinds ==
    ASSUME NEW k \in Call
    PROVE  /\ k.op \in {"ask", "verify", "process", "mark"} => k \in PaymentCall
           /\ k.op \in {"write", "lapse"} => k \in StatusCall
           /\ k.op = "extend" => k \in ExtendCall
           /\ k.op \in {"cancel", "reactivate"} => k \in UserCall
           /\ k.op = "downgrade" => k.todo \subseteq Users
           /\ k.op = "deactivate" => k.user \in Users /\ k.todo \subseteq Users
           /\ k.op \in {"readUser", "findReceipt", "create"} => k.user \in Users /\ k.name \in Names
           /\ k.op = "create" => k.receipt \in Payments
           /\ k.op = "delete" => k.name \in Names
    BY DEF Call, Idle, PaymentCall, StatusCall, ExtendCall, UserCall, CronCall, NameCall

\* A handler that goes on with k, where no row is removed, leaves all handlers on rows
\* that exist.
LEMMA CallsStayTyped ==
    ASSUME TypeOK, NEW c \in Calls, NEW k \in Call, Suspend(c, k), OnRows(k),
           DOMAIN payments \subseteq DOMAIN payments', DOMAIN names \subseteq DOMAIN names'
    PROVE  calls' \in [Calls -> Call] /\ \A d \in Calls : OnRows(calls[d])'
    BY DEF TypeOK, Suspend, OnRows

\* A step that only reads keeps the types.
LEMMA ReadType ==
    ASSUME TypeOK, NEW c \in Calls, NEW k \in Call, Suspend(c, k), OnRows(k),
           UNCHANGED <<now, payments, provider, subs, names, credits>>
    PROVE  TypeOK'
    BY CallsStayTyped DEF TypeOK

\* A handler that has ended works on no row.
LEMMA IdleIsACall == Idle \in Call /\ OnRows(Idle)
    BY DEF Idle, Call, OnRows, AboutPayment

\* A handler that ends without a write keeps the types.
LEMMA ReturnType ==
    ASSUME TypeOK, NEW c \in Calls, Return(c),
           UNCHANGED <<now, payments, provider, subs, names, credits>>
    PROVE  TypeOK'
    BY IdleIsACall, ReadType DEF Return

\* Orders are created and decided: the types are kept.
LEMMA BuyType == TypeOK /\ Buy => TypeOK'
    <1> SUFFICES ASSUME TypeOK, Buy PROVE TypeOK'
        OBVIOUS
    <1>1. ASSUME NEW u \in Users, NEW o \in Orders, NEW p \in Payments, CreateInvoice(u, o, p)
          PROVE  TypeOK'
        <2> DEFINE row == [user |-> u, order |-> Ordered(o), status |-> "pending", created |-> now]
        <2>1. row \in Payment
            BY BillingAssumption DEF TypeOK, Payment, Ordered, Paid, Cycles
        <2>2. MapOf(payments, Payments, Payment)'
            <3>1. payments' = Put(payments, p, row)
                BY <1>1 DEF CreateInvoice
            <3> HIDE DEF row
            <3>2. QED
                BY <2>1, <3>1, PutMapOf DEF TypeOK
        <2>3. /\ DOMAIN payments' = DOMAIN payments \cup {p}
              /\ provider' \in [DOMAIN payments' -> {"pending", "paid"} \cup Decision]
            BY <1>1 DEF TypeOK, CreateInvoice, Put
        <2>4. \A c \in Calls : OnRows(calls[c])'
            BY <1>1, <2>3 DEF TypeOK, OnRows, CreateInvoice
        <2>5. QED
            BY <1>1, <2>2, <2>3, <2>4 DEF TypeOK, CreateInvoice
    <1>2. ASSUME NEW p \in Payments, NEW state \in {"paid", "expired", "failed"},
                 ProviderDecides(p, state)
          PROVE  TypeOK'
        BY <1>2 DEF TypeOK, ProviderDecides, Decision, OnRows
    <1>3. QED
        BY <1>1, <1>2 DEF Buy

\* Writing a status to a payment and ending keeps the types.
LEMMA StatusType ==
    ASSUME TypeOK, NEW c \in Calls, NEW p \in DOMAIN payments,
           NEW status \in {"pending", "paid"} \cup Decision,
           payments' = [payments EXCEPT ![p].status = status], Return(c),
           UNCHANGED <<now, provider, subs, names, credits>>
    PROVE  TypeOK'
    <1>1. [payments[p] EXCEPT !.status = status] \in Payment
        BY DEF TypeOK, MapOf, Payment
    <1>2. MapOf(payments, Payments, Payment)'
        BY <1>1, ExceptMapOf DEF TypeOK
    <1>3. calls' \in [Calls -> Call] /\ \A d \in Calls : OnRows(calls[d])'
        BY IdleIsACall, CallsStayTyped DEF Return
    <1>4. QED
        BY <1>2, <1>3 DEF TypeOK

\* Polling keeps the types.
LEMMA PollType == TypeOK /\ Poll => TypeOK'
    <1> SUFFICES ASSUME TypeOK, NEW c \in Calls,
                        \/ \E p \in Payments : CheckInvoiceStatus(c, p)
                        \/ CheckAnswered(c)
                        \/ WriteStatus(c)
                 PROVE  TypeOK'
        BY DEF Poll
    <1> DEFINE k == calls[c]
    <1>0. k \in Call /\ OnRows(k)
        BY DEF TypeOK
    <1>1. ASSUME NEW p \in Payments, CheckInvoiceStatus(c, p)
          PROVE  TypeOK'
        <2>1. [op |-> "ask", payment |-> p] \in Call
            BY DEF Call, PaymentCall
        <2>2. OnRows([op |-> "ask", payment |-> p])
            BY <1>1 DEF OnRows, CheckInvoiceStatus
        <2>3. QED
            BY <1>1, <2>1, <2>2, ReadType DEF CheckInvoiceStatus
    <1>2. CASE CheckAnswered(c)
        <2> DEFINE p == k.payment
        <2>1. p \in Payments /\ p \in DOMAIN payments
            BY <1>0, <1>2, CallKinds DEF CheckAnswered, PaymentCall, OnRows, AboutPayment
        <2>2. /\ [op |-> "process", payment |-> p] \in Call
              /\ OnRows([op |-> "process", payment |-> p])
            BY <2>1 DEF Call, PaymentCall, OnRows
        <2>3. ASSUME NEW s \in Decision
              PROVE  /\ [op |-> "write", payment |-> p, status |-> s] \in Call
                     /\ OnRows([op |-> "write", payment |-> p, status |-> s])
            BY <2>1 DEF Call, StatusCall, OnRows
        <2>4. \/ Suspend(c, [op |-> "process", payment |-> p])
              \/ \E s \in Decision : Suspend(c, [op |-> "write", payment |-> p, status |-> s])
              \/ Return(c)
            BY <1>2 DEF CheckAnswered, Decision
        <2>5. UNCHANGED <<now, payments, provider, subs, names, credits>>
            BY <1>2 DEF CheckAnswered
        <2> HIDE DEF p
        <2>6. QED
            BY <2>2, <2>3, <2>4, <2>5, ReadType, ReturnType
    <1>3. CASE WriteStatus(c)
        <2>1. k \in StatusCall /\ k.payment \in DOMAIN payments
            BY <1>0, <1>3, CallKinds DEF WriteStatus, OnRows, AboutPayment
        <2>2. QED
            BY <1>3, <2>1, StatusType DEF WriteStatus, StatusCall
    <1>4. QED
        BY <1>1, <1>2, <1>3

\* The provider's notices keep the types.
LEMMA NotifyType == TypeOK /\ Notify => TypeOK'
    <1> SUFFICES ASSUME TypeOK, NEW c \in Calls,
                        \/ \E p \in Payments : HandleWebhook(c, p)
                        \/ Verified(c)
                        \/ LapseStatus(c)
                 PROVE  TypeOK'
        BY DEF Notify
    <1> DEFINE k == calls[c]
    <1>0. k \in Call /\ OnRows(k)
        BY DEF TypeOK
    <1>1. ASSUME NEW p \in Payments, HandleWebhook(c, p)
          PROVE  TypeOK'
        <2>1. p \in DOMAIN payments
            BY <1>1 DEF HandleWebhook
        <2>2. [op |-> "verify", payment |-> p] \in Call /\ OnRows([op |-> "verify", payment |-> p])
            BY <2>1 DEF Call, PaymentCall, OnRows
        <2>3. ASSUME NEW s \in Decision
              PROVE  /\ [op |-> "lapse", payment |-> p, status |-> s] \in Call
                     /\ OnRows([op |-> "lapse", payment |-> p, status |-> s])
            BY <2>1 DEF Call, StatusCall, OnRows
        <2>4. \/ \E s \in Decision : Suspend(c, [op |-> "lapse", payment |-> p, status |-> s])
              \/ Suspend(c, [op |-> "verify", payment |-> p])
            BY <1>1 DEF HandleWebhook, Decision
        <2>5. UNCHANGED <<now, payments, provider, subs, names, credits>>
            BY <1>1 DEF HandleWebhook
        <2>6. QED
            BY <2>2, <2>3, <2>4, <2>5, ReadType
    <1>2. CASE Verified(c)
        <2> DEFINE p == k.payment
        <2>1. p \in Payments /\ p \in DOMAIN payments
            BY <1>0, <1>2, CallKinds DEF Verified, PaymentCall, OnRows, AboutPayment
        <2>2. [op |-> "process", payment |-> p] \in Call /\ OnRows([op |-> "process", payment |-> p])
            BY <2>1 DEF Call, PaymentCall, OnRows
        <2>3. /\ Suspend(c, [op |-> "process", payment |-> p]) \/ Return(c)
              /\ UNCHANGED <<now, payments, provider, subs, names, credits>>
            BY <1>2 DEF Verified
        <2> HIDE DEF p
        <2>4. QED
            BY <2>2, <2>3, ReadType, ReturnType
    <1>3. CASE LapseStatus(c)
        <2>1. k \in StatusCall /\ k.payment \in DOMAIN payments
            BY <1>0, <1>3, CallKinds DEF LapseStatus, OnRows, AboutPayment
        <2>2. CASE payments[k.payment].status = "pending"
            BY <1>3, <2>1, <2>2, StatusType DEF LapseStatus, StatusCall
        <2>3. CASE payments[k.payment].status # "pending"
            BY <1>3, <2>3, ReturnType DEF LapseStatus
        <2>4. QED
            BY <2>2, <2>3
    <1>4. QED
        BY <1>1, <1>2, <1>3

\* A new end of a period is a date.
LEMMA ExtendedIsADate ==
    ASSUME now \in Nat, NEW order, NEW until \in Date
    PROVE  Extended(order, until) \in Nat
    BY BillingAssumption DEF Extended, Date

\* Processing a payment keeps the types.
LEMMA ProcessType ==
    ASSUME TypeOK, NEW c \in Calls, ProcessPayment(c)
    PROVE  TypeOK'
    <1> DEFINE k == calls[c]
               p == k.payment
               row == payments[p]
    <1>0. k \in Call /\ OnRows(k)
        BY DEF TypeOK
    <1>1. p \in Payments /\ p \in DOMAIN payments /\ row \in Payment
        BY <1>0, CallKinds DEF ProcessPayment, ReadPayment, ExtendSubscription, MarkPaid,
           PaymentCall, ExtendCall, OnRows, AboutPayment, TypeOK, MapOf
    <1>2. CASE ReadPayment(c)
        <2> DEFINE until == subs[row.user].until
        <2>1. until \in Date
            BY <1>1 DEF TypeOK, Payment, Subscription
        <2>2. /\ [op |-> "extend", payment |-> p, until |-> until] \in Call
              /\ OnRows([op |-> "extend", payment |-> p, until |-> until])
            BY <1>1, <2>1 DEF Call, ExtendCall, OnRows
        <2>3. /\ Suspend(c, [op |-> "extend", payment |-> p, until |-> until]) \/ Return(c)
              /\ UNCHANGED <<now, payments, provider, subs, names, credits>>
            BY <1>2 DEF ReadPayment
        <2> HIDE DEF until, p
        <2>4. QED
            BY <2>2, <2>3, ReadType, ReturnType
    <1>3. CASE ExtendSubscription(c)
        <2> DEFINE sub == [tier |-> row.order.tier, until |-> Extended(row.order, k.until),
                           cancelled |-> FALSE]
        <2>1. k.until \in Date
            BY <1>0, <1>3, CallKinds DEF ExtendSubscription, ExtendCall
        <2>2. sub \in Subscription
            BY <1>1, <2>1, ExtendedIsADate DEF TypeOK, Payment, Subscription, Tier, Date
        <2>3. subs' = [subs EXCEPT ![row.user] = sub]
            BY <1>3 DEF ExtendSubscription
        <2>4. subs' \in [Users -> Subscription]
            BY <2>2, <2>3 DEF TypeOK
        <2>5. credits' \in [Payments -> Nat]
            BY <1>1, <1>3 DEF TypeOK, ExtendSubscription
        <2>6. /\ [op |-> "mark", payment |-> p] \in Call
              /\ OnRows([op |-> "mark", payment |-> p])
            BY <1>1 DEF Call, PaymentCall, OnRows
        <2>7. Suspend(c, [op |-> "mark", payment |-> p]) /\ UNCHANGED <<now, payments, provider, names>>
            BY <1>3 DEF ExtendSubscription
        <2> HIDE DEF p
        <2>8. calls' \in [Calls -> Call] /\ \A d \in Calls : OnRows(calls[d])'
            BY <2>6, <2>7, CallsStayTyped
        <2>9. QED
            BY <2>4, <2>5, <2>7, <2>8 DEF TypeOK
    <1>4. CASE MarkPaid(c)
        BY <1>1, <1>4, StatusType DEF MarkPaid
    <1>5. QED
        BY <1>2, <1>3, <1>4 DEF ProcessPayment

\* Cancelling and reactivating keep the types.
LEMMA CancellationType == TypeOK /\ Cancellation => TypeOK'
    <1> SUFFICES ASSUME TypeOK, NEW c \in Calls,
                        \/ \E u \in Users : Cancel(c, u) \/ Reactivate(c, u)
                        \/ WriteCancelled(c)
                 PROVE  TypeOK'
        BY DEF Cancellation
    <1>1. ASSUME NEW u \in Users, NEW op \in {"cancel", "reactivate"},
                 Suspend(c, [op |-> op, user |-> u]),
                 UNCHANGED <<now, payments, provider, subs, names, credits>>
          PROVE  TypeOK'
        <2>1. [op |-> op, user |-> u] \in Call /\ OnRows([op |-> op, user |-> u])
            BY DEF Call, UserCall, OnRows, AboutPayment
        <2>2. QED
            BY <1>1, <2>1, ReadType
    <1>2. CASE WriteCancelled(c)
        <2>1. calls[c].user \in Users
            BY <1>2, CallKinds DEF TypeOK, WriteCancelled, UserCall
        <2>2. subs' \in [Users -> Subscription]
            BY <1>2, <2>1 DEF TypeOK, WriteCancelled, Subscription
        <2>3. calls' \in [Calls -> Call] /\ \A d \in Calls : OnRows(calls[d])'
            BY <1>2, IdleIsACall, CallsStayTyped DEF WriteCancelled, Return
        <2>4. QED
            BY <1>2, <2>2, <2>3 DEF TypeOK, WriteCancelled
    <1>3. QED
        BY <1>1, <1>2 DEF Cancel, Reactivate

\* The expiry job keeps the types.
LEMMA ExpiryType == TypeOK /\ Expiry => TypeOK'
    <1> SUFFICES ASSUME TypeOK, NEW c \in Calls,
                        ProcessExpired(c) \/ Downgrade(c) \/ DeactivateNames(c)
                 PROVE  TypeOK'
        BY DEF Expiry
    <1> DEFINE k == calls[c]
    <1>0. k \in Call
        BY DEF TypeOK
    <1>1. ASSUME NEW todo \in SUBSET Users
          PROVE  /\ [op |-> "downgrade", todo |-> todo] \in Call
                 /\ OnRows([op |-> "downgrade", todo |-> todo])
        BY DEF Call, CronCall, OnRows, AboutPayment
    <1>2. CASE ProcessExpired(c)
        <2> DEFINE todo == {u \in Users : Lapsed(u)}
        <2>1. todo \in SUBSET Users
            OBVIOUS
        <2>2. /\ Suspend(c, [op |-> "downgrade", todo |-> todo])
              /\ UNCHANGED <<now, payments, provider, subs, names, credits>>
            BY <1>2 DEF ProcessExpired
        <2> HIDE DEF todo
        <2>3. QED
            BY <1>1, <2>1, <2>2, ReadType
    <1>3. ASSUME NEW u \in k.todo, Downgrade(c), subs' = [subs EXCEPT ![u] = Free],
                 Suspend(c, [op |-> "deactivate", user |-> u, todo |-> k.todo \ {u}])
          PROVE  TypeOK'
        <2>1. u \in Users /\ k.todo \ {u} \in SUBSET Users
            BY <1>0, <1>3, CallKinds DEF Downgrade
        <2>2. subs' \in [Users -> Subscription]
            BY <1>3 DEF TypeOK, Subscription, Free, Tier, Date
        <2>3. /\ [op |-> "deactivate", user |-> u, todo |-> k.todo \ {u}] \in Call
              /\ OnRows([op |-> "deactivate", user |-> u, todo |-> k.todo \ {u}])
            BY <2>1 DEF Call, CronCall, OnRows, AboutPayment
        <2>4. UNCHANGED <<now, payments, provider, names, credits>>
            BY <1>3 DEF Downgrade
        <2>5. calls' \in [Calls -> Call] /\ \A d \in Calls : OnRows(calls[d])'
            BY <1>3, <2>3, <2>4, CallsStayTyped
        <2>6. QED
            BY <2>2, <2>4, <2>5 DEF TypeOK
    <1>4. CASE DeactivateNames(c)
        <2>1. k.user \in Users /\ k.todo \in SUBSET Users
            BY <1>0, <1>4, CallKinds DEF DeactivateNames
        <2>2. /\ DOMAIN names' = DOMAIN names
              /\ \A n \in DOMAIN names :
                    names'[n] = names[n] \/ names'[n] = [names[n] EXCEPT !.active = FALSE]
            BY <1>4 DEF DeactivateNames
        <2>3. MapOf(names, Names, Name)' /\ \A n \in DOMAIN names' : names'[n].receipt \in DOMAIN payments
            <3>1. \A n \in DOMAIN names : names[n] \in Name /\ names[n].receipt \in DOMAIN payments
                BY DEF TypeOK, MapOf
            <3>2. \A name \in Name : /\ [name EXCEPT !.active = FALSE] \in Name
                                     /\ [name EXCEPT !.active = FALSE].receipt = name.receipt
                BY DEF Name
            <3>3. \A n \in DOMAIN names : names'[n] \in Name /\ names'[n].receipt \in DOMAIN payments
                BY <2>2, <3>1, <3>2
            <3>4. names' = [n \in DOMAIN names |-> names'[n]]
                BY <1>4, <2>2 DEF DeactivateNames, TypeOK, MapOf
            <3>5. QED BY <2>2, <3>3, <3>4 DEF TypeOK, MapOf
        <2>4. /\ Return(c) \/ Suspend(c, [op |-> "downgrade", todo |-> k.todo])
              /\ UNCHANGED <<now, payments, provider, subs, credits>>
            BY <1>4 DEF DeactivateNames
        <2> HIDE DEF k
        <2>5. calls' \in [Calls -> Call] /\ \A d \in Calls : OnRows(calls[d])'
            BY <1>1, <2>1, <2>2, <2>4, IdleIsACall, CallsStayTyped DEF Return
        <2>6. QED
            BY <2>3, <2>4, <2>5 DEF TypeOK
    <1>5. QED
        BY <1>2, <1>3, <1>4 DEF Downgrade

\* Claiming an identity keeps the types.
LEMMA ClaimType == TypeOK /\ Claim => TypeOK'
    <1> SUFFICES ASSUME TypeOK, NEW c \in Calls,
                        \/ \E u \in Users, n \in Names : Provision(c, u, n)
                        \/ ReadUser(c) \/ FindReceipt(c) \/ CreateName(c)
                 PROVE  TypeOK'
        BY DEF Claim
    <1> DEFINE k == calls[c]
    <1>0. k \in Call /\ OnRows(k)
        BY DEF TypeOK
    <1>1. ASSUME NEW u \in Users, NEW n \in Names, NEW op \in {"readUser", "findReceipt"}
          PROVE  [op |-> op, user |-> u, name |-> n] \in Call /\ OnRows([op |-> op, user |-> u, name |-> n])
        BY DEF Call, NameCall, OnRows, AboutPayment
    <1>2. ASSUME NEW u \in Users, NEW n \in Names, Provision(c, u, n)
          PROVE  TypeOK'
        BY <1>1, <1>2, ReadType DEF Provision
    <1>3. CASE ReadUser(c)
        <2> DEFINE u == k.user  n == k.name
        <2>1. u \in Users /\ n \in Names
            BY <1>0, <1>3, CallKinds DEF ReadUser
        <2>2. /\ Suspend(c, [op |-> "findReceipt", user |-> u, name |-> n]) \/ Return(c)
              /\ UNCHANGED <<now, payments, provider, subs, names, credits>>
            BY <1>3 DEF ReadUser
        <2> HIDE DEF u, n
        <2>3. QED
            BY <1>1, <2>1, <2>2, ReadType, ReturnType
    <1>4. CASE FindReceipt(c)
        <2> DEFINE u == k.user  n == k.name
        <2>1. u \in Users /\ n \in Names
            BY <1>0, <1>4, CallKinds DEF FindReceipt
        <2>2. /\ \/ \E p \in DOMAIN payments :
                       Suspend(c, [op |-> "create", user |-> u, name |-> n, receipt |-> p])
                 \/ Return(c)
              /\ UNCHANGED <<now, payments, provider, subs, names, credits>>
            BY <1>4 DEF FindReceipt, Receipts
        <2> HIDE DEF u, n
        <2>3. ASSUME NEW p \in DOMAIN payments
              PROVE  /\ [op |-> "create", user |-> u, name |-> n, receipt |-> p] \in Call
                     /\ OnRows([op |-> "create", user |-> u, name |-> n, receipt |-> p])
            BY <2>1 DEF Call, NameCall, OnRows, AboutPayment, TypeOK, MapOf
        <2>4. QED
            BY <2>2, <2>3, ReadType, ReturnType
    <1>5. CASE CreateName(c)
        <2> DEFINE row == [owner |-> k.user, receipt |-> k.receipt, active |-> TRUE]
        <2>1. k.name \in Names /\ k.receipt \in DOMAIN payments /\ row \in Name
            BY <1>0, <1>5, CallKinds DEF CreateName, OnRows, Name
        <2>2. names' = names \/ names' = Put(names, k.name, row)
            BY <1>5 DEF CreateName
        <2>3. /\ DOMAIN names \subseteq DOMAIN names'
              /\ \A n \in DOMAIN names' :
                    names'[n] = row \/ (n \in DOMAIN names /\ names'[n] = names[n])
            <3> HIDE DEF row, k
            <3>1. QED
                BY <2>2 DEF Put
        <2>4. \A n \in DOMAIN names' : names'[n].receipt \in DOMAIN payments
            BY <2>1, <2>3 DEF TypeOK
        <2>5. MapOf(names, Names, Name)'
            <3> HIDE DEF row
            <3>1. QED
                BY <2>1, <2>2, PutMapOf DEF TypeOK
        <2>6. Return(c) /\ UNCHANGED <<now, payments, provider, subs, credits>>
            BY <1>5 DEF CreateName
        <2>7. calls' \in [Calls -> Call] /\ \A d \in Calls : OnRows(calls[d])'
            BY <2>3, <2>6, IdleIsACall, CallsStayTyped DEF Return
        <2>8. QED
            BY <2>4, <2>5, <2>6, <2>7 DEF TypeOK
    <1>6. QED
        BY <1>2, <1>3, <1>4, <1>5

\* Deleting an identity keeps the types.
LEMMA DeletionType == TypeOK /\ Deletion => TypeOK'
    <1> SUFFICES ASSUME TypeOK, NEW c \in Calls,
                        \/ \E u \in Users, n \in Names : Delete(c, u, n)
                        \/ WriteDeleted(c)
                 PROVE  TypeOK'
        BY DEF Deletion
    <1>1. ASSUME NEW u \in Users, NEW n \in Names, Delete(c, u, n)
          PROVE  TypeOK'
        <2>1. [op |-> "delete", name |-> n] \in Call /\ OnRows([op |-> "delete", name |-> n])
            BY <1>1 DEF Call, NameCall, OnRows, AboutPayment, Delete
        <2>2. QED
            BY <1>1, <2>1, ReadType DEF Delete
    <1>2. CASE WriteDeleted(c)
        <2> DEFINE n == calls[c].name
        <2>1. names' = [names EXCEPT ![n].active = FALSE]
            BY <1>2 DEF WriteDeleted
        <2>2. MapOf(names, Names, Name)' /\ \A m \in DOMAIN names' : names'[m].receipt \in DOMAIN payments
            BY <2>1 DEF TypeOK, MapOf, Name
        <2>3. calls' \in [Calls -> Call] /\ \A d \in Calls : OnRows(calls[d])'
            BY <1>2, <2>1, IdleIsACall, CallsStayTyped DEF WriteDeleted, Return
        <2>4. QED
            BY <1>2, <2>2, <2>3 DEF TypeOK, WriteDeleted
    <1>3. QED
        BY <1>1, <1>2

\* The administrator keeps the types.
LEMMA AdministrationType == TypeOK /\ Administration => TypeOK'
    <1> SUFFICES ASSUME TypeOK, NEW n \in Names,
                        \/ \E tier \in Paid \cup {"FREE"} : AdminUpdateTier(n, tier)
                        \/ \E changed \in 0..MaxTime : AdminExtend(n, changed, Month)
                        \/ \E suspended \in BOOLEAN : AdminSuspend(n, suspended)
                        \/ \E u \in Users : AdminTransfer(n, u)
                        \/ AdminDelete(n)
                 PROVE  TypeOK'
        BY DEF Administration
    <1>1. n \in DOMAIN names => names[n] \in Name
        BY DEF TypeOK, MapOf
    <1>2. ASSUME NEW tier \in Paid \cup {"FREE"}, AdminUpdateTier(n, tier)
          PROVE  TypeOK'
        <2>1. subs' \in [Users -> Subscription]
            BY <1>1, <1>2 DEF TypeOK, AdminUpdateTier, Subscription, Tier
        <2>2. QED
            BY <1>2, <2>1 DEF TypeOK, AdminUpdateTier, OnRows
    <1>3. ASSUME NEW changed \in 0..MaxTime, AdminExtend(n, changed, Month)
          PROVE  TypeOK'
        <2>1. changed + Month \in Date
            BY BillingAssumption DEF Date
        <2>2. subs' \in [Users -> Subscription]
            BY <1>1, <1>3, <2>1 DEF TypeOK, AdminExtend, Subscription
        <2>3. QED
            BY <1>3, <2>2 DEF TypeOK, AdminExtend, OnRows
    <1>4. ASSUME NEW suspended \in BOOLEAN, AdminSuspend(n, suspended)
          PROVE  TypeOK'
        <2>1. MapOf(names, Names, Name)' /\ \A m \in DOMAIN names' : names'[m].receipt \in DOMAIN payments
            BY <1>4 DEF TypeOK, MapOf, Name, AdminSuspend
        <2>2. QED
            BY <1>4, <2>1 DEF TypeOK, AdminSuspend, OnRows
    <1>5. ASSUME NEW u \in Users, AdminTransfer(n, u)
          PROVE  TypeOK'
        <2>1. MapOf(names, Names, Name)' /\ \A m \in DOMAIN names' : names'[m].receipt \in DOMAIN payments
            BY <1>5 DEF TypeOK, MapOf, Name, AdminTransfer
        <2>2. QED
            BY <1>5, <2>1 DEF TypeOK, AdminTransfer, OnRows
    <1>6. CASE AdminDelete(n)
        <2>1. MapOf(names, Names, Name)' /\ \A m \in DOMAIN names' : names'[m].receipt \in DOMAIN payments
            BY <1>6 DEF TypeOK, MapOf, AdminDelete
        <2>2. ASSUME NEW c \in Calls
              PROVE  calls'[c] \in Call /\ OnRows(calls[c])'
            <3>1. \/ calls'[c] = Idle
                  \/ calls'[c] = calls[c] /\ ~(calls[c].op = "delete" /\ calls[c].name = n)
                BY <1>6 DEF AdminDelete
            <3>2. DOMAIN names' = DOMAIN names \ {n} /\ payments' = payments
                BY <1>6 DEF AdminDelete
            <3>3. QED
                BY <3>1, <3>2, IdleIsACall DEF TypeOK, OnRows, Idle, AboutPayment
        <2>3. calls' \in [Calls -> Call]
            <3>1. calls' = [c \in Calls |-> calls'[c]]
                BY <1>6 DEF AdminDelete
            <3>2. QED
                BY <2>2, <3>1
        <2>4. QED
            BY <1>6, <2>1, <2>2, <2>3 DEF TypeOK, AdminDelete
    <1>7. QED
        BY <1>2, <1>3, <1>4, <1>5, <1>6

\* Before the first request everybody is on the FREE tier and nothing is under way.
LEMMA InitType == Init => TypeOK
    BY DEF Init, TypeOK, MapOf, EmptyMap, Call, Idle, OnRows, AboutPayment, Subscription, Free,
           Tier, Date

\* Every column always holds a value of its kind, and a suspended handler works on rows
\* that exist: a poll, a notice or a claim that goes on never finds its payment gone.
THEOREM TypeCorrect == Spec => []TypeOK
    <1>1. TypeOK /\ [Next]_vars => TypeOK'
        <2> SUFFICES ASSUME TypeOK, [Next]_vars PROVE TypeOK'
            OBVIOUS
        <2>1. ASSUME NEW c \in Calls, CallFails(c)
              PROVE  TypeOK'
            BY <2>1, ReturnType DEF CallFails
        <2>2. CASE Tick
            BY <2>2 DEF TypeOK, Tick, OnRows
        <2>3. CASE UNCHANGED vars
            BY <2>3 DEF TypeOK, vars, OnRows
        <2>4. QED
            BY <2>1, <2>2, <2>3, BuyType, PollType, NotifyType, ProcessType, CancellationType,
               ExpiryType, ClaimType, DeletionType, AdministrationType
            DEF Next, BillingNext, NamesNext
    <1>2. QED
        BY <1>1, InitType, PTL DEF Spec

(***************************************************************************)
(* Settlement                                                              *)
(***************************************************************************)

\* No step removes a payment, changes who ordered what, unsettles an invoice or takes
\* a credit back.
Kept ==
    \A p \in DOMAIN payments :
        /\ p \in DOMAIN payments'
        /\ payments'[p].user = payments[p].user
        /\ payments'[p].order = payments[p].order
        /\ provider[p] = "paid" => provider'[p] = "paid"
        /\ credits[p] > 0 => credits'[p] > 0

\* The handlers that a step leaves alone stay settled.
LEMMA HandlersStay ==
    ASSUME TypeOK, SettlementInv, Kept, NEW S \in SUBSET Calls,
           \A d \in Calls \ S : calls'[d] = calls[d],
           \A c \in S : HandlerSettled(calls[c])'
    PROVE  \A c \in Calls : HandlerSettled(calls[c])'
    <1> SUFFICES ASSUME NEW d \in Calls \ S PROVE HandlerSettled(calls[d])'
        OBVIOUS
    <1>1. /\ calls[d].op \in AboutPayment => calls[d].payment \in DOMAIN payments
          /\ calls[d].op = "create" => calls[d].receipt \in DOMAIN payments
          /\ HandlerSettled(calls[d])
        BY DEF TypeOK, OnRows, SettlementInv
    <1>2. QED
        BY <1>1 DEF Kept, HandlerSettled, AboutPayment

\* The parts of the invariant after a step, from what the step adds to each.
LEMMA SettlementParts ==
    ASSUME TypeOK, SettlementInv, Kept, NEW S \in SUBSET Calls,
           \A d \in Calls \ S : calls'[d] = calls[d],
           \A c \in S : HandlerSettled(calls[c])',
           \A p \in DOMAIN payments' :
               payments'[p].status = "paid" =>
                   \/ p \in DOMAIN payments /\ payments[p].status = "paid"
                   \/ provider'[p] = "paid" /\ credits'[p] > 0,
           \A n \in DOMAIN names' :
               \/ \E m \in DOMAIN names : names'[n].receipt = names[m].receipt
               \/ provider'[names'[n].receipt] = "paid",
           "admin" \notin Ops => \A u \in Users :
               \/ subs'[u].tier \in {"FREE", subs[u].tier}
               \/ \E p \in DOMAIN payments' :
                      /\ payments'[p].user = u /\ payments'[p].order.tier = subs'[u].tier
                      /\ provider'[p] = "paid" /\ credits'[p] > 0
    PROVE  SettlementInv'
    <1>1. PaidIsSettled'
        BY DEF SettlementInv, PaidIsSettled, Kept
    <1>2. NameHasReceipt'
        BY DEF SettlementInv, NameHasReceipt, Kept, TypeOK
    <1>3. TierIsPaidFor'
        <2> SUFFICES ASSUME "admin" \notin Ops, NEW u \in Users,
                            subs'[u].tier # "FREE", subs'[u].tier = subs[u].tier
                     PROVE  \E p \in DOMAIN payments' :
                                /\ payments'[p].user = u /\ payments'[p].order.tier = subs'[u].tier
                                /\ provider'[p] = "paid" /\ credits'[p] > 0
            BY DEF TierIsPaidFor
        <2>1. PICK p \in DOMAIN payments :
                   /\ payments[p].user = u /\ payments[p].order.tier = subs[u].tier
                   /\ provider[p] = "paid" /\ credits[p] > 0
            BY DEF SettlementInv, TierIsPaidFor
        <2>2. QED
            BY <2>1 DEF Kept
    <1>4. QED
        BY <1>1, <1>2, <1>3, HandlersStay DEF SettlementInv

\* The same for a step of one handler.
LEMMA StepSettled ==
    ASSUME TypeOK, SettlementInv, Kept, NEW c \in Calls, NEW k, Suspend(c, k),
           HandlerSettled(calls[c])',
           \A p \in DOMAIN payments' :
               payments'[p].status = "paid" =>
                   \/ p \in DOMAIN payments /\ payments[p].status = "paid"
                   \/ provider'[p] = "paid" /\ credits'[p] > 0,
           \A n \in DOMAIN names' :
               \/ \E m \in DOMAIN names : names'[n].receipt = names[m].receipt
               \/ provider'[names'[n].receipt] = "paid",
           "admin" \notin Ops => \A u \in Users :
               \/ subs'[u].tier \in {"FREE", subs[u].tier}
               \/ \E p \in DOMAIN payments' :
                      /\ payments'[p].user = u /\ payments'[p].order.tier = subs'[u].tier
                      /\ provider'[p] = "paid" /\ credits'[p] > 0
    PROVE  SettlementInv'
    <1> DEFINE S == {c}
    <1>1. /\ S \in SUBSET Calls
          /\ \A d \in Calls \ S : calls'[d] = calls[d]
          /\ \A d \in S : HandlerSettled(calls[d])'
        BY DEF TypeOK, Suspend
    <1> HIDE DEF S
    <1>2. QED
        BY <1>1, SettlementParts

\* A step that only reads, and leaves its handler settled.
LEMMA ReadSettled ==
    ASSUME TypeOK, SettlementInv, NEW c \in Calls, NEW k, Suspend(c, k), HandlerSettled(k),
           UNCHANGED <<payments, provider, subs, names, credits>>
    PROVE  SettlementInv'
    <1>1. Kept
        BY DEF Kept
    <1>2. HandlerSettled(calls[c])'
        BY DEF TypeOK, Suspend, HandlerSettled
    <1>3. "admin" \notin Ops => \A u \in Users : subs'[u].tier \in {"FREE", subs[u].tier}
        OBVIOUS
    <1>4. \A n \in DOMAIN names' : \E m \in DOMAIN names : names'[n].receipt = names[m].receipt
        OBVIOUS
    <1>5. QED
        BY <1>1, <1>2, <1>3, <1>4, StepSettled

\* A handler of a kind that knows nothing of a settlement is settled.
LEMMA OtherSettled ==
    ASSUME NEW k, k.op \notin {"process", "extend", "mark", "create"}
    PROVE  HandlerSettled(k)
    BY DEF HandlerSettled

\* A handler that ends without a write.
LEMMA ReturnSettled ==
    ASSUME TypeOK, SettlementInv, NEW c \in Calls, Return(c),
           UNCHANGED <<payments, provider, subs, names, credits>>
    PROVE  SettlementInv'
    BY ReadSettled, OtherSettled DEF Return, Idle

\* Orders are pending, and what the provider has decided stays decided.
LEMMA BuySettled == TypeOK /\ SettlementInv /\ Buy => SettlementInv'
    <1> SUFFICES ASSUME TypeOK, SettlementInv, Buy PROVE SettlementInv'
        OBVIOUS
    <1> DEFINE S == {}
    <1>1. ASSUME UNCHANGED <<subs, names, calls, credits>>, Kept,
                 \A p \in DOMAIN payments' : payments'[p].status = "paid" =>
                     p \in DOMAIN payments /\ payments[p].status = "paid"
          PROVE  SettlementInv'
        <2>1. /\ S \in SUBSET Calls
              /\ \A d \in Calls \ S : calls'[d] = calls[d]
              /\ \A d \in S : HandlerSettled(calls[d])'
            BY <1>1
        <2>2. "admin" \notin Ops => \A u \in Users : subs'[u].tier \in {"FREE", subs[u].tier}
            BY <1>1
        <2>3. \A n \in DOMAIN names' : \E m \in DOMAIN names : names'[n].receipt = names[m].receipt
            BY <1>1
        <2> HIDE DEF S
        <2>4. QED
            BY <1>1, <2>1, <2>2, <2>3, SettlementParts
    <1>2. ASSUME NEW u \in Users, NEW o \in Orders, NEW p \in Payments, CreateInvoice(u, o, p)
          PROVE  SettlementInv'
        <2>1. /\ DOMAIN payments' = DOMAIN payments \cup {p} /\ p \notin DOMAIN payments
              /\ payments'[p].status = "pending"
              /\ \A q \in DOMAIN payments : payments'[q] = payments[q] /\ provider'[q] = provider[q]
            BY <1>2 DEF CreateInvoice, Put, TypeOK
        <2>2. UNCHANGED <<subs, names, calls, credits>>
            BY <1>2 DEF CreateInvoice
        <2>3. QED
            BY <1>1, <2>1, <2>2 DEF Kept
    <1>3. ASSUME NEW p \in Payments, NEW state \in {"paid", "expired", "failed"},
                 ProviderDecides(p, state)
          PROVE  SettlementInv'
        BY <1>1, <1>3 DEF ProviderDecides, Kept, TypeOK
    <1>4. QED
        BY <1>2, <1>3 DEF Buy

\* A status other than "paid" may be written to any payment.
LEMMA RefusedSettled ==
    ASSUME TypeOK, SettlementInv, NEW c \in Calls, Return(c),
           NEW p \in DOMAIN payments, NEW status \in Decision,
           payments' = [payments EXCEPT ![p].status = status],
           UNCHANGED <<provider, subs, names, credits>>
    PROVE  SettlementInv'
    <1>1. payments[p] \in Payment
        BY DEF TypeOK, MapOf
    <1>2. Kept
        BY <1>1 DEF Kept, Payment
    <1>3. \A q \in DOMAIN payments' : payments'[q].status = "paid" =>
              q \in DOMAIN payments /\ payments[q].status = "paid"
        BY <1>1 DEF Payment, Decision
    <1>4. HandlerSettled(calls[c])'
        BY DEF TypeOK, Return, Suspend, Idle, HandlerSettled
    <1>5. \A n \in DOMAIN names' : \E m \in DOMAIN names : names'[n].receipt = names[m].receipt
        OBVIOUS
    <1>6. "admin" \notin Ops => \A u \in Users : subs'[u].tier \in {"FREE", subs[u].tier}
        OBVIOUS
    <1>7. QED
        BY <1>2, <1>3, <1>4, <1>5, <1>6, StepSettled DEF Return

\* checkInvoiceStatus processes a payment the provider says is settled, and writes no
\* other "paid".
LEMMA PollSettled == TypeOK /\ SettlementInv /\ Poll => SettlementInv'
    <1> SUFFICES ASSUME TypeOK, SettlementInv, NEW c \in Calls,
                        \/ \E p \in Payments : CheckInvoiceStatus(c, p)
                        \/ CheckAnswered(c)
                        \/ WriteStatus(c)
                 PROVE  SettlementInv'
        BY DEF Poll
    <1> DEFINE k == calls[c]
    <1>0. k \in Call /\ OnRows(k)
        BY DEF TypeOK
    <1>1. ASSUME NEW p \in Payments, CheckInvoiceStatus(c, p)
          PROVE  SettlementInv'
        BY <1>1, OtherSettled, ReadSettled DEF CheckInvoiceStatus
    <1>2. CASE CheckAnswered(c)
        <2> DEFINE p == k.payment
        <2>1. \/ provider[p] = "paid" /\ Suspend(c, [op |-> "process", payment |-> p])
              \/ \E s \in Decision : Suspend(c, [op |-> "write", payment |-> p, status |-> s])
              \/ Return(c)
            BY <1>2 DEF CheckAnswered, Answer, Decision
        <2>2. UNCHANGED <<payments, provider, subs, names, credits>>
            BY <1>2 DEF CheckAnswered
        <2> HIDE DEF p
        <2>3. ASSUME provider[p] = "paid"
              PROVE  HandlerSettled([op |-> "process", payment |-> p])
            BY <2>3 DEF HandlerSettled
        <2>4. \A s \in Decision : HandlerSettled([op |-> "write", payment |-> p, status |-> s])
            BY OtherSettled
        <2>5. QED
            BY <2>1, <2>2, <2>3, <2>4, ReadSettled, ReturnSettled
    <1>3. CASE WriteStatus(c)
        <2>1. k \in StatusCall /\ k.payment \in DOMAIN payments
            BY <1>0, <1>3, CallKinds DEF WriteStatus, OnRows, AboutPayment
        <2>2. QED
            BY <1>3, <2>1, RefusedSettled DEF WriteStatus, StatusCall
    <1>4. QED
        BY <1>1, <1>2, <1>3

\* handleWebhook processes a payment the provider says is settled when it is asked.
LEMMA NotifySettled == TypeOK /\ SettlementInv /\ Notify => SettlementInv'
    <1> SUFFICES ASSUME TypeOK, SettlementInv, NEW c \in Calls,
                        \/ \E p \in Payments : HandleWebhook(c, p)
                        \/ Verified(c)
                        \/ LapseStatus(c)
                 PROVE  SettlementInv'
        BY DEF Notify
    <1> DEFINE k == calls[c]
    <1>0. k \in Call /\ OnRows(k)
        BY DEF TypeOK
    <1>1. ASSUME NEW p \in Payments, HandleWebhook(c, p)
          PROVE  SettlementInv'
        BY <1>1, OtherSettled, ReadSettled DEF HandleWebhook
    <1>2. CASE Verified(c)
        <2> DEFINE p == k.payment
        <2>1. \/ provider[p] = "paid" /\ Suspend(c, [op |-> "process", payment |-> p])
              \/ Return(c)
            BY <1>2 DEF Verified, Answer
        <2>2. UNCHANGED <<payments, provider, subs, names, credits>>
            BY <1>2 DEF Verified
        <2> HIDE DEF p
        <2>3. ASSUME provider[p] = "paid"
              PROVE  HandlerSettled([op |-> "process", payment |-> p])
            BY <2>3 DEF HandlerSettled
        <2>4. QED
            BY <2>1, <2>2, <2>3, ReadSettled, ReturnSettled
    <1>3. CASE LapseStatus(c)
        <2>1. k \in StatusCall /\ k.payment \in DOMAIN payments
            BY <1>0, <1>3, CallKinds DEF LapseStatus, OnRows, AboutPayment
        <2>2. CASE payments[k.payment].status = "pending"
            BY <1>3, <2>1, <2>2, RefusedSettled DEF LapseStatus, StatusCall
        <2>3. CASE payments[k.payment].status # "pending"
            BY <1>3, <2>3, ReturnSettled DEF LapseStatus
        <2>4. QED
            BY <2>2, <2>3
    <1>4. QED
        BY <1>1, <1>2, <1>3

\* processPayment extends before it marks, and only what was settled.
LEMMA ProcessSettled ==
    ASSUME TypeOK, SettlementInv, NEW c \in Calls, ProcessPayment(c)
    PROVE  SettlementInv'
    <1> DEFINE k == calls[c]
               p == k.payment
               row == payments[p]
    <1>0. k \in Call /\ OnRows(k) /\ HandlerSettled(k)
        BY DEF TypeOK, SettlementInv
    <1>1. p \in Payments /\ p \in DOMAIN payments /\ row \in Payment
        BY <1>0, CallKinds DEF ProcessPayment, ReadPayment, ExtendSubscription, MarkPaid,
           PaymentCall, ExtendCall, OnRows, AboutPayment, TypeOK, MapOf
    <1>2. provider[p] = "paid"
        BY <1>0 DEF HandlerSettled, ProcessPayment, ReadPayment, ExtendSubscription, MarkPaid
    <1>3. CASE ReadPayment(c)
        <2> DEFINE until == subs[row.user].until
        <2>1. HandlerSettled([op |-> "extend", payment |-> p, until |-> until])
            BY <1>2 DEF HandlerSettled
        <2>2. /\ Suspend(c, [op |-> "extend", payment |-> p, until |-> until]) \/ Return(c)
              /\ UNCHANGED <<payments, provider, subs, names, credits>>
            BY <1>3 DEF ReadPayment
        <2> HIDE DEF until, p
        <2>3. QED
            BY <2>1, <2>2, ReadSettled, ReturnSettled
    <1>4. CASE ExtendSubscription(c)
        <2>1. /\ credits' = [credits EXCEPT ![p] = @ + 1]
              /\ Suspend(c, [op |-> "mark", payment |-> p])
              /\ UNCHANGED <<now, payments, provider, names>>
            BY <1>4 DEF ExtendSubscription
        <2>2. credits'[p] > 0 /\ \A q \in DOMAIN payments : credits[q] > 0 => credits'[q] > 0
            BY <1>1, <2>1 DEF TypeOK
        <2>3. Kept
            BY <2>1, <2>2 DEF Kept
        <2>4. HandlerSettled(calls[c])'
            BY <1>2, <2>1, <2>2 DEF TypeOK, Suspend, HandlerSettled
        <2>5. \A n \in DOMAIN names' : \E m \in DOMAIN names : names'[n].receipt = names[m].receipt
            BY <2>1
        <2>6. \A u \in Users : u = row.user \/ subs'[u].tier = subs[u].tier
            BY <1>4 DEF ExtendSubscription, TypeOK
        <2>7. /\ payments'[p].user = row.user /\ payments'[p].order.tier = subs'[row.user].tier
              /\ provider'[p] = "paid"
            BY <1>1, <1>2, <1>4 DEF ExtendSubscription, TypeOK, Payment
        <2>8. \A u \in Users :
                  \/ subs'[u].tier \in {"FREE", subs[u].tier}
                  \/ \E q \in DOMAIN payments' :
                         /\ payments'[q].user = u /\ payments'[q].order.tier = subs'[u].tier
                         /\ provider'[q] = "paid" /\ credits'[q] > 0
            BY <1>1, <2>1, <2>2, <2>6, <2>7
        <2>9. \A q \in DOMAIN payments' : payments'[q].status = "paid" =>
                  q \in DOMAIN payments /\ payments[q].status = "paid"
            BY <2>1
        <2> HIDE DEF p, row
        <2>10. QED
            BY <2>1, <2>3, <2>4, <2>5, <2>8, <2>9, StepSettled
    <1>5. CASE MarkPaid(c)
        <2>1. credits[p] > 0
            BY <1>0, <1>5 DEF HandlerSettled, MarkPaid
        <2>2. /\ payments' = [payments EXCEPT ![p].status = "paid"]
              /\ Return(c)
              /\ UNCHANGED <<provider, subs, names, credits>>
            BY <1>5 DEF MarkPaid
        <2>3. Kept
            BY <1>1, <2>2 DEF Kept, Payment
        <2>4. HandlerSettled(calls[c])'
            BY <2>2 DEF TypeOK, Return, Suspend, Idle, HandlerSettled
        <2>5. \A q \in DOMAIN payments' : payments'[q].status = "paid" =>
                  \/ q \in DOMAIN payments /\ payments[q].status = "paid"
                  \/ provider'[q] = "paid" /\ credits'[q] > 0
            BY <1>1, <1>2, <2>1, <2>2
        <2>6. \A n \in DOMAIN names' : \E m \in DOMAIN names : names'[n].receipt = names[m].receipt
            BY <2>2
        <2>7. \A u \in Users : subs'[u].tier \in {"FREE", subs[u].tier}
            BY <2>2
        <2> HIDE DEF p, row
        <2>8. QED
            BY <2>2, <2>3, <2>4, <2>5, <2>6, <2>7, StepSettled DEF Return
    <1>6. QED
        BY <1>3, <1>4, <1>5 DEF ProcessPayment

\* A step on subscriptions or identities that grants no tier and no identity.
LEMMA NothingGranted ==
    ASSUME TypeOK, SettlementInv, NEW c \in Calls, NEW k, Suspend(c, k),
           k.op \notin {"process", "extend", "mark", "create"},
           UNCHANGED <<payments, provider, credits>>,
           \A n \in DOMAIN names' :
               \/ \E m \in DOMAIN names : names'[n].receipt = names[m].receipt
               \/ provider'[names'[n].receipt] = "paid",
           \A u \in Users : subs'[u].tier \in {"FREE", subs[u].tier}
    PROVE  SettlementInv'
    <1>1. Kept
        BY DEF Kept
    <1>2. HandlerSettled(calls[c])'
        BY DEF TypeOK, Suspend, HandlerSettled
    <1>3. QED
        BY <1>1, <1>2, StepSettled

\* cancel and reactivate leave the tier alone.
LEMMA CancellationSettled == TypeOK /\ SettlementInv /\ Cancellation => SettlementInv'
    <1> SUFFICES ASSUME TypeOK, SettlementInv, NEW c \in Calls,
                        \/ \E u \in Users : Cancel(c, u) \/ Reactivate(c, u)
                        \/ WriteCancelled(c)
                 PROVE  SettlementInv'
        BY DEF Cancellation
    <1>1. ASSUME NEW u \in Users, Cancel(c, u) \/ Reactivate(c, u)
          PROVE  SettlementInv'
        BY <1>1, OtherSettled, ReadSettled DEF Cancel, Reactivate
    <1>2. CASE WriteCancelled(c)
        <2>1. \A u \in Users : subs'[u].tier \in {"FREE", subs[u].tier}
            BY <1>2 DEF WriteCancelled, TypeOK, Subscription
        <2>2. UNCHANGED <<payments, provider, names, credits>> /\ Suspend(c, Idle)
            BY <1>2 DEF WriteCancelled, Return
        <2>3. QED
            BY <2>1, <2>2, NothingGranted DEF Idle
    <1>3. QED
        BY <1>1, <1>2

\* The expiry job only takes away.
LEMMA ExpirySettled == TypeOK /\ SettlementInv /\ Expiry => SettlementInv'
    <1> SUFFICES ASSUME TypeOK, SettlementInv, NEW c \in Calls,
                        ProcessExpired(c) \/ Downgrade(c) \/ DeactivateNames(c)
                 PROVE  SettlementInv'
        BY DEF Expiry
    <1>1. CASE ProcessExpired(c)
        BY <1>1, OtherSettled, ReadSettled DEF ProcessExpired
    <1>2. CASE Downgrade(c)
        <2>1. PICK u \in calls[c].todo :
                  /\ subs' = [subs EXCEPT ![u] = Free]
                  /\ Suspend(c, [op |-> "deactivate", user |-> u, todo |-> calls[c].todo \ {u}])
            BY <1>2 DEF Downgrade
        <2>2. \A v \in Users : subs'[v].tier \in {"FREE", subs[v].tier}
            BY <2>1 DEF TypeOK, Free
        <2>3. UNCHANGED <<payments, provider, names, credits>>
            BY <1>2 DEF Downgrade
        <2>4. QED
            BY <2>1, <2>2, <2>3, NothingGranted
    <1>3. CASE DeactivateNames(c)
        <2>1. \A n \in DOMAIN names' : n \in DOMAIN names /\ names'[n].receipt = names[n].receipt
            BY <1>3 DEF DeactivateNames, TypeOK, MapOf, Name
        <2>2. /\ UNCHANGED <<payments, provider, subs, credits>>
              /\ Suspend(c, Idle) \/ Suspend(c, [op |-> "downgrade", todo |-> calls[c].todo])
            BY <1>3 DEF DeactivateNames, Return
        <2>3. QED
            BY <2>1, <2>2, NothingGranted DEF Idle
    <1>4. QED
        BY <1>1, <1>2, <1>3

\* provision takes a paid payment for a receipt, and a paid payment was settled.
LEMMA ClaimSettled == TypeOK /\ SettlementInv /\ Claim => SettlementInv'
    <1> SUFFICES ASSUME TypeOK, SettlementInv, NEW c \in Calls,
                        \/ \E u \in Users, n \in Names : Provision(c, u, n)
                        \/ ReadUser(c) \/ FindReceipt(c) \/ CreateName(c)
                 PROVE  SettlementInv'
        BY DEF Claim
    <1>1. ASSUME NEW u \in Users, NEW n \in Names, Provision(c, u, n)
          PROVE  SettlementInv'
        BY <1>1, OtherSettled, ReadSettled DEF Provision
    <1>2. CASE ReadUser(c)
        BY <1>2, OtherSettled, ReadSettled, ReturnSettled DEF ReadUser
    <1>3. CASE FindReceipt(c)
        <2> DEFINE u == calls[c].user  n == calls[c].name
        <2>1. /\ \/ \E p \in Receipts(u) :
                       Suspend(c, [op |-> "create", user |-> u, name |-> n, receipt |-> p])
                 \/ Return(c)
              /\ UNCHANGED <<payments, provider, subs, names, credits>>
            BY <1>3 DEF FindReceipt
        <2> HIDE DEF u, n
        <2>2. ASSUME NEW p \in Receipts(u)
              PROVE  HandlerSettled([op |-> "create", user |-> u, name |-> n, receipt |-> p])
            BY DEF Receipts, SettlementInv, PaidIsSettled, HandlerSettled
        <2>3. QED
            BY <2>1, <2>2, ReadSettled, ReturnSettled
    <1>4. CASE CreateName(c)
        <2>1. provider[calls[c].receipt] = "paid"
            BY <1>4 DEF SettlementInv, HandlerSettled, CreateName
        <2>2. \A m \in DOMAIN names' :
                  \/ m \in DOMAIN names /\ names'[m].receipt = names[m].receipt
                  \/ names'[m].receipt = calls[c].receipt
            BY <1>4 DEF CreateName, Put
        <2>3. UNCHANGED <<payments, provider, subs, credits>> /\ Suspend(c, Idle)
            BY <1>4 DEF CreateName, Return
        <2>4. QED
            BY <2>1, <2>2, <2>3, NothingGranted DEF Idle
    <1>5. QED
        BY <1>1, <1>2, <1>3, <1>4

\* delete keeps the receipts.
LEMMA DeletionSettled == TypeOK /\ SettlementInv /\ Deletion => SettlementInv'
    <1> SUFFICES ASSUME TypeOK, SettlementInv, NEW c \in Calls,
                        \/ \E u \in Users, n \in Names : Delete(c, u, n)
                        \/ WriteDeleted(c)
                 PROVE  SettlementInv'
        BY DEF Deletion
    <1>1. ASSUME NEW u \in Users, NEW n \in Names, Delete(c, u, n)
          PROVE  SettlementInv'
        BY <1>1, OtherSettled, ReadSettled DEF Delete
    <1>2. CASE WriteDeleted(c)
        <2>1. \A n \in DOMAIN names' : n \in DOMAIN names /\ names'[n].receipt = names[n].receipt
            BY <1>2 DEF WriteDeleted, TypeOK, MapOf, Name
        <2>2. UNCHANGED <<payments, provider, subs, credits>> /\ Suspend(c, Idle)
            BY <1>2 DEF WriteDeleted, Return
        <2>3. QED
            BY <2>1, <2>2, NothingGranted DEF Idle
    <1>3. QED
        BY <1>1, <1>2

\* An administrator grants tiers, but neither payments nor receipts.
LEMMA AdministrationSettled ==
    ASSUME TypeOK, SettlementInv, "admin" \in Ops, Administration
    PROVE  SettlementInv'
    <1> DEFINE S == {c \in Calls : calls'[c] # calls[c]}
    <1>1. UNCHANGED <<payments, provider, credits>>
        BY DEF Administration, AdminUpdateTier, AdminExtend, AdminSuspend, AdminTransfer, AdminDelete
    <1>2. \A n \in DOMAIN names' : n \in DOMAIN names /\ names'[n].receipt = names[n].receipt
        <2>1. CASE UNCHANGED names
            BY <2>1
        <2>2. ASSUME NEW n \in Names, NEW suspended \in BOOLEAN, AdminSuspend(n, suspended)
              PROVE  \A m \in DOMAIN names' : m \in DOMAIN names /\ names'[m].receipt = names[m].receipt
            BY <2>2 DEF AdminSuspend, TypeOK, MapOf, Name
        <2>3. ASSUME NEW n \in Names, NEW u \in Users, AdminTransfer(n, u)
              PROVE  \A m \in DOMAIN names' : m \in DOMAIN names /\ names'[m].receipt = names[m].receipt
            BY <2>3 DEF AdminTransfer, TypeOK, MapOf, Name
        <2>4. ASSUME NEW n \in Names, AdminDelete(n)
              PROVE  \A m \in DOMAIN names' : m \in DOMAIN names /\ names'[m].receipt = names[m].receipt
            BY <2>4 DEF AdminDelete
        <2>5. QED
            BY <2>1, <2>2, <2>3, <2>4 DEF Administration, AdminUpdateTier, AdminExtend
    <1>3. \A c \in Calls : calls'[c] = calls[c] \/ calls'[c] = Idle
        BY DEF Administration, AdminUpdateTier, AdminExtend, AdminSuspend, AdminTransfer, AdminDelete
    <1>4. /\ S \in SUBSET Calls
          /\ \A d \in Calls \ S : calls'[d] = calls[d]
          /\ \A d \in S : HandlerSettled(calls[d])'
        BY <1>3 DEF HandlerSettled, Idle
    <1>5. Kept
        BY <1>1 DEF Kept
    <1> HIDE DEF S
    <1>6. QED
        BY <1>1, <1>2, <1>4, <1>5, SettlementParts

\* The inductive invariant: what suspended handlers know is still true when they go on.
THEOREM SettlementCorrect == Spec => []SettlementInv
    <1>1. Init => SettlementInv
        BY DEF Init, SettlementInv, HandlerSettled, PaidIsSettled, NameHasReceipt, TierIsPaidFor,
               EmptyMap, Idle, Free
    <1>2. TypeOK /\ SettlementInv /\ [Next]_vars => SettlementInv'
        <2> SUFFICES ASSUME TypeOK, SettlementInv, [Next]_vars PROVE SettlementInv'
            OBVIOUS
        <2>1. ASSUME NEW c \in Calls, CallFails(c)
              PROVE  SettlementInv'
            BY <2>1, ReturnSettled DEF CallFails
        <2>2. CASE Tick \/ UNCHANGED vars
            BY <2>2 DEF Tick, vars, SettlementInv, HandlerSettled, PaidIsSettled, NameHasReceipt,
               TierIsPaidFor
        <2>3. QED
            BY <2>1, <2>2, BuySettled, PollSettled, NotifySettled, ProcessSettled,
               CancellationSettled, ExpirySettled, ClaimSettled, DeletionSettled,
               AdministrationSettled
            DEF Next, BillingNext, NamesNext
    <1>3. QED
        BY <1>1, <1>2, TypeCorrect, PTL DEF Spec

\* A payment that processPayment has marked paid was settled at the provider and has
\* extended its subscription, whatever overlaps, repeats or crashes.
THEOREM NothingIsMarkedUnsettled == Spec => []PaidIsSettled
    <1>1. SettlementInv => PaidIsSettled
        BY DEF SettlementInv
    <1>2. QED
        BY <1>1, SettlementCorrect, PTL

\* Every identity that provision has created rests on an invoice that was settled.
THEOREM NoIdentityWithoutReceipt == Spec => []NameHasReceipt
    <1>1. SettlementInv => NameHasReceipt
        BY DEF SettlementInv
    <1>2. QED
        BY <1>1, SettlementCorrect, PTL

\* Without an administrator nobody has a tier that they have not ordered and paid for.
THEOREM NoTierUnpaid == Spec => []TierIsPaidFor
    <1>1. SettlementInv => TierIsPaidFor
        BY DEF SettlementInv
    <1>2. QED
        BY <1>1, SettlementCorrect, PTL

(***************************************************************************)
(* One handler at a time                                                   *)
(***************************************************************************)

\* No two handlers are suspended at the same time.
OneAtATime == \A c, d \in Calls : c = d

LEMMA TheHandler ==
    ASSUME TypeOK, OneAtATime, NEW c \in Calls, NEW k, Suspend(c, k)
    PROVE  \A d \in Calls : d = c /\ calls'[d] = k
    BY DEF TypeOK, OneAtATime, Suspend

\* Writing a status keeps what was ordered by whom.
LEMMA StatusKeeps ==
    ASSUME TypeOK, NEW p, NEW status, payments' = [payments EXCEPT ![p].status = status],
           UNCHANGED <<provider, credits>>
    PROVE  Kept
    <1>1. \A q \in DOMAIN payments : payments[q] \in Payment
        BY DEF TypeOK, MapOf
    <1>2. QED BY <1>1 DEF Kept, Payment

LEMMA HandlerKeeps ==
    ASSUME TypeOK, NEW c \in Calls, ProcessPayment(c) \/ WriteStatus(c) \/ LapseStatus(c)
    PROVE  Kept
    <1>1. CASE ReadPayment(c)
        BY <1>1 DEF ReadPayment, Kept
    <1>2. CASE ExtendSubscription(c)
        BY <1>2 DEF ExtendSubscription, Kept, TypeOK, MapOf
    <1>3. CASE MarkPaid(c)
        BY <1>3, StatusKeeps DEF MarkPaid
    <1>4. CASE WriteStatus(c)
        BY <1>4, StatusKeeps DEF WriteStatus
    <1>5. CASE LapseStatus(c)
        <2>1. CASE UNCHANGED payments
            BY <1>5, <2>1 DEF LapseStatus, Kept
        <2>2. CASE payments' = [payments EXCEPT ![calls[c].payment].status = calls[c].status]
            BY <1>5, <2>2, StatusKeeps DEF LapseStatus
        <2>3. QED BY <1>5, <2>1, <2>2 DEF LapseStatus
    <1>6. QED BY <1>1, <1>2, <1>3, <1>4, <1>5 DEF ProcessPayment

LEMMA BuyKeeps == ASSUME TypeOK, Buy PROVE Kept
    <1>1. ASSUME NEW u \in Users, NEW o \in Orders, NEW p \in Payments, CreateInvoice(u, o, p)
          PROVE  Kept
        <2>1. \A q \in DOMAIN payments : q # p /\ q \in DOMAIN provider
            BY <1>1 DEF CreateInvoice, TypeOK
        <2>2. QED BY <1>1, <2>1 DEF CreateInvoice, Put, Kept
    <1>2. ASSUME NEW p \in Payments, NEW state \in {"paid", "expired", "failed"},
                 ProviderDecides(p, state)
          PROVE  Kept
        BY <1>2 DEF ProviderDecides, Kept, TypeOK
    <1>3. QED BY <1>1, <1>2 DEF Buy

(***************************************************************************)
(* The number of identities                                                *)
(***************************************************************************)

\* Some order of the user allows one more identity.
RoomFor(u) ==
    \E p \in DOMAIN payments :
        /\ payments[p].user = u /\ credits[p] > 0
        /\ Cardinality(ActiveNames(u)) < Limit(payments[p].order.tier)

\* Whoever is about to create an identity has counted those there are.
Counted(k) == k.op \in {"findReceipt", "create"} => RoomFor(k.user)

NamesInv ==
    /\ IsFiniteSet(DOMAIN names)
    /\ \A c \in Calls : Counted(calls[c])
    /\ NamesWithinLimit

LEMMA LimitTypes == \A tier : Limit(tier) \in Nat
    BY LimitAssumption DEF Limit

LEMMA NameCounts ==
    ASSUME NamesInv, NEW u
    PROVE  IsFiniteSet(ActiveNames(u)) /\ Cardinality(ActiveNames(u)) \in Nat
    <1>1. ActiveNames(u) \subseteq DOMAIN names
        BY DEF ActiveNames
    <1>2. QED BY <1>1, FS_Subset, FS_CardinalityType DEF NamesInv

\* No identity is created, and the handlers that will create one have counted.
LEMMA NoNewName ==
    ASSUME NamesInv, Kept, DOMAIN names' \subseteq DOMAIN names,
           \A u \in Users : ActiveNames(u)' \subseteq ActiveNames(u),
           \A c \in Calls : calls'[c].op \in {"findReceipt", "create"} =>
               calls'[c].user \in Users /\ RoomFor(calls'[c].user)
    PROVE  NamesInv'
    <1>1. IsFiniteSet(DOMAIN names')
        BY FS_Subset DEF NamesInv
    <1>2. ASSUME NEW u \in Users
          PROVE  /\ Cardinality(ActiveNames(u)) \in Nat /\ Cardinality(ActiveNames(u)') \in Nat
                 /\ Cardinality(ActiveNames(u)') <= Cardinality(ActiveNames(u))
        <2>1. PICK before, after : before = ActiveNames(u) /\ after = ActiveNames(u)'
            OBVIOUS
        <2>2. after \subseteq before /\ IsFiniteSet(before)
            BY <2>1, NameCounts
        <2>3. QED BY <2>1, <2>2, FS_Subset, FS_CardinalityType
    <1>3. ASSUME NEW u \in Users, RoomFor(u) PROVE RoomFor(u)'
        <2>1. PICK p \in DOMAIN payments :
                 /\ payments[p].user = u /\ credits[p] > 0
                 /\ Cardinality(ActiveNames(u)) < Limit(payments[p].order.tier)
            BY <1>3 DEF RoomFor
        <2>2. PICK tier : tier = payments[p].order.tier /\ Limit(tier) \in Nat
            BY LimitTypes
        <2>3. p \in DOMAIN payments' /\ payments'[p].user = u /\ credits'[p] > 0
              /\ payments'[p].order.tier = tier
            BY <2>1, <2>2 DEF Kept
        <2>4. Cardinality(ActiveNames(u)') < Limit(tier)
            BY <1>2, <2>1, <2>2
        <2>5. QED BY <2>3, <2>4 DEF RoomFor, Limit
    <1>4. \A c \in Calls : Counted(calls[c])'
        BY <1>3 DEF Counted
    <1>5. ASSUME NEW u \in Users, ActiveNames(u)' # {}
          PROVE  \E p \in DOMAIN payments' :
                    /\ payments'[p].user = u /\ credits'[p] > 0
                    /\ Cardinality(ActiveNames(u)') <= Limit(payments'[p].order.tier)
        <2>1. ActiveNames(u) # {}
            BY <1>5
        <2>2. PICK p \in DOMAIN payments :
                 /\ payments[p].user = u /\ credits[p] > 0
                 /\ Cardinality(ActiveNames(u)) <= Limit(payments[p].order.tier)
            BY <2>1 DEF NamesInv, NamesWithinLimit
        <2>3. PICK tier : tier = payments[p].order.tier /\ Limit(tier) \in Nat
            BY LimitTypes
        <2>4. p \in DOMAIN payments' /\ payments'[p].user = u /\ credits'[p] > 0
              /\ payments'[p].order.tier = tier
            BY <2>2, <2>3 DEF Kept
        <2>5. Cardinality(ActiveNames(u)') <= Limit(tier)
            BY <1>2, <2>2, <2>3
        <2>6. QED BY <2>4, <2>5
    <1>6. NamesWithinLimit'
        BY <1>5 DEF NamesWithinLimit, Limit
    <1>7. QED BY <1>1, <1>4, <1>6 DEF NamesInv

\* A handler goes on, and creates no identity.
LEMMA HandlerNoNewName ==
    ASSUME TypeOK, NamesInv, OneAtATime, Kept, NEW c \in Calls, NEW k, Suspend(c, k),
           DOMAIN names' \subseteq DOMAIN names,
           \A u \in Users : ActiveNames(u)' \subseteq ActiveNames(u),
           k.op \in {"findReceipt", "create"} => k.user \in Users /\ RoomFor(k.user)
    PROVE  NamesInv'
    <1>1. \A d \in Calls : calls'[d] = k
        BY TheHandler
    <1>2. QED BY <1>1, NoNewName

\* A handler goes on that only reads, or ends.
LEMMA ReadNoNewName ==
    ASSUME TypeOK, NamesInv, OneAtATime, NEW c \in Calls, NEW k, Suspend(c, k),
           UNCHANGED <<payments, provider, names, credits>>,
           k.op \in {"findReceipt", "create"} => k.user \in Users /\ RoomFor(k.user)
    PROVE  NamesInv'
    <1>1. Kept /\ \A u \in Users : ActiveNames(u)' \subseteq ActiveNames(u)
        BY DEF Kept, ActiveNames
    <1>2. QED BY <1>1, HandlerNoNewName

\* provision: the subscription is paid for, and the limit is not reached.
LEMMA ReadUserNames ==
    ASSUME TypeOK, SettlementInv, "admin" \notin Ops, NamesInv, OneAtATime,
           NEW c \in Calls, ReadUser(c)
    PROVE  NamesInv'
    <1>1. PICK u, n : u = calls[c].user /\ n = calls[c].name
        OBVIOUS
    <1>2. calls[c] \in Call /\ u \in Users
        BY <1>1, CallKinds DEF ReadUser, TypeOK
    <1>3. UNCHANGED <<payments, provider, names, credits>>
        BY DEF ReadUser
    <1>4. CASE Return(c)
        BY <1>3, <1>4, ReadNoNewName DEF Return, Idle
    <1>5. CASE /\ Subscribed(u) /\ Cardinality(ActiveNames(u)) < Limit(subs[u].tier)
               /\ Suspend(c, [op |-> "findReceipt", user |-> u, name |-> n])
        <2>1. subs[u].tier # "FREE"
            BY <1>5 DEF Subscribed
        <2>2. PICK p \in DOMAIN payments :
                 payments[p].user = u /\ payments[p].order.tier = subs[u].tier /\ credits[p] > 0
            BY <1>2, <2>1 DEF SettlementInv, TierIsPaidFor
        <2>3. RoomFor(u)
            BY <1>5, <2>2 DEF RoomFor
        <2>4. PICK k : k = [op |-> "findReceipt", user |-> u, name |-> n]
            OBVIOUS
        <2>5. k.op = "findReceipt" /\ k.user = u /\ Suspend(c, k)
            BY <1>5, <2>4
        <2>6. QED BY <1>2, <1>3, <2>3, <2>5, ReadNoNewName
    <1>6. QED BY <1>1, <1>4, <1>5 DEF ReadUser

LEMMA FindReceiptNames ==
    ASSUME TypeOK, NamesInv, OneAtATime, NEW c \in Calls, FindReceipt(c)
    PROVE  NamesInv'
    <1>1. PICK u, n : u = calls[c].user /\ n = calls[c].name
        OBVIOUS
    <1>2. u \in Users /\ RoomFor(u)
        BY <1>1, CallKinds DEF FindReceipt, TypeOK, NamesInv, Counted
    <1>3. UNCHANGED <<payments, provider, names, credits>>
        BY DEF FindReceipt
    <1>4. CASE Return(c)
        BY <1>3, <1>4, ReadNoNewName DEF Return, Idle
    <1>5. ASSUME NEW p, Suspend(c, [op |-> "create", user |-> u, name |-> n, receipt |-> p])
          PROVE  NamesInv'
        <2>1. PICK k : k = [op |-> "create", user |-> u, name |-> n, receipt |-> p]
            OBVIOUS
        <2>2. k.op = "create" /\ k.user = u /\ Suspend(c, k)
            BY <1>5, <2>1
        <2>3. QED BY <1>2, <1>3, <2>2, ReadNoNewName
    <1>6. QED BY <1>1, <1>4, <1>5 DEF FindReceipt

\* The identity that is created takes the room there was.
LEMMA CreateNameNames ==
    ASSUME TypeOK, NamesInv, OneAtATime, NEW c \in Calls, CreateName(c)
    PROVE  NamesInv'
    <1>1. PICK u, n, row : /\ u = calls[c].user /\ n = calls[c].name
                           /\ row = [owner |-> u, receipt |-> calls[c].receipt, active |-> TRUE]
        OBVIOUS
    <1>2. u \in Users /\ RoomFor(u)
        BY <1>1, CallKinds DEF CreateName, TypeOK, NamesInv, Counted
    <1>3. UNCHANGED <<payments, provider, credits>> /\ Suspend(c, Idle)
        BY DEF CreateName, Return
    <1>4. CASE UNCHANGED names
        BY <1>3, <1>4, ReadNoNewName DEF Idle
    <1>5. CASE n \notin DOMAIN names /\ names' = Put(names, n, row)
        <2>1. /\ DOMAIN names' = DOMAIN names \cup {n} /\ names'[n] = row
              /\ \A m \in DOMAIN names : names'[m] = names[m]
            BY <1>5 DEF Put
        <2>2. IsFiniteSet(DOMAIN names')
            BY <2>1, FS_AddElement DEF NamesInv
        <2>3. \A d \in Calls : calls'[d] = Idle
            BY <1>3, TheHandler
        <2>4. \A d \in Calls : Counted(calls[d])'
            BY <2>3 DEF Counted, Idle
        <2>5. row.owner = u
            BY <1>1
        <2>6. ASSUME NEW v \in Users \ {u} PROVE ActiveNames(v)' = ActiveNames(v)
            BY <2>1, <2>5 DEF ActiveNames
        <2>7. ActiveNames(u)' \subseteq ActiveNames(u) \cup {n}
            BY <2>1 DEF ActiveNames
        <2>8. PICK p \in DOMAIN payments :
                 /\ payments[p].user = u /\ credits[p] > 0
                 /\ Cardinality(ActiveNames(u)) < Limit(payments[p].order.tier)
            BY <1>2 DEF RoomFor
        <2>9. Cardinality(ActiveNames(u)') <= Cardinality(ActiveNames(u)) + 1
            <3>1. PICK before, after : before = ActiveNames(u) /\ after = ActiveNames(u)'
                OBVIOUS
            <3>2. IsFiniteSet(before) /\ Cardinality(before) \in Nat
                BY <3>1, NameCounts
            <3>3. IsFiniteSet(before \cup {n})
                  /\ Cardinality(before \cup {n}) <= Cardinality(before) + 1
                BY <3>2, FS_AddElement
            <3>4. after \subseteq before \cup {n}
                BY <2>7, <3>1
            <3>5. /\ Cardinality(after) <= Cardinality(before \cup {n})
                  /\ Cardinality(after) \in Nat /\ Cardinality(before \cup {n}) \in Nat
                BY <3>3, <3>4, FS_Subset, FS_CardinalityType
            <3>6. QED BY <3>1, <3>2, <3>3, <3>5
        <2>10. PICK tier : tier = payments[p].order.tier /\ Limit(tier) \in Nat
            BY LimitTypes
        <2>11. Cardinality(ActiveNames(u)') <= Limit(tier)
            <3>1. Cardinality(ActiveNames(u)) \in Nat /\ IsFiniteSet(ActiveNames(u)')
                <4>1. ActiveNames(u)' \subseteq DOMAIN names'
                    BY DEF ActiveNames
                <4>2. QED BY <2>2, <4>1, NameCounts, FS_Subset
            <3>2. Cardinality(ActiveNames(u)') \in Nat
                BY <3>1, FS_CardinalityType
            <3>3. QED BY <2>8, <2>9, <2>10, <3>1, <3>2
        <2>12. ASSUME NEW v \in Users, ActiveNames(v)' # {}
               PROVE  \E q \in DOMAIN payments' :
                         /\ payments'[q].user = v /\ credits'[q] > 0
                         /\ Cardinality(ActiveNames(v)') <= Limit(payments'[q].order.tier)
            <3>1. CASE v = u
                BY <1>3, <2>8, <2>10, <2>11, <3>1
            <3>2. CASE v # u
                BY <1>3, <2>6, <2>12, <3>2 DEF NamesInv, NamesWithinLimit
            <3>3. QED BY <3>1, <3>2
        <2>13. NamesWithinLimit'
            BY <2>12 DEF NamesWithinLimit, Limit
        <2>14. QED BY <2>2, <2>4, <2>13 DEF NamesInv
    <1>6. QED BY <1>1, <1>4, <1>5 DEF CreateName

\* The other requests and the jobs.
LEMMA OtherNames ==
    ASSUME TypeOK, NamesInv, OneAtATime, NEW c \in Calls,
           \/ \E p \in Payments : CheckInvoiceStatus(c, p) \/ HandleWebhook(c, p)
           \/ CheckAnswered(c) \/ WriteStatus(c) \/ Verified(c) \/ LapseStatus(c)
           \/ ProcessPayment(c)
           \/ \E u \in Users : Cancel(c, u) \/ Reactivate(c, u)
           \/ WriteCancelled(c) \/ ProcessExpired(c) \/ Downgrade(c) \/ DeactivateNames(c)
           \/ \E u \in Users, n \in Names : Provision(c, u, n) \/ Delete(c, u, n)
           \/ WriteDeleted(c) \/ CallFails(c)
    PROVE  NamesInv'
    <1> DEFINE Goes == \E k : k.op \notin {"findReceipt", "create"} /\ Suspend(c, k)
               Reads == UNCHANGED <<payments, provider, names, credits>>
    <1>1. CASE Goes /\ Reads
        <2>1. PICK k : k.op \notin {"findReceipt", "create"} /\ Suspend(c, k)
            BY <1>1
        <2>2. QED BY <1>1, <2>1, ReadNoNewName
    <1>2. CASE Goes /\ Kept /\ UNCHANGED names
        <2>1. PICK k : k.op \notin {"findReceipt", "create"} /\ Suspend(c, k)
            BY <1>2
        <2>2. \A u \in Users : ActiveNames(u)' \subseteq ActiveNames(u)
            BY <1>2 DEF ActiveNames
        <2>3. QED BY <1>2, <2>1, <2>2, HandlerNoNewName
    <1>3. Return(c) => Goes
        BY DEF Return, Idle
    <1> HIDE DEF Goes
    <1>4. CASE \E p \in Payments : CheckInvoiceStatus(c, p) \/ HandleWebhook(c, p)
        <2>1. PICK k : /\ \E p, status : \/ k = [op |-> "ask", payment |-> p]
                                         \/ k = [op |-> "verify", payment |-> p]
                                         \/ k = [op |-> "lapse", payment |-> p, status |-> status]
                       /\ Suspend(c, k)
            BY <1>4 DEF CheckInvoiceStatus, HandleWebhook
        <2>2. k.op \notin {"findReceipt", "create"}
            BY <2>1
        <2>3. Goes
            BY <2>1, <2>2 DEF Goes
        <2>4. QED BY <1>1, <1>4, <2>3 DEF CheckInvoiceStatus, HandleWebhook
    <1>5. CASE CheckAnswered(c) \/ Verified(c)
        <2>1. \/ Return(c)
              \/ \E p, status : \/ Suspend(c, [op |-> "process", payment |-> p])
                                \/ Suspend(c, [op |-> "write", payment |-> p, status |-> status])
            BY <1>5 DEF CheckAnswered, Verified
        <2>2. Goes
            BY <1>3, <2>1 DEF Goes
        <2>3. QED BY <1>1, <1>5, <2>2 DEF CheckAnswered, Verified
    <1>6. CASE WriteStatus(c) \/ LapseStatus(c) \/ MarkPaid(c)
        BY <1>2, <1>3, <1>6, HandlerKeeps DEF WriteStatus, LapseStatus, MarkPaid, ProcessPayment
    <1>7. CASE ReadPayment(c) \/ ExtendSubscription(c)
        <2>1. \/ Return(c)
              \/ \E p, until : \/ Suspend(c, [op |-> "extend", payment |-> p, until |-> until])
                               \/ Suspend(c, [op |-> "mark", payment |-> p])
            BY <1>7 DEF ReadPayment, ExtendSubscription
        <2>2. Goes
            BY <1>3, <2>1 DEF Goes
        <2>3. UNCHANGED names
            BY <1>7 DEF ReadPayment, ExtendSubscription
        <2>4. QED BY <1>2, <1>7, <2>2, <2>3, HandlerKeeps DEF ProcessPayment
    <1>8. CASE \E u \in Users : Cancel(c, u) \/ Reactivate(c, u)
        <2>1. \E u : \/ Suspend(c, [op |-> "cancel", user |-> u])
                     \/ Suspend(c, [op |-> "reactivate", user |-> u])
            BY <1>8 DEF Cancel, Reactivate
        <2>2. Goes
            BY <2>1 DEF Goes
        <2>3. QED BY <1>1, <1>8, <2>2 DEF Cancel, Reactivate
    <1>9. CASE WriteCancelled(c) \/ CallFails(c)
        BY <1>1, <1>3, <1>9 DEF WriteCancelled, CallFails
    <1>10. CASE ProcessExpired(c) \/ Downgrade(c)
        <2>1. \E u, todo : \/ Suspend(c, [op |-> "downgrade", todo |-> todo])
                           \/ Suspend(c, [op |-> "deactivate", user |-> u, todo |-> todo])
            BY <1>10 DEF ProcessExpired, Downgrade
        <2>2. Goes
            BY <2>1 DEF Goes
        <2>3. QED BY <1>1, <1>10, <2>2 DEF ProcessExpired, Downgrade
    <1>11. CASE DeactivateNames(c)
        <2>1. PICK k : k.op \notin {"findReceipt", "create"} /\ Suspend(c, k)
            <3>1. Return(c) \/ \E todo : Suspend(c, [op |-> "downgrade", todo |-> todo])
                BY <1>11 DEF DeactivateNames
            <3>2. Goes
                BY <1>3, <3>1 DEF Goes
            <3>3. QED BY <3>2 DEF Goes
        <2>2. \A n \in DOMAIN names : names[n] \in Name
            BY DEF TypeOK, MapOf
        <2>3. DOMAIN names' = DOMAIN names
              /\ \A n \in DOMAIN names : /\ names'[n].owner = names[n].owner
                                         /\ names'[n].active => names[n].active
            BY <1>11, <2>2 DEF DeactivateNames, Name
        <2>4. \A u \in Users : ActiveNames(u)' \subseteq ActiveNames(u)
            BY <2>3 DEF ActiveNames
        <2>5. Kept
            BY <1>11 DEF DeactivateNames, Kept
        <2>6. QED BY <2>1, <2>3, <2>4, <2>5, HandlerNoNewName
    <1>12. CASE \E u \in Users, n \in Names : Provision(c, u, n) \/ Delete(c, u, n)
        <2>1. \E u, n : \/ Suspend(c, [op |-> "readUser", user |-> u, name |-> n])
                        \/ Suspend(c, [op |-> "delete", name |-> n])
            BY <1>12 DEF Provision, Delete
        <2>2. Goes
            BY <2>1 DEF Goes
        <2>3. QED BY <1>1, <1>12, <2>2 DEF Provision, Delete
    <1>13. CASE WriteDeleted(c)
        <2>1. \A n \in DOMAIN names : names[n] \in Name
            BY DEF TypeOK, MapOf
        <2>2. DOMAIN names' = DOMAIN names
              /\ \A n \in DOMAIN names : /\ names'[n].owner = names[n].owner
                                         /\ names'[n].active => names[n].active
            BY <1>13, <2>1 DEF WriteDeleted, Name
        <2>3. \A u \in Users : ActiveNames(u)' \subseteq ActiveNames(u)
            BY <2>2 DEF ActiveNames
        <2>4. Kept /\ Suspend(c, Idle) /\ Idle.op = "idle"
            BY <1>13 DEF WriteDeleted, Kept, Return, Idle
        <2>5. QED BY <2>2, <2>3, <2>4, HandlerNoNewName
    <1>14. QED
        BY <1>4, <1>5, <1>6, <1>7, <1>8, <1>9, <1>10, <1>11, <1>12, <1>13 DEF ProcessPayment

LEMMA NamesStepInv ==
    ASSUME TypeOK, SettlementInv, "admin" \notin Ops, OneAtATime, NamesInv, [Next]_vars
    PROVE  NamesInv'
    <1>1. CASE Buy \/ Tick \/ UNCHANGED vars
        <2>1. UNCHANGED <<names, calls>> /\ Kept
            BY <1>1, BuyKeeps DEF Buy, CreateInvoice, ProviderDecides, Tick, vars, Kept
        <2>2. \A u \in Users : ActiveNames(u)' \subseteq ActiveNames(u)
            BY <2>1 DEF ActiveNames
        <2>3. \A c \in Calls : calls'[c].op \in {"findReceipt", "create"} =>
                  calls'[c].user \in Users /\ RoomFor(calls'[c].user)
            BY <2>1, CallKinds DEF TypeOK, NamesInv, Counted
        <2>4. QED BY <2>1, <2>2, <2>3, NoNewName
    <1>2. CASE Claim
        <2>1. PICK c \in Calls : \/ \E u \in Users, n \in Names : Provision(c, u, n)
                                 \/ ReadUser(c) \/ FindReceipt(c) \/ CreateName(c)
            BY <1>2 DEF Claim
        <2>2. QED BY <2>1, OtherNames, ReadUserNames, FindReceiptNames, CreateNameNames
    <1>3. CASE Poll \/ Notify \/ Cancellation \/ Expiry \/ Deletion
               \/ \E c \in Calls : ProcessPayment(c) \/ CallFails(c)
        BY <1>3, OtherNames DEF Poll, Notify, Cancellation, Expiry, Deletion
    <1>4. QED BY <1>1, <1>2, <1>3 DEF Next, BillingNext, NamesNext

\* For any users, tiers, payments and limits, without an administrator and when no two
\* requests overlap: a user has no more identities than some order of theirs allows, also
\* those that were given before the order in force.
THEOREM NamesAreLimited ==
    ASSUME OneAtATime, "admin" \notin Ops
    PROVE  Spec => []NamesWithinLimit
    <1>1. Init => NamesInv
        <2> SUFFICES ASSUME Init PROVE NamesInv
            OBVIOUS
        <2>1. DOMAIN names = {} /\ \A c \in Calls : calls[c] = Idle
            BY DEF Init, EmptyMap
        <2>2. \A u \in Users : ActiveNames(u) = {}
            BY <2>1 DEF ActiveNames
        <2>3. QED BY <2>1, <2>2, FS_EmptySet DEF NamesInv, NamesWithinLimit, Counted, Idle
    <1>2. TypeOK /\ SettlementInv /\ NamesInv /\ [Next]_vars => NamesInv'
        BY NamesStepInv
    <1>3. NamesInv => NamesWithinLimit
        BY DEF NamesInv
    <1>4. QED BY <1>1, <1>2, <1>3, TypeCorrect, SettlementCorrect, PTL DEF Spec

(***************************************************************************)
(* The identities of FREE users                                            *)
(***************************************************************************)

\* Whoever is about to create an identity has read a tier that still holds.
MayCreate(k) == k.op \in {"findReceipt", "create"} => subs[k.user].tier # "FREE"

FreeInv == FreeHasNoNames /\ \A c \in Calls : MayCreate(calls[c])

\* No identity is created; and who gets FREE is left to a downgrade.
LEMMA FreeStays ==
    ASSUME TypeOK, FreeInv, OneAtATime, NEW c \in Calls, NEW k, Suspend(c, k),
           calls[c].op # "deactivate",
           \A u \in Users : /\ ActiveNames(u)' \subseteq ActiveNames(u)
                            /\ \/ subs'[u].tier = "FREE" => subs[u].tier = "FREE"
                               \/ k.op = "deactivate" /\ k.user = u,
           k.op \in {"findReceipt", "create"} => subs'[k.user].tier # "FREE"
    PROVE  FreeInv'
    <1>1. \A d \in Calls : d = c /\ calls'[d] = k
        BY TheHandler
    <1>2. \A u \in Users : subs[u].tier = "FREE" => ActiveNames(u) = {}
        BY <1>1 DEF FreeInv, FreeHasNoNames
    <1>3. FreeHasNoNames'
        BY <1>1, <1>2 DEF FreeHasNoNames
    <1>4. QED BY <1>1, <1>3 DEF FreeInv, MayCreate

\* A handler that only reads, or ends.
LEMMA ReadFree ==
    ASSUME TypeOK, FreeInv, OneAtATime, NEW c \in Calls, NEW k, Suspend(c, k),
           calls[c].op # "deactivate", UNCHANGED <<subs, names>>,
           k.op \in {"findReceipt", "create"} => subs[k.user].tier # "FREE"
    PROVE  FreeInv'
    <1>1. \A u \in Users : ActiveNames(u)' \subseteq ActiveNames(u)
        BY DEF ActiveNames
    <1>2. QED BY <1>1, FreeStays

LEMMA PaymentsFree ==
    ASSUME TypeOK, FreeInv, OneAtATime, NEW c \in Calls,
           \/ \E p \in Payments : CheckInvoiceStatus(c, p) \/ HandleWebhook(c, p)
           \/ CheckAnswered(c) \/ WriteStatus(c) \/ Verified(c) \/ LapseStatus(c)
           \/ ProcessPayment(c)
    PROVE  FreeInv'
    <1>1. CASE ExtendSubscription(c)
        <2>1. PICK k, p : /\ p = calls[c].payment /\ k = [op |-> "mark", payment |-> p]
            OBVIOUS
        <2>2. k.op = "mark" /\ Suspend(c, k) /\ UNCHANGED names
            BY <1>1, <2>1 DEF ExtendSubscription
        <2>3. p \in DOMAIN payments /\ payments[p] \in Payment
            BY <1>1, <2>1 DEF ExtendSubscription, TypeOK, OnRows, AboutPayment, MapOf
        <2>4. payments[p].order.tier # "FREE" /\ payments[p].user \in Users
            BY <2>3 DEF Payment, Paid
        <2>5. \A u \in Users : subs'[u].tier = "FREE" => subs[u].tier = "FREE"
            BY <1>1, <2>1, <2>4 DEF ExtendSubscription, TypeOK
        <2>6. \A u \in Users : ActiveNames(u)' \subseteq ActiveNames(u)
            BY <2>2 DEF ActiveNames
        <2>7. calls[c].op # "deactivate"
            BY <1>1 DEF ExtendSubscription
        <2>8. QED BY <2>2, <2>5, <2>6, <2>7, FreeStays
    <1>2. CASE \/ \E p \in Payments : CheckInvoiceStatus(c, p) \/ HandleWebhook(c, p)
               \/ CheckAnswered(c) \/ Verified(c) \/ ReadPayment(c)
        <2>1. PICK k : /\ \/ k = Idle
                          \/ \E p, status : k \in {[op |-> "ask", payment |-> p],
                                                   [op |-> "verify", payment |-> p],
                                                   [op |-> "process", payment |-> p],
                                                   [op |-> "lapse", payment |-> p, status |-> status],
                                                   [op |-> "write", payment |-> p, status |-> status],
                                                   [op |-> "extend", payment |-> p, until |-> status]}
                       /\ Suspend(c, k)
            BY <1>2 DEF CheckInvoiceStatus, HandleWebhook, CheckAnswered, Verified, ReadPayment, Return
        <2>2. k.op \notin {"findReceipt", "create"}
            BY <2>1 DEF Idle
        <2>3. UNCHANGED <<subs, names>> /\ calls[c].op # "deactivate"
            <3>1. CASE \E p \in Payments : CheckInvoiceStatus(c, p) \/ HandleWebhook(c, p)
                BY <3>1 DEF CheckInvoiceStatus, HandleWebhook, Idle
            <3>2. CASE CheckAnswered(c) \/ Verified(c) \/ ReadPayment(c)
                BY <3>2 DEF CheckAnswered, Verified, ReadPayment
            <3>3. QED BY <1>2, <3>1, <3>2
        <2>4. QED BY <2>1, <2>2, <2>3, ReadFree
    <1>3. CASE WriteStatus(c) \/ LapseStatus(c) \/ MarkPaid(c)
        BY <1>3, ReadFree DEF WriteStatus, LapseStatus, MarkPaid, Return, Idle
    <1>4. QED BY <1>1, <1>2, <1>3 DEF ProcessPayment

LEMMA CancellationFree == TypeOK /\ FreeInv /\ OneAtATime /\ Cancellation => FreeInv'
    <1> SUFFICES ASSUME TypeOK, FreeInv, OneAtATime, NEW c \in Calls,
                        \/ \E u \in Users : Cancel(c, u) \/ Reactivate(c, u)
                        \/ WriteCancelled(c)
                 PROVE  FreeInv'
        BY DEF Cancellation
    <1>1. CASE \E u \in Users : Cancel(c, u) \/ Reactivate(c, u)
        <2>1. PICK k : /\ \E u : k \in {[op |-> "cancel", user |-> u], [op |-> "reactivate", user |-> u]}
                       /\ Suspend(c, k)
            BY <1>1 DEF Cancel, Reactivate
        <2>2. k.op \notin {"findReceipt", "create"}
            BY <2>1
        <2>3. UNCHANGED <<subs, names>> /\ calls[c].op # "deactivate"
            BY <1>1 DEF Cancel, Reactivate, Idle
        <2>4. QED BY <2>1, <2>2, <2>3, ReadFree
    <1>2. CASE WriteCancelled(c)
        <2>1. \A u \in Users : subs[u] \in Subscription
            BY DEF TypeOK
        <2>2. \A u \in Users : subs'[u].tier = subs[u].tier
            BY <1>2, <2>1 DEF WriteCancelled, TypeOK, Subscription
        <2>3. \A u \in Users : ActiveNames(u)' \subseteq ActiveNames(u)
            BY <1>2 DEF WriteCancelled, ActiveNames
        <2>4. Suspend(c, Idle) /\ calls[c].op # "deactivate"
            BY <1>2 DEF WriteCancelled, Return
        <2>5. QED BY <2>2, <2>3, <2>4, FreeStays DEF Idle
    <1>3. QED BY <1>1, <1>2

LEMMA ExpiryFree == TypeOK /\ FreeInv /\ OneAtATime /\ Expiry => FreeInv'
    <1> SUFFICES ASSUME TypeOK, FreeInv, OneAtATime, NEW c \in Calls,
                        ProcessExpired(c) \/ Downgrade(c) \/ DeactivateNames(c)
                 PROVE  FreeInv'
        BY DEF Expiry
    <1>1. CASE ProcessExpired(c)
        BY <1>1, ReadFree DEF ProcessExpired, Idle
    <1>2. CASE Downgrade(c)
        <2>1. PICK u, k : /\ subs' = [subs EXCEPT ![u] = Free]
                          /\ k = [op |-> "deactivate", user |-> u, todo |-> calls[c].todo \ {u}]
                          /\ Suspend(c, k)
            BY <1>2 DEF Downgrade
        <2>2. \A v \in Users : \/ subs'[v].tier = "FREE" => subs[v].tier = "FREE"
                               \/ k.op = "deactivate" /\ k.user = v
            BY <2>1 DEF TypeOK
        <2>3. \A v \in Users : ActiveNames(v)' \subseteq ActiveNames(v)
            BY <1>2 DEF Downgrade, ActiveNames
        <2>4. calls[c].op # "deactivate" /\ k.op \notin {"findReceipt", "create"}
            BY <1>2, <2>1 DEF Downgrade
        <2>5. QED BY <2>1, <2>2, <2>3, <2>4, FreeStays
    <1>3. CASE DeactivateNames(c)
        <2>1. PICK u : u = calls[c].user
            OBVIOUS
        <2>2. PICK k : k.op \notin {"findReceipt", "create"} /\ Suspend(c, k)
            <3>1. PICK k : /\ k = Idle \/ k = [op |-> "downgrade", todo |-> calls[c].todo]
                           /\ Suspend(c, k)
                BY <1>3 DEF DeactivateNames, Return
            <3>2. QED BY <3>1 DEF Idle
        <2>3. \A d \in Calls : d = c /\ calls'[d] = k
            BY <2>2, TheHandler
        <2>4. \A n \in DOMAIN names : names[n] \in Name
            BY DEF TypeOK, MapOf
        <2>5. DOMAIN names' = DOMAIN names
              /\ \A n \in DOMAIN names : /\ names'[n].owner = names[n].owner
                                         /\ names'[n].active => names[n].active /\ names[n].owner # u
            BY <1>3, <2>1, <2>4 DEF DeactivateNames, Name
        <2>6. ActiveNames(u)' = {}
            BY <2>5 DEF ActiveNames
        <2>7. ASSUME NEW v \in Users \ {u}, subs'[v].tier = "FREE" PROVE ActiveNames(v)' = {}
            <3>1. subs[v].tier = "FREE"
                BY <1>3, <2>7 DEF DeactivateNames
            <3>2. ActiveNames(v) = {}
                BY <2>1, <2>3, <3>1 DEF FreeInv, FreeHasNoNames
            <3>3. ActiveNames(v)' \subseteq ActiveNames(v)
                BY <2>5 DEF ActiveNames
            <3>4. QED BY <3>2, <3>3
        <2>8. FreeHasNoNames'
            BY <2>6, <2>7 DEF FreeHasNoNames
        <2>9. QED BY <2>2, <2>3, <2>8 DEF FreeInv, MayCreate
    <1>4. QED BY <1>1, <1>2, <1>3

LEMMA ClaimFree == TypeOK /\ FreeInv /\ OneAtATime /\ Claim => FreeInv'
    <1> SUFFICES ASSUME TypeOK, FreeInv, OneAtATime, NEW c \in Calls,
                        \/ \E u \in Users, n \in Names : Provision(c, u, n)
                        \/ ReadUser(c) \/ FindReceipt(c) \/ CreateName(c)
                 PROVE  FreeInv'
        BY DEF Claim
    <1>1. ASSUME NEW u, NEW n, Provision(c, u, n) PROVE FreeInv'
        BY <1>1, ReadFree DEF Provision, Idle
    <1>2. CASE ReadUser(c) \/ FindReceipt(c)
        <2>1. PICK u, n : u = calls[c].user /\ n = calls[c].name
            OBVIOUS
        <2>2. PICK k : /\ Suspend(c, k)
                       /\ \/ k = Idle
                          \/ /\ ReadUser(c) /\ Subscribed(u)
                             /\ k = [op |-> "findReceipt", user |-> u, name |-> n]
                          \/ /\ FindReceipt(c)
                             /\ \E p : k = [op |-> "create", user |-> u, name |-> n, receipt |-> p]
            BY <1>2, <2>1 DEF ReadUser, FindReceipt, Return
        <2>3. FindReceipt(c) => subs[u].tier # "FREE"
            BY <2>1 DEF FindReceipt, FreeInv, MayCreate
        <2>4. k.op \in {"findReceipt", "create"} => k.user = u /\ subs[u].tier # "FREE"
            BY <2>2, <2>3 DEF Subscribed, Idle
        <2>5. UNCHANGED <<subs, names>> /\ calls[c].op # "deactivate"
            BY <1>2 DEF ReadUser, FindReceipt
        <2>6. QED BY <2>2, <2>4, <2>5, ReadFree
    <1>3. CASE CreateName(c)
        <2>1. PICK u : u = calls[c].user /\ subs[u].tier # "FREE"
            BY <1>3 DEF CreateName, FreeInv, MayCreate
        <2>2. /\ DOMAIN names \subseteq DOMAIN names'
              /\ \A n \in DOMAIN names : names'[n] = names[n]
              /\ \A n \in DOMAIN names' \ DOMAIN names : names'[n].owner = u
            BY <1>3, <2>1 DEF CreateName, Put
        <2>3. \A v \in Users \ {u} : ActiveNames(v)' \subseteq ActiveNames(v)
            BY <2>2 DEF ActiveNames
        <2>4. Suspend(c, Idle) /\ UNCHANGED subs /\ calls[c].op # "deactivate"
            BY <1>3 DEF CreateName, Return
        <2>5. \A d \in Calls : d = c /\ calls'[d] = Idle
            BY <2>4, TheHandler
        <2>6. \A v \in Users : subs[v].tier = "FREE" => ActiveNames(v) = {}
            BY <2>4, <2>5 DEF FreeInv, FreeHasNoNames
        <2>7. FreeHasNoNames'
            BY <2>1, <2>3, <2>4, <2>6 DEF FreeHasNoNames
        <2>8. QED BY <2>5, <2>7 DEF FreeInv, MayCreate, Idle
    <1>4. QED BY <1>1, <1>2, <1>3

LEMMA DeletionFree == TypeOK /\ FreeInv /\ OneAtATime /\ Deletion => FreeInv'
    <1> SUFFICES ASSUME TypeOK, FreeInv, OneAtATime, NEW c \in Calls,
                        \/ \E u \in Users, n \in Names : Delete(c, u, n)
                        \/ WriteDeleted(c)
                 PROVE  FreeInv'
        BY DEF Deletion
    <1>1. ASSUME NEW u, NEW n, Delete(c, u, n) PROVE FreeInv'
        BY <1>1, ReadFree DEF Delete, Idle
    <1>2. CASE WriteDeleted(c)
        <2>1. \A n \in DOMAIN names : names[n] \in Name
            BY DEF TypeOK, MapOf
        <2>2. DOMAIN names' = DOMAIN names
              /\ \A n \in DOMAIN names : /\ names'[n].owner = names[n].owner
                                         /\ names'[n].active => names[n].active
            BY <1>2, <2>1 DEF WriteDeleted, Name
        <2>3. \A u \in Users : ActiveNames(u)' \subseteq ActiveNames(u)
            BY <2>2 DEF ActiveNames
        <2>4. Suspend(c, Idle) /\ UNCHANGED subs /\ calls[c].op # "deactivate"
            BY <1>2 DEF WriteDeleted, Return
        <2>5. QED BY <2>3, <2>4, FreeStays DEF Idle
    <1>3. QED BY <1>1, <1>2

\* "NIP-05 is paid-only": for any users, orders and terms, without crashes and an
\* administrator and when no two requests overlap, a user who is FREE has no active identity
\* once the downgrade has ended.
THEOREM FreeUsersHaveNoNames ==
    ASSUME OneAtATime, "admin" \notin Ops, "crash" \notin Ops
    PROVE  Spec => []FreeHasNoNames
    <1>1. Init => FreeInv
        BY DEF Init, FreeInv, FreeHasNoNames, ActiveNames, MayCreate, EmptyMap, Idle
    <1>2. TypeOK /\ FreeInv /\ [Next]_vars => FreeInv'
        <2> SUFFICES ASSUME TypeOK, FreeInv, Next \/ UNCHANGED vars PROVE FreeInv'
            OBVIOUS
        <2>1. CASE Buy \/ Tick \/ UNCHANGED vars
            <3>1. UNCHANGED <<subs, names, calls>>
                BY <2>1 DEF Buy, CreateInvoice, ProviderDecides, Tick, vars
            <3>2. QED BY <3>1 DEF FreeInv, FreeHasNoNames, ActiveNames, MayCreate
        <2>2. CASE Poll \/ Notify \/ \E c \in Calls : ProcessPayment(c)
            BY <2>2, PaymentsFree DEF Poll, Notify
        <2>3. QED BY <2>1, <2>2, CancellationFree, ExpiryFree, ClaimFree, DeletionFree
                  DEF Next, BillingNext, NamesNext
    <1>3. FreeInv => FreeHasNoNames
        BY DEF FreeInv
    <1>4. QED BY <1>1, <1>2, <1>3, TypeCorrect, PTL DEF Spec

(***************************************************************************)
(* Billing is an entitlement                                               *)
(***************************************************************************)

\* What is ordered, and what has been credited: the orders of module Entitlement.
OrderOf(row) == [user |-> row.user, tier |-> row.order.tier, cycle |-> row.order.cycle]
Ordering == [p \in DOMAIN payments |-> OrderOf(payments[p])]
Credited == {p \in DOMAIN payments : credits[p] > 0}

BeingMarked(p) == \E c \in Calls : calls[c].op = "mark" /\ calls[c].payment = p

\* What a handler has read is still so when it writes.
Knows(k) ==
    /\ k.op \in {"ask", "write"} => payments[k.payment].status = "pending"
    /\ k.op = "extend" =>
          credits[k.payment] = 0 /\ k.until = subs[payments[k.payment].user].until
    /\ k.op \in {"cancel", "reactivate"} => subs[k.user].tier # "FREE"
    /\ k.op \in {"downgrade", "deactivate"} => \A u \in k.todo : Lapsed(u)

\* A payment that has been credited is paid, or about to be marked so.
CreditsAreMarked ==
    \A p \in Payments :
        credits[p] > 0 => p \in DOMAIN payments /\ (payments[p].status = "paid" \/ BeingMarked(p))

OnlyPaidAreCancelled == \A u \in Users : subs[u].cancelled => subs[u].tier # "FREE"

SerialInv ==
    CreditsAreMarked /\ OnlyPaidAreCancelled /\ \A c \in Calls : Knows(calls[c])

\* What the orders tell apart.
LEMMA SameOrdering ==
    ASSUME TypeOK, DOMAIN payments' = DOMAIN payments,
           \A p \in DOMAIN payments : /\ payments'[p].user = payments[p].user
                                      /\ payments'[p].order = payments[p].order
    PROVE  Ordering' = Ordering
    BY DEF Ordering, OrderOf

\* A handler that only reads, or ends without a write to a payment or a subscription.
LEMMA ReadSerial ==
    ASSUME TypeOK, SerialInv, OneAtATime, NEW c \in Calls, NEW k, Suspend(c, k), Knows(k),
           calls[c].op # "mark", UNCHANGED <<now, payments, subs, credits>>
    PROVE  SerialInv' /\ UNCHANGED <<now, Ordering, Credited, subs>>
    <1>1. \A d \in Calls : d = c /\ calls'[d] = k
        BY TheHandler
    <1>2. CreditsAreMarked'
        BY <1>1 DEF SerialInv, CreditsAreMarked, BeingMarked
    <1>3. \A d \in Calls : Knows(calls[d])'
        BY <1>1 DEF Knows, Lapsed
    <1>4. QED BY <1>2, <1>3 DEF SerialInv, OnlyPaidAreCancelled, Ordering, Credited

\* A status is written, and the handler ends.
LEMMA StatusSerial ==
    ASSUME TypeOK, SerialInv, OneAtATime, NEW c \in Calls, Return(c),
           NEW p \in DOMAIN payments, NEW status, payments' = [payments EXCEPT ![p].status = status],
           UNCHANGED <<now, subs, credits>>,
           status = "paid" \/ credits[p] = 0,
           calls[c].op = "mark" => calls[c].payment = p
    PROVE  SerialInv' /\ UNCHANGED <<now, Ordering, Credited, subs>>
    <1>1. \A d \in Calls : d = c /\ calls'[d] = Idle
        BY TheHandler DEF Return
    <1>2. \A q \in DOMAIN payments : payments[q] \in Payment
        BY DEF TypeOK, MapOf
    <1>3. /\ DOMAIN payments' = DOMAIN payments /\ payments'[p].status = status
          /\ \A q \in DOMAIN payments : /\ payments'[q].user = payments[q].user
                                        /\ payments'[q].order = payments[q].order
                                        /\ q # p => payments'[q].status = payments[q].status
        BY <1>2 DEF Payment
    <1>4. CreditsAreMarked'
        <2> SUFFICES ASSUME NEW q \in Payments, credits[q] > 0
                     PROVE  q \in DOMAIN payments' /\ payments'[q].status = "paid"
            BY DEF CreditsAreMarked
        <2>1. q \in DOMAIN payments /\ (payments[q].status = "paid" \/ BeingMarked(q))
            BY DEF SerialInv, CreditsAreMarked
        <2>2. CASE q = p
            BY <1>3, <2>1, <2>2
        <2>3. CASE q # p
            BY <1>1, <1>3, <2>1, <2>3 DEF BeingMarked
        <2>4. QED BY <2>2, <2>3
    <1>5. \A d \in Calls : Knows(calls[d])'
        BY <1>1 DEF Knows, Idle
    <1>6. Ordering' = Ordering /\ Credited' = Credited
        BY <1>3, SameOrdering DEF Credited
    <1>7. QED BY <1>4, <1>5, <1>6 DEF SerialInv, OnlyPaidAreCancelled

\* A payment that is neither paid nor about to be marked has not been credited.
LEMMA NotCredited ==
    ASSUME TypeOK, SerialInv, OneAtATime, NEW c \in Calls, NEW p \in DOMAIN payments,
           payments[p].status # "paid", calls[c].op # "mark"
    PROVE  credits[p] = 0
    <1>1. ~BeingMarked(p)
        BY DEF OneAtATime, BeingMarked
    <1>2. p \in Payments /\ credits[p] \in Nat
        BY DEF TypeOK, MapOf
    <1>3. QED BY <1>1, <1>2 DEF SerialInv, CreditsAreMarked

LEMMA PollSerial ==
    ASSUME TypeOK, SerialInv, OneAtATime, NEW c \in Calls,
           \/ \E p \in Payments : CheckInvoiceStatus(c, p) \/ HandleWebhook(c, p)
           \/ CheckAnswered(c) \/ WriteStatus(c) \/ Verified(c) \/ LapseStatus(c)
    PROVE  SerialInv' /\ UNCHANGED <<now, Ordering, Credited, subs>>
    <1>1. ASSUME NEW p \in Payments, CheckInvoiceStatus(c, p)
          PROVE  SerialInv' /\ UNCHANGED <<now, Ordering, Credited, subs>>
        <2>1. PICK k : k = [op |-> "ask", payment |-> p]
            OBVIOUS
        <2>2. Suspend(c, k) /\ Knows(k) /\ calls[c].op # "mark"
              /\ UNCHANGED <<now, payments, subs, credits>>
            BY <1>1, <2>1 DEF CheckInvoiceStatus, Knows, Idle
        <2>3. QED BY <2>2, ReadSerial
    <1>2. ASSUME NEW p \in Payments, HandleWebhook(c, p)
          PROVE  SerialInv' /\ UNCHANGED <<now, Ordering, Credited, subs>>
        <2>1. PICK k : /\ \/ k = [op |-> "lapse", payment |-> p, status |-> provider[p]]
                          \/ k = [op |-> "verify", payment |-> p]
                       /\ Suspend(c, k)
            BY <1>2 DEF HandleWebhook
        <2>2. Knows(k)
            BY <2>1 DEF Knows
        <2>3. calls[c].op # "mark" /\ UNCHANGED <<now, payments, subs, credits>>
            BY <1>2 DEF HandleWebhook, Idle
        <2>4. QED BY <2>1, <2>2, <2>3, ReadSerial
    <1>3. CASE CheckAnswered(c) \/ Verified(c)
        <2>1. PICK p : p = calls[c].payment
            OBVIOUS
        <2>2. CheckAnswered(c) => payments[p].status = "pending"
            BY <2>1 DEF CheckAnswered, SerialInv, Knows
        <2>3. PICK k : /\ \/ k = Idle \/ k = [op |-> "process", payment |-> p]
                          \/ /\ CheckAnswered(c)
                             /\ \E status : k = [op |-> "write", payment |-> p, status |-> status]
                       /\ Suspend(c, k)
            BY <1>3, <2>1 DEF CheckAnswered, Verified, Return
        <2>4. Knows(k)
            BY <2>2, <2>3 DEF Knows, Idle
        <2>5. calls[c].op # "mark" /\ UNCHANGED <<now, payments, subs, credits>>
            BY <1>3 DEF CheckAnswered, Verified
        <2>6. QED BY <2>3, <2>4, <2>5, ReadSerial
    <1>4. CASE WriteStatus(c) \/ LapseStatus(c)
        <2>1. PICK p, status : p = calls[c].payment /\ status = calls[c].status
            OBVIOUS
        <2>2. p \in DOMAIN payments /\ calls[c].op # "mark"
            BY <1>4, <2>1 DEF WriteStatus, LapseStatus, TypeOK, OnRows, AboutPayment
        <2>3. WriteStatus(c) => payments[p].status = "pending"
            BY <2>1 DEF WriteStatus, SerialInv, Knows
        <2>4. Return(c) /\ UNCHANGED <<now, subs, credits>>
            BY <1>4 DEF WriteStatus, LapseStatus
        <2>5. CASE UNCHANGED payments
            <3>1. Knows(Idle) /\ Suspend(c, Idle)
                BY <2>4 DEF Knows, Idle, Return
            <3>2. QED BY <2>2, <2>4, <2>5, <3>1, ReadSerial
        <2>6. CASE payments[p].status = "pending"
                   /\ payments' = [payments EXCEPT ![p].status = status]
            <3>1. credits[p] = 0
                BY <2>2, <2>6, NotCredited
            <3>2. QED BY <2>2, <2>4, <2>6, <3>1, StatusSerial
        <2>7. QED BY <1>4, <2>1, <2>3, <2>5, <2>6 DEF WriteStatus, LapseStatus
    <1>5. QED BY <1>1, <1>2, <1>3, <1>4

\* The end of a period, as it is promised.
LEMMA ExtendedIsPromised ==
    ASSUME NEW order \in [tier : Paid, cycle : Cycles], NEW u, subs[u].until \in Date
    PROVE  Extended(order, subs[u].until) =
              CASE order.cycle = "lifetime" -> now + Lifetime
                [] order.cycle = "annual" -> Account!Left(u) + Year
                [] order.cycle = "monthly" -> Account!Left(u) + Month
    <1>1. order.cycle \in {"monthly", "annual", "lifetime"}
        BY DEF Cycles
    <1>2. Account!Left(u) = IF subs[u].until \in Nat /\ subs[u].until > now
                            THEN subs[u].until ELSE now
        BY DEF Account!Left
    <1>3. QED BY <1>1, <1>2 DEF Extended

\* The subscription is extended: the one step that credits a payment.
LEMMA ExtendCredits ==
    ASSUME TypeOK, SerialInv, OneAtATime, NEW c \in Calls, ExtendSubscription(c)
    PROVE  SerialInv' /\ \E p \in DOMAIN payments : Account!Credit(p)
    <1>1. PICK p, row, u : p = calls[c].payment /\ row = payments[p] /\ u = row.user
        OBVIOUS
    <1>2. p \in DOMAIN payments /\ p \in Payments /\ row \in Payment /\ u \in Users
        BY <1>1 DEF ExtendSubscription, TypeOK, OnRows, AboutPayment, MapOf, Payment
    <1>3. credits[p] = 0 /\ calls[c].until = subs[u].until
        BY <1>1 DEF ExtendSubscription, SerialInv, Knows
    <1>4. PICK sub : sub = [tier |-> row.order.tier, until |-> Extended(row.order, subs[u].until),
                            cancelled |-> FALSE]
        OBVIOUS
    <1>5. PICK k : k = [op |-> "mark", payment |-> p]
        OBVIOUS
    <1>6. /\ credits' = [credits EXCEPT ![p] = @ + 1] /\ subs' = [subs EXCEPT ![u] = sub]
          /\ Suspend(c, k) /\ UNCHANGED <<now, payments>>
        BY <1>1, <1>3, <1>4, <1>5 DEF ExtendSubscription
    <1>7. /\ credits'[p] = 1 /\ \A q \in Payments \ {p} : credits'[q] = credits[q]
        BY <1>2, <1>3, <1>6 DEF TypeOK
    <1>8. \A d \in Calls : d = c /\ calls'[d] = k
        BY <1>6, TheHandler
    <1>9. SerialInv'
        <2>1. \A q \in Payments : credits[q] > 0 => q \in DOMAIN payments /\ payments[q].status = "paid"
            BY <1>8 DEF ExtendSubscription, SerialInv, CreditsAreMarked, BeingMarked
        <2>2. BeingMarked(p)'
            BY <1>5, <1>8 DEF BeingMarked
        <2>3. CreditsAreMarked'
            BY <1>2, <1>6, <1>7, <2>1, <2>2 DEF CreditsAreMarked
        <2>4. OnlyPaidAreCancelled'
            BY <1>4, <1>6 DEF SerialInv, OnlyPaidAreCancelled, TypeOK
        <2>5. \A d \in Calls : Knows(calls[d])'
            BY <1>5, <1>8 DEF Knows
        <2>6. QED BY <2>3, <2>4, <2>5 DEF SerialInv
    <1>10. Account!Credit(p)
        <2>1. Ordering[p] = OrderOf(row) /\ DOMAIN Ordering = DOMAIN payments /\ p \notin Credited
            BY <1>1, <1>2, <1>3 DEF Ordering, Credited
        <2>2. Credited' = Credited \cup {p}
            <3>1. credits'[p] > 0
                BY <1>7
            <3>2. DOMAIN payments \subseteq Payments
                BY DEF TypeOK, MapOf
            <3>3. QED BY <1>2, <1>6, <1>7, <3>1, <3>2 DEF Credited
        <2>3. subs[u].until \in Date /\ row.order \in [tier : Paid, cycle : Cycles]
            BY <1>2 DEF TypeOK, Subscription, Payment
        <2>4. Extended(row.order, subs[u].until) =
                 CASE row.order.cycle = "lifetime" -> now + Lifetime
                   [] row.order.cycle = "annual" -> Account!Left(u) + Year
                   [] row.order.cycle = "monthly" -> Account!Left(u) + Month
            BY <2>3, ExtendedIsPromised
        <2>5. UNCHANGED <<now, Ordering>>
            BY <1>6 DEF Ordering
        <2>6. OrderOf(row).user = u /\ OrderOf(row).tier = row.order.tier
              /\ OrderOf(row).cycle = row.order.cycle
            BY <1>1 DEF OrderOf
        <2>7. Account!Credit(p) <=>
                 /\ p \in DOMAIN Ordering \ Credited
                 /\ Credited' = Credited \cup {p}
                 /\ subs' = [subs EXCEPT ![Ordering[p].user] =
                       [tier |-> Ordering[p].tier,
                        until |-> CASE Ordering[p].cycle = "lifetime" -> now + Lifetime
                                    [] Ordering[p].cycle = "annual" -> Account!Left(Ordering[p].user) + Year
                                    [] Ordering[p].cycle = "monthly" -> Account!Left(Ordering[p].user) + Month,
                        cancelled |-> FALSE]]
                 /\ UNCHANGED <<now, Ordering>>
            BY DEF Account!Credit, Ordering, OrderOf, Credited
        <2>8. QED BY <1>2, <1>4, <1>6, <2>1, <2>2, <2>4, <2>5, <2>6, <2>7
    <1>11. QED BY <1>2, <1>9, <1>10

LEMMA ProcessSerial ==
    ASSUME TypeOK, SerialInv, OneAtATime, NEW c \in Calls, ProcessPayment(c)
    PROVE  /\ SerialInv'
           /\ \/ UNCHANGED <<now, Ordering, Credited, subs>>
              \/ \E p \in DOMAIN payments : Account!Credit(p)
    <1>1. CASE ReadPayment(c)
        <2>1. PICK p, u : p = calls[c].payment /\ u = payments[p].user
            OBVIOUS
        <2>2. p \in DOMAIN payments /\ calls[c].op # "mark"
            BY <1>1, <2>1 DEF ReadPayment, TypeOK, OnRows, AboutPayment
        <2>3. PICK k : /\ \/ k = Idle
                          \/ /\ payments[p].status # "paid"
                             /\ k = [op |-> "extend", payment |-> p, until |-> subs[u].until]
                       /\ Suspend(c, k)
            BY <1>1, <2>1 DEF ReadPayment, Return
        <2>4. Knows(k)
            BY <2>1, <2>2, <2>3, NotCredited DEF Knows, Idle
        <2>5. UNCHANGED <<now, payments, subs, credits>>
            BY <1>1 DEF ReadPayment
        <2>6. QED BY <2>2, <2>3, <2>4, <2>5, ReadSerial
    <1>2. CASE ExtendSubscription(c)
        BY <1>2, ExtendCredits
    <1>3. CASE MarkPaid(c)
        <2>1. PICK p, status : p = calls[c].payment /\ status = "paid"
            OBVIOUS
        <2>2. p \in DOMAIN payments
            BY <1>3, <2>1 DEF MarkPaid, TypeOK, OnRows, AboutPayment
        <2>3. /\ payments' = [payments EXCEPT ![p].status = status] /\ Return(c)
              /\ UNCHANGED <<now, subs, credits>>
            BY <1>3, <2>1 DEF MarkPaid
        <2>4. QED BY <2>1, <2>2, <2>3, StatusSerial
    <1>4. QED BY <1>1, <1>2, <1>3 DEF ProcessPayment

\* Who has cancelled keeps what is paid for, and may come back.
LEMMA CancellationSerial ==
    ASSUME TypeOK, SerialInv, OneAtATime, NEW c \in Calls,
           \/ \E u \in Users : Cancel(c, u) \/ Reactivate(c, u)
           \/ WriteCancelled(c)
    PROVE  /\ SerialInv'
           /\ \/ UNCHANGED <<now, Ordering, Credited, subs>>
              \/ \E u \in Users : Account!ChangeMind(u)
    <1>1. ASSUME NEW u \in Users, Cancel(c, u) \/ Reactivate(c, u)
          PROVE  SerialInv' /\ UNCHANGED <<now, Ordering, Credited, subs>>
        <2>1. PICK k : /\ k \in {[op |-> "cancel", user |-> u], [op |-> "reactivate", user |-> u]}
                       /\ Suspend(c, k)
            BY <1>1 DEF Cancel, Reactivate
        <2>2. subs[u].tier # "FREE"
            BY <1>1 DEF Cancel, Reactivate, SerialInv, OnlyPaidAreCancelled
        <2>3. Knows(k)
            BY <2>1, <2>2 DEF Knows
        <2>4. calls[c].op # "mark" /\ UNCHANGED <<now, payments, subs, credits>>
            BY <1>1 DEF Cancel, Reactivate, Idle
        <2>5. QED BY <2>1, <2>3, <2>4, ReadSerial
    <1>2. CASE WriteCancelled(c)
        <2>1. PICK u, cancelled : u = calls[c].user /\ cancelled = (calls[c].op = "cancel")
            OBVIOUS
        <2>2. u \in Users /\ cancelled \in BOOLEAN /\ subs[u].tier # "FREE"
            BY <1>2, <2>1, CallKinds DEF WriteCancelled, TypeOK, UserCall, SerialInv, Knows
        <2>3. /\ subs' = [subs EXCEPT ![u].cancelled = cancelled] /\ Return(c)
              /\ UNCHANGED <<now, payments, credits>>
            BY <1>2, <2>1 DEF WriteCancelled
        <2>4. \A d \in Calls : d = c /\ calls'[d] = Idle
            BY <2>3, TheHandler DEF Return
        <2>5. \A v \in Users : subs[v] \in Subscription
            BY DEF TypeOK
        <2>6. /\ subs'[u] = [subs[u] EXCEPT !.cancelled = cancelled]
              /\ \A v \in Users \ {u} : subs'[v] = subs[v]
            BY <2>2, <2>3 DEF TypeOK
        <2>7. CreditsAreMarked'
            BY <1>2, <2>3, <2>4 DEF WriteCancelled, SerialInv, CreditsAreMarked, BeingMarked
        <2>8. OnlyPaidAreCancelled'
            BY <2>2, <2>5, <2>6 DEF SerialInv, OnlyPaidAreCancelled, Subscription
        <2>9. \A d \in Calls : Knows(calls[d])'
            BY <2>4 DEF Knows, Idle
        <2>10. UNCHANGED <<now, Ordering, Credited>>
            BY <2>3 DEF Ordering, Credited
        <2>11. CASE cancelled = subs[u].cancelled
            <3>1. [subs[u] EXCEPT !.cancelled = cancelled] = subs[u]
                BY <2>2, <2>5, <2>11 DEF Subscription
            <3>2. subs' = subs
                BY <2>2, <2>3, <2>6, <3>1 DEF TypeOK
            <3>3. QED BY <2>7, <2>8, <2>9, <2>10, <3>2 DEF SerialInv
        <2>12. CASE cancelled # subs[u].cancelled
            <3>1. cancelled = ~subs[u].cancelled
                BY <2>2, <2>5, <2>12 DEF Subscription
            <3>2. subs' = [subs EXCEPT ![u].cancelled = ~@]
                BY <2>3, <3>1
            <3>3. Account!ChangeMind(u)
                BY <2>2, <2>10, <3>2 DEF Account!ChangeMind, Ordering, OrderOf, Credited
            <3>4. QED BY <2>2, <2>7, <2>8, <2>9, <3>3 DEF SerialInv
        <2>13. QED BY <2>11, <2>12
    <1>3. QED BY <1>1, <1>2

\* The job downgrades whom it has read: nobody has renewed since.
LEMMA ExpirySerial ==
    ASSUME TypeOK, SerialInv, OneAtATime, NEW c \in Calls,
           ProcessExpired(c) \/ Downgrade(c) \/ DeactivateNames(c)
    PROVE  /\ SerialInv'
           /\ \/ UNCHANGED <<now, Ordering, Credited, subs>>
              \/ \E u \in Users : Account!Lapse(u)
    <1>1. CASE ProcessExpired(c)
        <2>1. PICK k : k = [op |-> "downgrade", todo |-> {u \in Users : Lapsed(u)}]
            OBVIOUS
        <2>2. Suspend(c, k) /\ Knows(k) /\ calls[c].op # "mark"
              /\ UNCHANGED <<now, payments, subs, credits>>
            BY <1>1, <2>1 DEF ProcessExpired, Knows, Idle
        <2>3. QED BY <2>2, ReadSerial
    <1>2. CASE DeactivateNames(c)
        <2>1. PICK k : /\ k = Idle \/ k = [op |-> "downgrade", todo |-> calls[c].todo]
                       /\ Suspend(c, k)
            BY <1>2 DEF DeactivateNames, Return
        <2>2. \A u \in calls[c].todo : Lapsed(u)
            BY <1>2 DEF DeactivateNames, SerialInv, Knows
        <2>3. Knows(k)
            BY <2>1, <2>2 DEF Knows, Idle
        <2>4. calls[c].op # "mark" /\ UNCHANGED <<now, payments, subs, credits>>
            BY <1>2 DEF DeactivateNames
        <2>5. QED BY <2>1, <2>3, <2>4, ReadSerial
    <1>3. CASE Downgrade(c)
        <2>1. PICK u, k :
                 /\ u \in calls[c].todo /\ subs' = [subs EXCEPT ![u] = Free]
                 /\ k = [op |-> "deactivate", user |-> u, todo |-> calls[c].todo \ {u}]
                 /\ Suspend(c, k)
            BY <1>3 DEF Downgrade
        <2>2. (\A v \in calls[c].todo : Lapsed(v)) /\ calls[c].op = "downgrade"
            BY <1>3 DEF Downgrade, SerialInv, Knows
        <2>3. u \in Users /\ calls[c].todo \subseteq Users
            BY <2>1, <2>2, CallKinds DEF TypeOK
        <2>4. UNCHANGED <<now, payments, credits>>
            BY <1>3 DEF Downgrade
        <2>5. \A d \in Calls : d = c /\ calls'[d] = k
            BY <2>1, TheHandler
        <2>6. subs'[u] = Free /\ \A v \in Users \ {u} : subs'[v] = subs[v]
            BY <2>1, <2>3 DEF TypeOK
        <2>7. CreditsAreMarked'
            BY <2>2, <2>4, <2>5 DEF SerialInv, CreditsAreMarked, BeingMarked
        <2>8. OnlyPaidAreCancelled'
            BY <2>6 DEF SerialInv, OnlyPaidAreCancelled, Free
        <2>9. ASSUME NEW v \in calls[c].todo \ {u} PROVE Lapsed(v)'
            BY <2>2, <2>3, <2>4, <2>6, <2>9 DEF Lapsed
        <2>10. k.op = "deactivate" /\ k.todo = calls[c].todo \ {u}
            BY <2>1
        <2>11. Knows(k)'
            BY <2>9, <2>10 DEF Knows
        <2>12. \A d \in Calls : Knows(calls[d])'
            BY <2>5, <2>11 DEF Knows
        <2>13. Account!Lapse(u)
            <3>1. Free = [tier |-> "FREE", until |-> NoDate, cancelled |-> FALSE]
                BY DEF Free
            <3>2. subs[u].cancelled /\ subs[u].until \in Nat /\ subs[u].until < now
                BY <2>1, <2>2 DEF Lapsed
            <3>3. UNCHANGED <<now, Ordering, Credited>>
                BY <2>4 DEF Ordering, Credited
            <3>4. QED BY <2>1, <3>1, <3>2, <3>3
                      DEF Account!Lapse, Account!Nothing, Ordering, OrderOf, Credited
        <2>14. QED BY <2>3, <2>7, <2>8, <2>12, <2>13 DEF SerialInv
    <1>4. QED BY <1>1, <1>2, <1>3

\* Identities are no part of billing.
LEMMA NamesSerial ==
    ASSUME TypeOK, SerialInv, OneAtATime, NEW c \in Calls,
           \/ \E u \in Users, n \in Names : Provision(c, u, n) \/ Delete(c, u, n)
           \/ ReadUser(c) \/ FindReceipt(c) \/ CreateName(c) \/ WriteDeleted(c)
    PROVE  SerialInv' /\ UNCHANGED <<now, Ordering, Credited, subs>>
    <1>1. PICK k : /\ \/ k = Idle
                      \/ \E u, n, p : k \in {[op |-> "readUser", user |-> u, name |-> n],
                                             [op |-> "findReceipt", user |-> u, name |-> n],
                                             [op |-> "create", user |-> u, name |-> n, receipt |-> p],
                                             [op |-> "delete", name |-> n]}
                   /\ Suspend(c, k)
        <2>1. CASE \E u \in Users, n \in Names : Provision(c, u, n) \/ Delete(c, u, n)
            BY <2>1 DEF Provision, Delete
        <2>2. CASE ReadUser(c) \/ FindReceipt(c)
            BY <2>2 DEF ReadUser, FindReceipt, Return
        <2>3. CASE CreateName(c) \/ WriteDeleted(c)
            BY <2>3 DEF CreateName, WriteDeleted, Return
        <2>4. QED BY <2>1, <2>2, <2>3
    <1>2. Knows(k)
        BY <1>1 DEF Knows, Idle
    <1>3. calls[c].op # "mark" /\ UNCHANGED <<now, payments, subs, credits>>
        <2>1. CASE \E u \in Users, n \in Names : Provision(c, u, n) \/ Delete(c, u, n)
            BY <2>1 DEF Provision, Delete, Idle
        <2>2. CASE ReadUser(c) \/ FindReceipt(c) \/ CreateName(c) \/ WriteDeleted(c)
            BY <2>2 DEF ReadUser, FindReceipt, CreateName, WriteDeleted
        <2>3. QED BY <2>1, <2>2
    <1>4. QED BY <1>1, <1>2, <1>3, ReadSerial

LEMMA BuySerial ==
    ASSUME TypeOK, SerialInv, Buy
    PROVE  SerialInv' /\ (UNCHANGED <<now, Ordering, Credited, subs>> \/ Account!Order)
    <1>1. ASSUME NEW p, NEW state, ProviderDecides(p, state)
          PROVE  SerialInv' /\ UNCHANGED <<now, Ordering, Credited, subs>>
        BY <1>1 DEF ProviderDecides, SerialInv, CreditsAreMarked, OnlyPaidAreCancelled, BeingMarked,
                    Knows, Lapsed, Ordering, Credited
    <1>2. ASSUME NEW u \in Users, NEW o \in Orders, NEW p \in Payments, CreateInvoice(u, o, p)
          PROVE  SerialInv' /\ Account!Order
        <2>1. /\ p \notin DOMAIN payments /\ DOMAIN payments' = DOMAIN payments \cup {p}
              /\ \A q \in DOMAIN payments : payments'[q] = payments[q]
              /\ UNCHANGED <<now, subs, calls, credits>>
            BY <1>2 DEF CreateInvoice, Put
        <2>2. credits[p] = 0
            BY <2>1 DEF SerialInv, CreditsAreMarked, TypeOK
        <2>3. CreditsAreMarked'
            BY <2>1 DEF SerialInv, CreditsAreMarked, BeingMarked
        <2>4. ASSUME NEW c \in Calls PROVE Knows(calls[c])'
            <3>1. Knows(calls[c]) /\ calls'[c] = calls[c]
                  /\ (calls[c].op \in AboutPayment => calls[c].payment \in DOMAIN payments)
                BY <2>1 DEF SerialInv, TypeOK, OnRows
            <3>2. QED BY <2>1, <3>1 DEF Knows, AboutPayment, Lapsed
        <2>5. SerialInv'
            BY <2>1, <2>3, <2>4 DEF SerialInv, OnlyPaidAreCancelled
        <2>6. Credited' = Credited
            BY <2>1, <2>2 DEF Credited
        <2>7. DOMAIN Ordering = DOMAIN payments /\ DOMAIN Ordering' = DOMAIN payments'
              /\ \A q \in DOMAIN payments : Ordering'[q] = Ordering[q]
            BY <2>1 DEF Ordering
        <2>8. Account!Order <=> /\ DOMAIN Ordering \subseteq DOMAIN Ordering'
                                /\ \A q \in DOMAIN Ordering : Ordering'[q] = Ordering[q]
                                /\ UNCHANGED <<now, Credited, subs>>
            BY DEF Account!Order, Ordering, OrderOf, Credited
        <2>9. QED BY <2>1, <2>5, <2>6, <2>7, <2>8
    <1>3. QED BY <1>1, <1>2 DEF Buy

LEMMA TickSerial ==
    ASSUME TypeOK, SerialInv, Tick
    PROVE  SerialInv' /\ Account!Pass
    <1>1. now' = now + 1 /\ now \in Nat /\ UNCHANGED <<payments, subs, calls, credits>>
        BY DEF Tick, TypeOK
    <1>2. \A u : Lapsed(u) => Lapsed(u)'
        BY <1>1 DEF Lapsed
    <1>3. \A c \in Calls : Knows(calls[c])'
        BY <1>1, <1>2 DEF SerialInv, Knows
    <1>4. SerialInv'
        BY <1>1, <1>3 DEF SerialInv, CreditsAreMarked, OnlyPaidAreCancelled, BeingMarked
    <1>5. Account!Pass
        BY <1>1 DEF Account!Pass, Ordering, Credited
    <1>6. QED BY <1>4, <1>5

LEMMA StepIsEntitled ==
    ASSUME TypeOK, SerialInv, OneAtATime, "admin" \notin Ops, "crash" \notin Ops, [Next]_vars
    PROVE  SerialInv' /\ (Account!Next \/ UNCHANGED <<now, Ordering, Credited, subs>>)
    <1>1. (\E p \in DOMAIN payments : Account!Credit(p)) => Account!Next
        BY DEF Account!Next
    <1>2. (\E u \in Users : Account!ChangeMind(u) \/ Account!Lapse(u))
          \/ Account!Order \/ Account!Pass => Account!Next
        BY DEF Account!Next
    <1>3. CASE Buy
        BY <1>2, <1>3, BuySerial
    <1>4. CASE Tick
        BY <1>2, <1>4, TickSerial
    <1>5. CASE Poll \/ Notify
        BY <1>5, PollSerial DEF Poll, Notify
    <1>6. CASE \E c \in Calls : ProcessPayment(c)
        BY <1>1, <1>6, ProcessSerial
    <1>7. CASE Cancellation
        BY <1>2, <1>7, CancellationSerial DEF Cancellation
    <1>8. CASE Expiry
        BY <1>2, <1>8, ExpirySerial DEF Expiry
    <1>9. CASE Claim \/ Deletion
        BY <1>9, NamesSerial DEF Claim, Deletion
    <1>10. CASE UNCHANGED vars
        BY <1>10 DEF vars, SerialInv, CreditsAreMarked, OnlyPaidAreCancelled, BeingMarked, Knows,
                     Lapsed, Ordering, Credited
    <1>11. QED BY <1>3, <1>4, <1>5, <1>6, <1>7, <1>8, <1>9, <1>10 DEF Next, BillingNext, NamesNext

\* Handled one request at a time, and to the end, and without an administrator: billing is an
\* entitlement.  For any users, orders and terms, every payment is credited once, at the end of
\* the period that runs, and nobody is set back who has not cancelled and used it up.
THEOREM BillingIsAnEntitlement ==
    ASSUME OneAtATime, "admin" \notin Ops, "crash" \notin Ops
    PROVE  Spec => IsAnEntitlement
    <1>1. Init => Account!Init /\ SerialInv
        <2> SUFFICES ASSUME Init PROVE Account!Init /\ SerialInv
            OBVIOUS
        <2>1. DOMAIN payments = {} /\ now = 0
            BY DEF Init, EmptyMap
        <2>2. Account!Init
            BY <2>1 DEF Init, Free, Account!Init, Account!Nothing
        <2>3. SerialInv
            BY <2>1 DEF Init, Free, Idle, SerialInv, CreditsAreMarked, OnlyPaidAreCancelled, Knows
        <2>4. QED BY <2>2, <2>3
    <1>2. TypeOK /\ SerialInv /\ [Next]_vars
          => SerialInv' /\ [Account!Next]_<<now, Ordering, Credited, subs>>
        BY StepIsEntitled
    <1>3. QED BY <1>1, <1>2, TypeCorrect, PTL
              DEF Spec, IsAnEntitlement, Account!Spec, Ordering, OrderOf, Credited
=============================================================================
