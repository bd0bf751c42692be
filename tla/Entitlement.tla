---------------------------- MODULE Entitlement ----------------------------
(***************************************************************************)
(* What billing promises its users, told without invoices, reads and       *)
(* writes: every order that is paid is credited once, at the end of the    *)
(* period that runs, and nobody is set back to FREE who has not cancelled  *)
(* and used up what was paid for.                                          *)
(***************************************************************************)
EXTENDS Integers

CONSTANTS Users, Month, Year, Lifetime, NoDate

VARIABLES
    now,
    orders,           \* what is ordered, by payment: [user, tier, cycle]
    credited,         \* the payments that have been credited
    account           \* what a user has: [tier, until, cancelled]

Nothing == [tier |-> "FREE", until |-> NoDate, cancelled |-> FALSE]

Init == now = 0 /\ orders = [p \in {} |-> 0] /\ credited = {} /\ account = [u \in Users |-> Nothing]

Order ==
    /\ DOMAIN orders \subseteq DOMAIN orders'
    /\ \A p \in DOMAIN orders : orders'[p] = orders[p]
    /\ UNCHANGED <<now, credited, account>>

Left(u) == IF account[u].until \in Nat /\ account[u].until > now THEN account[u].until ELSE now

Credit(p) ==
    /\ p \in DOMAIN orders \ credited
    /\ credited' = credited \cup {p}
    /\ LET o == orders[p]
           term == CASE o.cycle = "lifetime" -> now + Lifetime
                     [] o.cycle = "annual" -> Left(o.user) + Year
                     [] o.cycle = "monthly" -> Left(o.user) + Month
       IN account' = [account EXCEPT ![o.user] =
                        [tier |-> o.tier, until |-> term, cancelled |-> FALSE]]
    /\ UNCHANGED <<now, orders>>

ChangeMind(u) ==
    /\ account[u].tier # "FREE"
    /\ account' = [account EXCEPT ![u].cancelled = ~@]
    /\ UNCHANGED <<now, orders, credited>>

Lapse(u) ==
    /\ account[u].cancelled /\ account[u].until \in Nat /\ account[u].until < now
    /\ account' = [account EXCEPT ![u] = Nothing]
    /\ UNCHANGED <<now, orders, credited>>

Pass == now' > now /\ UNCHANGED <<orders, credited, account>>

Next ==
    \/ Order \/ Pass
    \/ \E p \in DOMAIN orders : Credit(p)
    \/ \E u \in Users : ChangeMind(u) \/ Lapse(u)

Spec == Init /\ [][Next]_<<now, orders, credited, account>>
=============================================================================
