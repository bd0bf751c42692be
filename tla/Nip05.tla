------------------------------- MODULE Nip05 -------------------------------
(***************************************************************************)
(* NIP-05 identities: what a subscription is for.  A user with an active   *)
(* paid subscription and a receipt claims local parts up to the limit of   *)
(* the tier; the owner deletes them; an administrator suspends, removes    *)
(* and transfers them and changes the subscription behind them.            *)
(*                                                                         *)
(* A local part is a key of `names`: the row is unique by (localPart,      *)
(* domain), whether it is active or not.  The service's own domain is the  *)
(* only one here.                                                          *)
(***************************************************************************)
EXTENDS Billing

CONSTANT BusinessLimit     \* identities of a BUSINESS subscription (10)

ASSUME LimitAssumption == BusinessLimit \in Nat

Limit(tier) ==
    CASE tier = "FREE" -> 0
      [] tier = "BUSINESS" -> BusinessLimit
      [] OTHER -> 1

ActiveNames(u) == {n \in DOMAIN names : names[n].owner = u /\ names[n].active}

\* subscriptionActive: a date that is null does not end.
Subscribed(u) ==
    /\ subs[u].tier # "FREE"
    /\ subs[u].until \in Nat => subs[u].until > now

Receipts(u) == {p \in DOMAIN payments : payments[p].user = u /\ payments[p].status = "paid"}

(***************************************************************************)
(* The owner                                                               *)
(***************************************************************************)

\* provision: the first read asks for an active row of that name only.
Provision(c, u, n) ==
    /\ calls[c] = Idle
    /\ ~(n \in DOMAIN names /\ names[n].active)
    /\ Suspend(c, [op |-> "readUser", user |-> u, name |-> n])
    /\ UNCHANGED <<now, payments, provider, subs, names, credits>>

\* (mutant) The limit is the number after which no further name is given.
ReadUserOneMore(c) ==
    /\ calls[c].op = "readUser"
    /\ LET u == calls[c].user
       IN IF Subscribed(u) /\ Cardinality(ActiveNames(u)) <= Limit(subs[u].tier)
          THEN Suspend(c, [op |-> "findReceipt", user |-> u, name |-> calls[c].name])
          ELSE Return(c)
    /\ UNCHANGED <<now, payments, provider, subs, names, credits>>

\* The second read: the subscription and the identities the limit counts.
ReadUser(c) ==
    /\ calls[c].op = "readUser"
    /\ LET u == calls[c].user
       IN IF Subscribed(u) /\ Cardinality(ActiveNames(u)) < Limit(subs[u].tier)
          THEN Suspend(c, [op |-> "findReceipt", user |-> u, name |-> calls[c].name])
          ELSE Return(c)
    /\ UNCHANGED <<now, payments, provider, subs, names, credits>>

\* (mutant) Any payment of the user is taken for a receipt.
FindAnyPayment(c) ==
    /\ calls[c].op = "findReceipt"
    /\ LET u == calls[c].user
           mine == {p \in DOMAIN payments : payments[p].user = u}
       IN IF mine = {} THEN Return(c)
          ELSE \E p \in mine :
                  Suspend(c, [op |-> "create", user |-> u, name |-> calls[c].name, receipt |-> p])
    /\ UNCHANGED <<now, payments, provider, subs, names, credits>>

\* The third read: a confirmed payment of the subscription (the latest, in the code).
FindReceipt(c) ==
    /\ calls[c].op = "findReceipt"
    /\ LET u == calls[c].user
       IN IF Receipts(u) = {} THEN Return(c)
          ELSE \E p \in Receipts(u) :
                  Suspend(c, [op |-> "create", user |-> u, name |-> calls[c].name, receipt |-> p])
    /\ UNCHANGED <<now, payments, provider, subs, names, credits>>

\* The insertion fails when there is a row of that name, active or not.
CreateName(c) ==
    /\ calls[c].op = "create"
    /\ LET k == calls[c]
       IN names' = IF k.name \in DOMAIN names THEN names
                   ELSE Put(names, k.name, [owner |-> k.user, receipt |-> k.receipt,
                                            active |-> TRUE])
    /\ Return(c)
    /\ UNCHANGED <<now, payments, provider, subs, credits>>

Delete(c, u, n) ==
    /\ calls[c] = Idle
    /\ n \in DOMAIN names /\ names[n].owner = u
    /\ Suspend(c, [op |-> "delete", name |-> n])
    /\ UNCHANGED <<now, payments, provider, subs, names, credits>>

WriteDeleted(c) ==
    /\ calls[c].op = "delete"
    /\ names' = [names EXCEPT ![calls[c].name].active = FALSE]
    /\ Return(c)
    /\ UNCHANGED <<now, payments, provider, subs, credits>>

(***************************************************************************)
(* The administrator                                                       *)
(***************************************************************************)

\* updateNip05Registration changes the subscription of the owner: the tier, and an
\* end that counts from the last change of the NAME's row, whenever that was.
AdminUpdateTier(n, tier) ==
    /\ n \in DOMAIN names
    /\ subs' = [subs EXCEPT ![names[n].owner].tier = tier]
    /\ UNCHANGED <<now, payments, provider, names, calls, credits>>

AdminExtend(n, changed, days) ==
    /\ n \in DOMAIN names /\ changed <= now
    /\ subs' = [subs EXCEPT ![names[n].owner].until = changed + days]
    /\ UNCHANGED <<now, payments, provider, names, calls, credits>>

AdminSuspend(n, suspended) ==
    /\ n \in DOMAIN names
    /\ names' = [names EXCEPT ![n].active = ~suspended]
    /\ UNCHANGED <<now, payments, provider, subs, calls, credits>>

AdminTransfer(n, u) ==
    /\ n \in DOMAIN names
    /\ names' = [names EXCEPT ![n].owner = u]
    /\ UNCHANGED <<now, payments, provider, subs, calls, credits>>

\* The row is gone for good; a deletion of it that is suspended will not find it.
AdminDelete(n) ==
    /\ n \in DOMAIN names
    /\ names' = [m \in DOMAIN names \ {n} |-> names[m]]
    /\ calls' = [c \in Calls |->
            IF calls[c].op = "delete" THEN IF calls[c].name = n THEN Idle ELSE calls[c]
            ELSE calls[c]]
    /\ UNCHANGED <<now, payments, provider, subs, credits>>

(***************************************************************************)
(* The parts                                                               *)
(***************************************************************************)

Claim ==
    \E c \in Calls :
        \/ \E u \in Users, n \in Names : Provision(c, u, n)
        \/ ReadUser(c) \/ FindReceipt(c) \/ CreateName(c)
Deletion == \E c \in Calls : (\E u \in Users, n \in Names : Delete(c, u, n)) \/ WriteDeleted(c)
Administration ==
    \E n \in Names :
        \/ \E tier \in Paid \cup {"FREE"} : AdminUpdateTier(n, tier)
        \/ \E changed \in 0..MaxTime : AdminExtend(n, changed, Month)
        \/ \E suspended \in BOOLEAN : AdminSuspend(n, suspended)
        \/ \E u \in Users : AdminTransfer(n, u)
        \/ AdminDelete(n)

NamesNext ==
    \/ "provision" \in Ops /\ Claim
    \/ "delete" \in Ops /\ Deletion
    \/ "admin" \in Ops /\ Administration
=============================================================================
