-------------------------------- MODULE Zaps --------------------------------
(***************************************************************************)
(* Zaps from the page of a feed: an invoice is asked for, and given to one *)
(* wallet after the other, of which the last is another app; the receipts  *)
(* are counted by loads that overlap.  A receipt counts whoever published  *)
(* it: the page checks the request that it quotes, not that it is paid.    *)
(***************************************************************************)
EXTENDS Naturals, Sequences, FiniteSets

CONSTANTS
    ZapItems,         \* posts
    PosterOf,         \* their authors, who are paid
    Zaps,             \* bound: clicks
    ZapLoads,         \* bound: loads and subscriptions of receipts
    OtherReceipts     \* bound: receipts of no payment of this page

ASSUME ZapsAssumption == IsFiniteSet(Zaps)

VARIABLES
    zaps,             \* calls of onZap
    pendingZaps,      \* their status in the page, until it is cleared
    issued,           \* how many invoices arrived for a zap
    linked,           \* invoices that a lightning: link gave to another app
    charged,          \* invoices that are paid, each at most once
    others,           \* receipts that somebody published otherwise
    feedItems,        \* the feed of the page
    zapLoads,         \* loads, and the subscriptions they end in
    zapTotals         \* zapByEventId

zapVars ==
    <<zaps, pendingZaps, issued, linked, charged, others, feedItems, zapLoads, zapTotals>>

NoZap == [at |-> "none"]
NoZapLoad == [at |-> "none"]
NoTotals == [i \in ZapItems |-> 0]

ZapsInit ==
    /\ zaps = [z \in Zaps |-> NoZap] /\ pendingZaps = [z \in Zaps |-> "none"]
    /\ issued = [z \in Zaps |-> 0] /\ linked = {} /\ charged = {} /\ others = {}
    /\ feedItems = {} /\ zapLoads = [l \in ZapLoads |-> NoZapLoad] /\ zapTotals = NoTotals

(***************************************************************************)
(* One zap                                                                 *)
(***************************************************************************)

Invoice(z) == [zap |-> z, item |-> zaps[z].item, number |-> issued[z]]

\* The order in which payInvoice tries the wallets.
Attempts(requested) ==
    CASE requested = "webln" -> <<"webln", "nwc", "external">>
      [] requested = "nwc" -> <<"nwc", "webln", "external">>
      [] requested = "external" -> <<"external", "webln", "nwc">>

OnZap(z, item, requested) ==
    /\ zaps[z] = NoZap /\ pendingZaps[z] = "none" /\ item \in feedItems
    /\ zaps' = [zaps EXCEPT ![z] = [at |-> "invoice", item |-> item,
                                    left |-> Attempts(requested)]]
    /\ pendingZaps' = [pendingZaps EXCEPT ![z] = "pending"]
    /\ UNCHANGED <<issued, linked, charged, others, feedItems, zapLoads, zapTotals>>

\* The end of onZap: the status is cleared after 8 s, see ClearPending.
EndsAs(z, status) ==
    /\ zaps' = [zaps EXCEPT ![z] = [at |-> "ended", item |-> @.item, left |-> <<>>]]
    /\ pendingZaps' = [pendingZaps EXCEPT ![z] = status]

\* The amount is out of range, zaps are not allowed, the signature is declined, or no
\* invoice arrives.
BeforeInvoiceFails(z) ==
    /\ zaps[z].at = "invoice" /\ EndsAs(z, "failed")
    /\ UNCHANGED <<issued, linked, charged, others, feedItems, zapLoads, zapTotals>>

InvoiceArrives(z) ==
    /\ zaps[z].at = "invoice"
    /\ issued' = [issued EXCEPT ![z] = @ + 1]
    /\ zaps' = [zaps EXCEPT ![z].at = "wallet"]
    /\ UNCHANGED <<pendingZaps, linked, charged, others, feedItems, zapLoads, zapTotals>>

WithWallet(z, wallet) == zaps[z].at = "wallet" /\ Head(zaps[z].left) = wallet

WalletPays(z) ==
    /\ WithWallet(z, "webln") /\ EndsAs(z, "confirmed")
    /\ charged' = charged \cup {Invoice(z)}
    /\ UNCHANGED <<issued, linked, others, feedItems, zapLoads, zapTotals>>

\* The page leaves it to an app behind a lightning: link, and takes the zap as confirmed.
OpenLink(z) ==
    /\ WithWallet(z, "external") \/ WithWallet(z, "nwc")
    /\ EndsAs(z, "confirmed")
    /\ linked' = linked \cup {Invoice(z)}
    /\ UNCHANGED <<issued, charged, others, feedItems, zapLoads, zapTotals>>

\* No extension, a declined payment, one that was made and is reported as failed, or no
\* connection string: the next wallet is given the same invoice.
WalletFails(z) ==
    /\ WithWallet(z, "webln") \/ WithWallet(z, "nwc")
    /\ \/ UNCHANGED charged
       \/ WithWallet(z, "webln") /\ charged' = charged \cup {Invoice(z)}
    /\ IF Len(zaps[z].left) = 1 THEN EndsAs(z, "failed")
       ELSE zaps' = [zaps EXCEPT ![z].left = Tail(@)] /\ UNCHANGED pendingZaps
    /\ UNCHANGED <<issued, linked, others, feedItems, zapLoads, zapTotals>>

ClearPending(z) ==
    /\ zaps[z].at = "ended" /\ pendingZaps[z] # "none"
    /\ pendingZaps' = [pendingZaps EXCEPT ![z] = "none"]
    /\ UNCHANGED <<zaps, issued, linked, charged, others, feedItems, zapLoads, zapTotals>>

AppPays(invoice) ==
    /\ invoice \in linked /\ charged' = charged \cup {invoice}
    /\ UNCHANGED <<zaps, pendingZaps, issued, linked, others, feedItems, zapLoads, zapTotals>>

(***************************************************************************)
(* Totals                                                                  *)
(***************************************************************************)

AsksReceipts(l, items, root) ==
    zapLoads' = [zapLoads EXCEPT ![l] = [at |-> "asked", items |-> items, root |-> root]]

\* The feed is another one, also by the refresh at the end of onZap: the subscription of its
\* effect is closed, if there is one already, and none of those that its receipts opened.
FeedChanges(items) ==
    /\ feedItems' = items
    /\ LET left == [l \in ZapLoads |->
              IF zapLoads[l] = NoZapLoad \/ ~zapLoads[l].root THEN zapLoads[l]
              ELSE IF zapLoads[l].at = "open" THEN NoZapLoad
              ELSE [zapLoads[l] EXCEPT !.root = FALSE]]
       IN IF items = {} THEN zapLoads' = left /\ zapTotals' = NoTotals
          ELSE /\ \E l \in ZapLoads :
                     /\ left[l] = NoZapLoad
                     /\ zapLoads' = [left EXCEPT
                           ![l] = [at |-> "asked", items |-> items, root |-> TRUE]]
               /\ UNCHANGED zapTotals
    /\ UNCHANGED <<zaps, pendingZaps, issued, linked, charged, others>>

\* A zap from another page or app, or anyone's event with a signed request for a post.
OthersPublish(o, item) ==
    /\ \A r \in others : r.other # o
    /\ others' = others \cup {[other |-> o, item |-> item]}
    /\ UNCHANGED <<zaps, pendingZaps, issued, linked, charged, feedItems, zapLoads, zapTotals>>

\* Providers publish one receipt for what is paid; and what others publish.
Receipts == charged \cup others

\* Those that name a post of the feed, and those that name an author of one.
ByPost(items) == {r \in Receipts : r.item \in items}
ByAuthor(items) == {r \in Receipts : PosterOf[r.item] \in {PosterOf[i] : i \in items}}

\* (mutant) A receipt that both questions find is counted twice.
CountedTwice(byPost, byAuthor) ==
    [i \in ZapItems |-> Cardinality({r \in byPost : r.item = i})
                        + Cardinality({r \in byAuthor : r.item = i})]

\* loadZapReceipts and aggregateZaps: a receipt counts once, whoever has it.
Counted(byPost, byAuthor) ==
    [i \in ZapItems |-> Cardinality({r \in byPost \cup byAuthor : r.item = i})]

\* The relays have a receipt, or not yet; the answer of an earlier feed is shown as well.
ReceiptsLoaded(l) ==
    /\ zapLoads[l].at = "asked"
    /\ \E byPost \in SUBSET ByPost(zapLoads[l].items),
          byAuthor \in SUBSET ByAuthor(zapLoads[l].items) :
             zapTotals' = Counted(byPost, byAuthor)
    /\ zapLoads' = [zapLoads EXCEPT ![l].at = "open"]
    /\ UNCHANGED <<zaps, pendingZaps, issued, linked, charged, others, feedItems>>

\* A receipt of a subscription loads all of them again, and ends in one more subscription.
ReceiptComes(l, m) ==
    /\ zapLoads[l].at = "open" /\ zapLoads[m] = NoZapLoad
    /\ ByPost(zapLoads[l].items) \cup ByAuthor(zapLoads[l].items) # {}
    /\ AsksReceipts(m, zapLoads[l].items, FALSE)
    /\ UNCHANGED <<zaps, pendingZaps, issued, linked, charged, others, feedItems, zapTotals>>

ReceiptsFail(l) ==
    /\ zapLoads[l].at = "asked"
    /\ zapLoads' = [zapLoads EXCEPT ![l] = NoZapLoad]
    /\ UNCHANGED <<zaps, pendingZaps, issued, linked, charged, others, feedItems, zapTotals>>

ZapsNext ==
    \/ \E z \in Zaps :
          \/ \E item \in ZapItems, requested \in {"webln", "nwc", "external"} :
                OnZap(z, item, requested)
          \/ BeforeInvoiceFails(z) \/ InvoiceArrives(z)
          \/ WalletPays(z) \/ OpenLink(z) \/ WalletFails(z) \/ ClearPending(z)
    \/ \E invoice \in linked : AppPays(invoice)
    \/ \E o \in OtherReceipts, item \in ZapItems : OthersPublish(o, item)
    \/ \E items \in SUBSET ZapItems : FeedChanges(items)
    \/ \E l \in ZapLoads :
          \/ ReceiptsLoaded(l) \/ ReceiptsFail(l)
          \/ \E m \in ZapLoads : ReceiptComes(l, m)

(***************************************************************************)
(* Properties                                                              *)
(***************************************************************************)

PaidBy(z) == {invoice \in charged : invoice.zap = z}

\* A zap is paid at most once, whichever wallets are tried after one that paid and failed;
\* one that is shown as failed is not paid and will not be, one that is shown as confirmed is
\* paid or with an app; and no post shows more zaps than receipts were published for it,
\* each counted once however loads overlap and repeat (who published it is not looked at).
ZapsAddUp ==
    /\ \A z \in Zaps :
          /\ Cardinality(PaidBy(z)) <= 1
          /\ pendingZaps[z] = "failed" => \A i \in charged \cup linked : i.zap # z
          /\ pendingZaps[z] = "confirmed" => \E i \in charged \cup linked : i.zap = z
    /\ \A item \in ZapItems : zapTotals[item] <= Cardinality({r \in Receipts : r.item = item})

ZapsTypeOK ==
    /\ feedItems \subseteq ZapItems
    /\ \A z \in Zaps :
          /\ zaps[z].at \in {"none", "invoice", "wallet", "ended"}
          /\ pendingZaps[z] \in {"none", "pending", "confirmed", "failed"}
    /\ \A l \in ZapLoads : zapLoads[l].at \in {"none", "asked", "open"}
=============================================================================
