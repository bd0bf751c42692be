# NostrMaxi: a verification project

TLA+ models of the parts of NostrMaxi (a NestJS service for Nostr identities,
subscriptions and name auctions, and its React client) whose correctness depends on the
order in which handlers, payment notices, answers of relays, clocks and crashes take
effect. Each module is translated from the TypeScript sources under `src/src/` and
`src/frontend/src/`; TLC checks it on small instances and TLAPS proves the most important
results for every instance.

## 1. The system

The server is one Node process with a PostgreSQL database (Prisma). Handlers run
one at a time between `await`s, so two requests interleave exactly at their awaits.
There are no database transactions: a handler reads rows, decides, and writes later.
Caches and the whole auction service live in memory and are lost on a restart. The client
is a single page with the same discipline: its callbacks interleave at their awaits, and
what they hold in a closure may be stale when they go on.

| component | state | operations that change it | talks to | module |
|---|---|---|---|---|
| auctions (`auctions/`) | Maps in memory: auctions, bids, tracked invoices, bid and settlement invoices, second chance offers | create, ingestZapBid, createBidInvoice, trackInvoice, settleAuction, processSecondChance, handlePaymentReceived | payment provider, admin | Auction |
| payments (`payments/payments.service.ts`) | `Payment` rows, the order in the audit log | createInvoice, checkInvoiceStatus, handleWebhook, processPayment | provider, subscription rows | Billing |
| auction payments (`payments/payment.controller.ts`) | subscribers of payment notices | notices and their signatures | BTCPay, auctions | Auction (notices) |
| subscription (`subscription/`) | `Subscription` rows | downgrade, cancel, reactivate, processExpiredSubscriptions | payments, nip05 rows | Billing |
| NIP-05 (`nip05/`) | `Nip05` rows, unique by name and domain | provision, delete | subscription and payment rows | Nip05 |
| address verification (`nip05/`) | a cache by address, a fetch per check | verifyAddress | the domain of the address | Verification |
| admin (`admin/`) | all of the above | edit, extend, cancel auctions; change, suspend, transfer, delete registrations; name lists | auctions, nip05, subscription | Auction, Nip05 |
| auth (`auth/`) | challenges, LNURL sessions, JWT sessions, used NIP-98 events | issue and verify challenges, poll LNURL, revoke | users, cache, user sync | Auth |
| API keys (`api-keys/`) | `ApiKey` rows | create (at most ten), verify, revoke | subscription tier | ApiKeys |
| relay sync (`relay-sync/`) | sync queue rows and statuses, the loop | loop, queueing, pause, resume | relays | RelaySync |
| rate limiter (`relay-sync/`) | windows and backoffs per relay | waitForSlot, register429 | relay sync | RateLimiter |
| user sync (`sync/`) | a JSON file of sync times | read, change and rewrite | relays, auth | UserSync |
| relay discovery (`relay-discovery/`) | relays and who named them, a JSON file | note, probe, persist, load | user sync | RelayDiscovery |
| feed (`pages/FeedPage.tsx`, `lib/social.ts`) | posts, cursor, mode, loads under way | reset, load more, switch mode | relays, filters | Feed |
| lists (`hooks/use*`, `lib/social.ts`) | follows, bookmarks, filters, subscriptions: an event at relays and a copy per component | load, edit, publish | relays, signer | Lists |
| profile cache (`lib/profileCache.ts`) | entries, fetches to join | fetch, batch, invalidate | relays | ProfileCache |
| sign-in (`hooks/useAuth.ts`) | token, user, the session's key | initialize, login, logout, refresh | auth | SignIn |
| signer sessions (`lib/nostrConnect.ts`) | sessions, the dialog's status | start, answers, cancel, time-outs | signer, auth | NostrConnect |
| onboarding (`hooks/useOnboarding.ts`) | the wizard's steps and choices | next, back, edit, suggest, submit | server, relays | Onboarding |
| zaps (`lib/zaps.ts`, `pages/FeedPage.tsx`) | pending zaps, totals per post, subscriptions | invoice, wallets, links, receipts | wallets, relays | Zaps |
| aggregator, metrics, search, analytics, configuration | caches and flags | periodic jobs, read-through caches | relays, a search service | none, see 7 |
| names (`config/name-*.ts`) | none (pure functions) | pricing, ownership | nip05, auctions | none |
| other pages, CLI, deployment | of one page, or none | | HTTP interface | none |

What is hard, and what makes each component correct:

* **Auctions.** `ingestZapBid` and `settleAuction` hold a reference to a listing object
  across an await while an administrator's edit replaces the object in the Map.
  Notices of payments are repeated and late; windows close while payments arrive.
  Receipts quote the hash, the amount and the date that their publisher chose.
  Correct means: no payment is two bids or none, zap bids rise by ten percent, there is
  room to answer a late bid, one bidder at a time is asked to pay, and a sale is made
  once, above the reserve, and is final.
* **Payments and subscriptions.** The same payment is confirmed by a client's poll and
  by notices, in any order, repeatedly, with crashes between the two writes of
  `processPayment`. Correct means: nothing is credited that was not settled,
  everything confirmed is credited, once, on top of what is left, and nothing paid for
  is taken away.
* **NIP-05.** `provision` rests on three reads made at three times. Correct means: an
  identity has a settled payment behind it, the tier's limit holds, and identities end
  with the subscription.
* **Auth, API keys.** What is looked at before an await is written after it. Correct means:
  a challenge or an event is used once, and the limit of keys holds, but for those who looked
  before another wrote; a verified login reaches the client.
* **Relay sync, rate limiter.** Batches break off, the process crashes in the middle of
  them, sleeps are late. Correct means: whoever is queued is synced in the end and nobody
  is complete without it, no row is left in work, no relay is asked too often.
* **User sync, relay discovery.** Whole files are rewritten by writers that overlap.
  Notes carry the dates of their clients. Correct means: no cursor passes a note that was not
  copied, but where a date or a silent relay makes it; no relay is forgotten.
* **Address verification.** Checks of one address overlap and share a cache entry that is
  kept by address alone. Correct means: who is told "verified" was named by the domain while
  the check asked.
* **The client.** Answers come late, twice, not at all, or to a page that has moved on. Correct
  means: no post that relays gave is skipped, none is shown twice, edits of a list are not lost,
  what is invalidated is not served, the page shows the owner of its token, nothing is submitted
  or paid that should not be, and every session ends.

`PROJECT.json` lists every component with its status and every hazard at its line.

## 2. The modules

```
Maps            Map/table as a function of its keys     MapTheorems
 |-- Auction    the auction service      --implements--> BidLedger
 |    |-- AuctionClaims   what the documentation claims and the code does not keep
 |    |-- AuctionFlow     driven by the operator --implements--> Sale
 |    |-- AuctionProofs          the service
 |    |    `-- AuctionFlowProofs the documented flow
 |    `-- MCAuction, MCAuctionFlow
 |-- Billing    payments and subscriptions
 |    `-- Nip05           identities and the administrator
 |         `-- Membership      the composition  --implements--> Entitlement
 |              |-- MembershipClaims   what the code says and does not keep
 |              |-- MembershipProofs
 |              `-- MCMembership
 `-- (with Clock) Auth, ApiKeys, RateLimiter, UserSync, Verification
     (without)    RelaySync, RelayDiscovery
      `-- Platform        one of the services at a time
           |-- PlatformProofs        user sync, relay discovery, sync queue, limiter
           |    `-- AccessProofs     keys, logins, verification of addresses, all types
           `-- MCPlatform

Feed, Lists, ProfileCache, SignIn, NostrConnect, Onboarding, Zaps
 `-- Client         one of the client's parts at a time
      |-- ListsZapsProofs      lists, zaps
      |    `-- ClientProofs     profiles, sign-in, onboarding, feed, all types
      `-- MCClient
```

**How code becomes actions.** A handler is cut at its awaits. `calls[c]` is what the
suspended handler `c` has in its local variables; a record with field `op` naming where it
goes on, or `Idle`. `Calls` bounds how many handlers are suspended at once. A guard is
the code's early return or `where` clause; a handler that throws changes nothing and is
not an action. `Ops` lists which operations a run exercises, so that one model serves
several questions. Constants prefixed `Max` are bounds of the model, not of the code.

**Auction** (`auction.service.ts`, and `admin.service.ts:278-302`). `listing` is a
*heap*: generation 0 is the object `createAuction` made, and each administrator edit
appends a copy (`edits` of them); `current` is the one the Map holds. A suspended handler
remembers the generation it holds in `on`, and writes to that one, whatever the Map
holds by then. `bids`, `tracked`, `bidInvoices`,
`settlements` and `offers` are the other Maps; `offers` distinguishes the arrays that
`processSecondChance` and `handlePaymentReceived` may each hold, with `offerList` naming
the one in the Map. `MinimumBid` includes the rounding of the floating-point
product `amount * 1.1` (100 * 1.1 exceeds 110, so the next bid is 111). Payment notices
(`BidInvoicePaid`, `SettlementPaid`) may come at any time and again. A receipt is any record of
`Receipt`: the service does not compare it with the invoice it quotes, so that one hash comes with
several amounts and bidders, and with any date. `disputed` is the history of the hashes of which
two terms were on record at once; `ahead` marks a bid whose date lay ahead when it was delivered.
*AuctionFlow* restricts the callers to the procedure of `docs/AUCTION-SYSTEM.md`
("Settlement + Second Chance Flow"): one operator, one call at a time, bidders who pay
within their window. The service enforces none of that.

**Billing** (`payments.service.ts`, `subscription.service.ts`). `payments` are the rows
with the order kept in the audit log; `provider` is what the Lightning backend knows;
`subs` the subscription rows; `credits` is a history variable that counts how often a
payment extended its subscription. `checkInvoiceStatus` is `CheckInvoiceStatus`,
`CheckAnswered` (the provider's answer, which may be that it cannot be reached) and
`WriteStatus`; `handleWebhook` is `HandleWebhook`, `LapseStatus` and `Verified`; both go
on with `processPayment`: `ReadPayment`, `ExtendSubscription`, `MarkPaid`. The expiry job
is `ProcessExpired` (one read), then `Downgrade` and `DeactivateNames` for every row read.
`CallFails` ends a handler between any two of its steps: a failed write or a crash.

**Nip05** (`nip05.service.ts`, `admin.service.ts:146-189`). `provision` is `Provision`,
`ReadUser`, `FindReceipt`, `CreateName`, one per query. The rows of deleted or suspended
identities stay and keep their name. The administrator's operations are single steps: their
one read is of the row's owner. A call of `updateNip05Registration` that changes tier and
end is `AdminUpdateTier` and `AdminExtend` in a row.

**Platform and Client** put services, and parts of a page, that share no row and no variable
under one specification: a behaviour exercises one of them, its `focus` or `part`, and the
others stay as they start. Nothing is lost by it, for no action reads two of them; what is
gained is that a run, and a proof, has one specification.

**Auth** (`auth.service.ts`). One action per query or write: `requests[r]` is the suspended
handler. `verifyChallenge` is the look at the row, the mark as used, the user's read and insert,
and the session's insert, in the order of the code. `granted` is a history of
what was accepted, and how often, not counting the handlers in `late`: those that looked at the
same challenge or event before another wrote. **ApiKeys** counts in one query and inserts in
another; `secrets` are the keys whose answer reached the owner, `extra` those of the
creations that had counted before another's insert.

**RelaySync** (`relay-sync.service.ts`). `queue` are the rows, `loop` is where `runLoop` is and
what it holds. `Crash` may come anywhere: `main.ts` enables no shutdown hooks, so
`onModuleDestroy` never runs. **RateLimiter** is `waitForSlot` with its three sleeps, each of
which may last longer than asked.

**UserSync** (`user-sync.service.ts`). A write of the file is two steps (empty, then whole), and
a crash between them leaves it torn, which is read as a file without users. A note has any date
of `NoteDates`, for `created_at` is its client's. `excused` names the notes that no relay gave,
that were refused, that were published during a sync of their author, or whose date a cursor had
reached before they were published: what the property does not promise. **RelayDiscovery**
(`relay-discovery/`) has the registry in memory and `persists`, each of which holds the payload
of its moment; `spoilt` is set where the last persist failed or met another one.

**Verification** (`nip05.service.ts`, `verifyAddress`). `checks[c]` is a caller between question
and answer, `asked` until the domain begins to answer, which clears the timer, and `answered`
while the body is read, for any time; `verifications` is the cache, whose entry is given only to
the key that it names. The keys named while a check's timer ran, and `refusedAt`, are the history
the property needs.

**Feed** (`FeedPage.tsx`, `social.ts`). A load remembers what it was asked for, and takes effect
whenever it comes. Relays give any part of what is asked for (`given`), or the load fails.
`acting` holds the mode and filters from which the user posted, liked or zapped: the refresh
after it runs from there. `whole` is the history of whether all answers were for the mode on the
screen, `withheld` of the posts that no relay gave. **Lists** is one module for four lists that
differ in what an edit starts from and when the copy changes; an edit ends before a relay has
answered, and `RelaysStore` is what becomes of it; filters without the session's key stay on the
device (`silent`). **ProfileCache** counts invalidations (`era`) so that an entry can be told to
be older than one. **SignIn** is `useAuth` with what it leaves in the two storages.
**NostrConnect** is a session with a remote signer, found by scanning or by a bunker address,
with a secret or without; `Advance` is what timers and the browser bring about by themselves.
**Onboarding** keeps of the wizard what its steps depend on. **Zaps** is `onZap` with
`payInvoice`'s chain of wallets, and `loadZaps`, whose subscription asks for all receipts again
at every one that comes; receipts are those of what this page paid and those that anyone else
publishes (`others`), which `parseZapReceipt` does not tell apart.

**Abstract specifications.** `BidLedger`: a log that only grows, one entry per payment whose
terms are not in dispute, zap entries ten percent above all before. `Sale`: awarded once,
offered at most once to each bidder, sold or failed for good. `Entitlement`: each order credited
once at the end of the running period, nobody set back who has not cancelled and used up the
time. Each is a `PROPERTY` of a run under an `INSTANCE ... WITH`, and each refinement is also
proved.

## 3. The runs

| run | question | bounds |
|---|---|---|
| AuctionBids | two suspended handlers, redelivery, the tracker rewritten under them, receipts of one hash with terms and dates of their own: `ZapBidsOutbid`, `RoomToAnswerZap`, `OneBidPerPayment`, `PaidInvoiceIsBid`, `BidsAreALedger` | 1 hash, receipts of amounts 10, 11 and 12 dated 2 or 4 (ahead, now or back of the time of delivery), 1 invoice, 1 bidder, time 0..3, 2 bids |
| AuctionAll | bids by invoice, settlement, second chances and administrator edits on stale objects: `TypeOK`, `SettlementIsOfABid`, `SettledIsPaid` | 2 bidders, 3 invoices, 2 handlers, 1 edit, a listing whose reserve is met and one whose is not |
| AuctionFlow | the documented procedure: `OneActiveSettlement`, `OffersAgreeWithInvoices`, `IsASale`, `FlowConcludes` | 2 bidders, 2 hashes with amounts 10, 11 and 12, 3 invoices, time to 13 (all windows close) |
| Billing | polls, notices, cancellation, expiry and crashes: `TypeOK`, `PaidIsSettled`, `TierIsPaidFor` | 2 payments of 1 user, 2 handlers, 3 orders, time 0..2, each payment credited at most twice |
| MembershipSerial | one request at a time: `NamesWithinLimit`, `FreeHasNoNames`, `IsAnEntitlement`, `ConfirmedIsCredited` | 2 payments, each credited at most twice, 2 names, 3 orders, limit 1 or 2 |
| MembershipNames | overlapping claims and an administrator: `NameHasReceipt` | 2 users, 2 payments, 1 name, 2 handlers |
| AuctionReserve | *violated*: `NoSaleBelowReserve` | smallest that shows it |
| AuctionFinal | *violated*: `WinnerIsFinal` | |
| BillingTwice | *violated*: `CreditedOnce` | |
| Platform | logins, keys, the sync queue, the limiter, the copies of notes, the known relays and the checks of addresses: `TypeOK`, `ChallengeUse`, `EventUse`, `KeysWithinLimit`, `InWorkIsCurrent`, `AskedIsServed`, `RateKept`, `CursorCoversLocal`, `RegistryIsKept`, `VerifiedWasNamed` | below |
| PlatformProgress | a verified login reaches the client, a queued user is synced: `LnurlLogin`, `QueuedIsTaken` | as Platform, wallets and queue only |
| Client | the seven parts of the client: `TypeOK`, `FeedIsComplete`, `EditsCompose`, `ServedIsCurrent`, `ShownIsSignedIn`, `WizardIsConsistent`, `ZapsAddUp`, `SessionsEnd` | below |

*Platform.* Two suspended handlers everywhere. Logins: two keys, three sessions, one challenge,
one k1, three events (the client's clock right, late, and ahead by more than the window). Keys:
a limit of one, three keys, which is enough to pass it by one. Queue: two users in a batch of
two, two crashes or throws. Limiter: one relay, two requests in a window of three, a delay of
one, a backoff that doubles twice, time to 7, which is two windows. Notes: two notes of one of
two users, dated in the first or the third second of three, so back, now or ahead, two syncs,
one crash. Registry: two relays, two users who name them, two persists, one restart. Checks: one
address, two keys, two checks, answers that live one unit and a timer of one, in three instants:
the last lets a body be read after its timer. `Horizon` ends the clock of each focus where its
last boundary has passed.

*Client.* Four posts, two of the same second, in pages of two of which a custom feed shows one,
with two loads, in a feed by time, one by score, a custom one and the bookmarks, with and
without a filter (the firehose differs from the first, and high-signal from the second, in the
posts it is about); two relays, entries, copies, edits and seconds; two keys, two tasks and one
new version of a profile; two persons and two requests; two sessions; two identities and one
submission; two zaps of one post, a receipt of somebody else, and two loads of its receipts. One
submission is enough for the property: what a second click adds is a second payload of the same
fields.

*Why the bounds are enough.* Every hazard listed is a conflict of two handlers over one row or
object, so two places in `calls` (and one crash) exhibit it; a third handler of the same kinds
adds only more of the same pairs. Two payments of one user show renewals that meet; two users
show transfers; two bidders are the least that has a second chance, and three invoices let the
flow come back to the first. Time is in units of a window: a month is 1, a year 2, a lifetime 9,
the snipe window 1, the winner's 2 and the second chance's 1, so each boundary (before, at,
after) is a distinct instant within the bounds. Amounts are ten, eleven and twelve: after ten,
eleven is just enough and ten is not; after eleven nothing of these is. `CHECK_DEADLOCK FALSE`
is stated because the clock and the supply of payments are bounded: a bounded system runs out of
steps. Symmetry is used in safety runs only, over sets whose members are never compared or
ordered.

*Each passing property has a mutant* in the module it is about (operators marked
"(mutant)"): a plausible slip of the code, such as marking the payment before the subscription
is extended, or comparing with `<=` where the code has `<`. With the mutant in place TLC
finds the property violated.

## 4. Fairness and environment

* **AuctionFlow.** `FlowFairness` is about people and the provider, not about the service:
  the operator comes back when there is something to settle or to offer (weak fairness on
  starting a request), and the provider does not refuse invoices for ever (strong fairness
  on the creation of an invoice, which is disabled while nothing is being created).
  `FlowConcludes` assumes nothing of bidders: they may never pay.
* **MembershipSerial.** Started handlers are run to their end (weak fairness, the Node event
  loop), and nothing else: the provider need not repeat a notice, be reachable, or be asked.
  `ConfirmedIsCredited` is about an invoice that the provider has once confirmed to a
  handler, also when the payment had been given up. That a settled invoice is ever confirmed is
  not guaranteed by the code: `handleWebhook` answers `success: false` with a 2xx status when the
  provider cannot be reached (`payments.service.ts:444`), after which a provider need not repeat
  the notice, and `checkInvoiceStatus` returns at once for a payment given up after ten minutes.
* An invoice is decided by the provider once and for good.
* **PlatformProgress.** Started handlers go on (weak fairness, the event loop). The client polls
  while its dialog is open (strong fairness, because the bound on handlers keeps a poll out at
  times, which the server never does). The loop of the sync goes on and a supervisor starts
  the process again after a crash (`restart: unless-stopped` in `docker-compose.yml`), both
  weak. Crashes and throws are bounded, which is what the property needs of them: a batch that
  breaks off every time is never done. `QueuedIsTaken` assumes that everybody fits into a batch,
  because priorities can keep a user out for ever otherwise.
* **Client.** Sessions with a signer have timers, and the browser gives up a request to the
  server that is not answered: weak fairness of `Advance`. No progress is assumed of the signer,
  the relays or the user.
* No fairness is assumed anywhere else: safety holds without it.

What is taken for granted of the world outside the code:

* *Dates and terms.* Nothing of zap receipts to an auction but that they have one hash, bidder,
  amount and date: anyone may publish any. Nothing of the dates of notes. The clocks of clients
  that sign NIP-98 events are right, late or ahead (`MCEvents`).
* *Relays* give any part of what they are asked for, keep any of what they are sent, and answer at
  any time. They do not invent: what they give matches the question. Of two replaceable events of
  the same second either may stay.
* *Receipts of zaps* in the client: one for every invoice that is paid, in the end or never, and
  any number (bounded by `OtherReceipts`) from others.
* *Domains* answer with what their `nostr.json` says when they begin to answer; a body that is still
  being read is no longer changed.

## 5. What is proved

Every invariant that a passing run checks is also a theorem, and so are the three refinements:
in `AuctionProofs`, `AuctionFlowProofs`, `MapTheorems`, `MembershipProofs`, `PlatformProofs`,
`AccessProofs`, `ListsZapsProofs` and `ClientProofs`. Every step is checked by tlapm (SMT, Zenon,
LS4 for the temporal steps).

**Assumptions.** All are named, stated beside the constants, and evaluated by the runs.

| assumption | says | why the code justifies it |
|---|---|---|
| `ConstantsAssumption` | amounts are positive, windows and bounds natural, nobody is not a bidder | sats, seconds |
| `SnipeAssumption` | the extension is at least the window | ten and five minutes |
| `OperatorAssumption` | the operator of the flow is one of the callers | shape of the model |
| `BillingAssumption`, `LimitAssumption` | orders are of a paid tier, spans and limits natural, null is no date | the tiers and cycles of `payments.service.ts` |
| `AuthAssumption` | ids of different kinds differ, handlers are finitely many, an id is remembered for twice the window | 120 and 60 seconds |
| `ApiKeysAssumption`, `RelaySyncAssumption` | sets are finite, limits positive | |
| `RateLimiterAssumption` | limit, window and the pause between requests are positive; two to the power of a natural is a natural | defaults of the service; the second is arithmetic that the provers lack |
| `PlatformAssumption` | keys end at natural times | dates |
| `UserSyncAssumption`, `RelayDiscoveryAssumption` | every note has an author, notes and users are finite | |
| `VerificationAssumption` | an answer lives for some time, a fetch for a natural one, nobody is no key | the TTL and the timeout |
| `FeedAssumption` | posts are finite, have positive dates, and the firehose is about all | Nostr events |
| the others of the client | sets are finite, bounds natural | shape of the model |

Four theorems have a hypothesis of their own, which is the condition their property states and
the one its run has: `ZapsCanBeAnswered` that no administrator edits or cancels (`Ops` is without
`"edit"` and `"cancel"`); `NamesAreLimited` that one handler runs at a time (`OneAtATime`) and
there is no administrator; `FreeUsersHaveNoNames` and `BillingIsAnEntitlement` the same, and no
crash. The properties are about these cases only; section 6 says what happens beyond them.

| theorem | property | argument |
|---|---|---|
| AuctionProofs!TypeCorrect | `TypeOK` | one lemma per group of handlers; a handler's generation never exceeds `edits` |
| AuctionProofs!LedgerCorrect | `LedgerInv` | inductive: tracker, suspended handlers and bids agree on the terms of every hash that is not disputed |
| NoPaymentBidsTwice, NoPaidInvoiceIsLost, ZapBidsRise | `OneBidPerPayment`, `PaidInvoiceIsBid`, `ZapBidsOutbid` | from `LedgerInv` |
| AuctionKeepsALedger | `BidsAreALedger` | every step is a `BidLedger` step or a stutter, by `LedgerInv` |
| SaleNeedsPayment | `SettledIsPaid` | what is written over an object came from an object: settled comes from settled, or from a payment |
| SettlementsAreOfBids | `SettlementIsOfABid` | `CallsAreOfBids`: a handler that waits for its invoice asks for a bid's amount |
| ZapsCanBeAnswered | `RoomToAnswerZap` | `RoomInv`: what is being verified, unless it lay ahead, was in time, and the end is only moved back |
| AuctionFlowProofs!FlowTypeCorrect | | the flow's steps are steps of the service |
| FlowCorrect | `FlowInv` | inductive, below |
| OneBidderIsAsked, OffersAreKept | `OneActiveSettlement`, `OffersAgreeWithInvoices` | from `FlowInv` |
| FlowIsASale | `IsASale` | every step is a step of `Sale` or a stutter, by `FlowInv` |
| MembershipProofs!TypeCorrect | `TypeOK` | rows of payments are never removed, a removed identity ends the handlers on it |
| SettlementCorrect | `SettlementInv` | inductive, below |
| NothingIsMarkedUnsettled, NoIdentityWithoutReceipt, NoTierUnpaid | `PaidIsSettled`, `NameHasReceipt`, `TierIsPaidFor` | from `SettlementInv` |
| NamesAreLimited | `NamesWithinLimit` | `NamesInv`: who is about to create an identity has counted those there are |
| FreeUsersHaveNoNames | `FreeHasNoNames` | `FreeInv`: who is about to create one has read a tier that still holds |
| BillingIsAnEntitlement | `IsAnEntitlement` | `SerialInv`, below: every step is a step of `Entitlement` or a stutter |
| PlatformProofs!CursorsPassNothing | `CursorCoversLocal` | `UserSyncInv`, below |
| NamedRelaysAreKept | `RegistryIsKept` | `RegistryInv`, below |
| OnlyTheCurrentIsInWork, AskedAreServed | `InWorkIsCurrent`, `AskedIsServed` | `QueueInv`: nobody in the current batch is unserved |
| RatesAreKept | `RateKept` | `LimiterInv`, below |
| AccessProofs!KeysAreLimited | `KeysWithinLimit` | the keys of an owner, without `extra`, and the inserts under way that nobody has overtaken are together within the limit |
| ChallengesAreForOneLogin, EventsAreForOneRequest | `ChallengeUse`, `EventUse` | `AuthInv`, below |
| VerifiedKeysWereNamed | `VerifiedWasNamed` | `VerificationInv`, below |
| PlatformTypeCorrect | `TypeOK` | the conjunction of the services' invariants |
| ListsZapsProofs!ListsAddUp | `EditsCompose` | `ListsInv`, below |
| ZapsArePaidOnce | `ZapsAddUp` | `ZapsInv`, below |
| ClientProofs!NothingStaleIsServed | `ServedIsCurrent` | a fetch to join is one of its key, asked in the present era |
| PageShowsTheTokensOwner | `ShownIsSignedIn` | what a request carries is told apart by its operation and whether others overlapped |
| NobodySlipsIntoPremium | `WizardIsConsistent` | what is under way is as complete as what is accepted |
| FeedSkipsNothing | `FeedIsComplete` | `FeedInv`, below |
| ClientTypeCorrect | `TypeOK` | the conjunction of the parts' invariants |

*Why `LedgerInv`.* "No payment bids twice" is not inductive: nothing in the state says
why a second delivery of a zap fails. It fails because the second bid has the same amount
as the first and would have to be ten percent above it, which needs that bids remember their
payments and that all who handle a hash agree on its terms. They do unless two terms were on
record at once: then the hash is `disputed`, and the ledger promises nothing of it but the ten
percent.

*Why `SettlementInv`.* `processPayment` does not look at the provider, nor `CreateName` at
the payment: they trust what the handler learnt before it was suspended. The invariant
says that this is still true when it goes on: a handler that processes a payment knows that
it is settled, one that is about to mark it has credited it, one that creates an identity
holds a settled receipt. Settlement, credits and who ordered what are never taken back
(`Kept` in the proofs), which is why no interleaving disturbs it.

*Why `FlowInv`.* That nobody is asked beside another is no matter of one action: an offer is made
in two steps, and the window of the one before closes by the clock. The invariant says that at most
one invoice stands, the latest, that every offer has the invoice it was made with, bidder and expiry
alike, and that while the next one is being issued the latest is expired and nobody is sold to.
The refinement needs the rest: whom the operator is about to offer to is not the winner and had
no offer.

*Why `SerialInv`.* Entitlement counts from what is left, in one step; the code reads, and writes
later. With one handler what it has read is still so when it writes: a payment asked about is
pending, one that extends has no credit and knows the present end, a downgrade is of those
that lapsed. A credited payment is paid or being marked, which is what makes repeats stutter.

*Why `UserSyncInv`.* The property speaks of the file, which is written from what a handler
read before. The invariant says the same of every cursor that anybody holds: in the file, in a
content about to be written, in a target about to be set. It is backed (all notes up to it
are copied or excused) and no later than the latest cursor that was reached, so that a note
written later knows whether it is too late. Between the answer and the copy, every note of the
author after the cursor is in the answer or excused. Being backed
is only ever made more true: local and excused notes grow, and a new note is excused or newer.

*Why `RegistryInv`.* A persist carries the payload of its moment, so the file may go back;
never to what was not known, for payloads are registries of the past, which only grow. That
the file is complete when nothing is under way needs more: a persist that is alone, and
has met no other, is the only writer, has emptied the file once it writes, and carries every
relay, unless another waits for its turn.

*Why `LimiterInv`.* The service keeps only a list of late requests and looks at it before two
sleeps. The invariant says that the list is the end of all requests, that what it has lost is out
of the window, and that it is one longer than the limit only when its first is out too (the pause
between requests sees to that); whoever was let past a full list sleeps until its first is.

*Why `AuthInv`.* What may be accepted is counted together with who may still accept: the logins
by a challenge and the handlers that go on with it, the uses of an event and the handlers about
to store it, in both cases without those that looked too early (`late`). As long as a challenge
is unmarked nobody has gone on; afterwards nobody comes to it. An event in the cache stays
there, or is too old to pass, unless the client's clock was ahead.

*Why `VerificationInv`.* An answer is right about the past. While a check has not been answered its
timer runs, so that what the domain says at its answer was named within it; afterwards the check
holds what it heard, and the entry that it stores carries the question's time and whether the
body was read in time. From these the bound on the age of what a caller is told follows
without a bound on the reading. The clock may then forget in the history only what nothing
fresh can rest on.

*Why `ListsInv`.* Between edits the newest events at the relays are the wanted list; during one
they are what was wanted before it, and the edit carries what will be. Which copy shows which of
the two differs by list, so the invariant says that only the edit's own copy may be up to date
meanwhile, and which of them it has; for the filters the local storage is always the wanted one.

*Why `ZapsInv`.* That a zap is charged once rests on the order of the wallets: a link to an app is
always among those left, so a zap that fails has given its invoice to nobody; and an
invoice that was given out is the last one that arrived for its zap. Totals are at most what was
published because a load counts every receipt once, and receipts only come to be more.

*Why `FeedInv`.* Nothing ties a page to the one before, so the property is not inductive: the
cursor goes back when a page that was asked for twice, after a failure, comes late. What never
happens is that a post is passed that was given: one that is missing and not withheld is no
newer than any that is shown, in reach of every load of the present mode, and ahead of the
cursor or, in a custom feed that ended early, behind all. A page by time takes the newest of
what it may take and all of it when it is not full, which rests on counting finite sets; that
the next cursor exists, on the least element of a set of naturals, proved by the pigeonhole
principle (`LeastIsLeast`).

*Only model-checked*: the liveness properties `FlowConcludes`, `ConfirmedIsCredited`, `LnurlLogin`,
`QueuedIsTaken` and `SessionsEnd`, because TLAPS does not reason about fairness and `ENABLED` here.
The runs that expect a violation refute what they state, and there is nothing to prove.

## 6. What the checks found

Where the code and its own documentation disagree (each is a run above and a finding in
`PROJECT.json`):

1. `processSecondChance` offers a name whose reserve was not met (AuctionReserve).
2. A settled auction can lose its state or winner to a handler suspended before the payment,
   or to a late payment (AuctionFinal).
3. One payment can extend a subscription twice (BillingTwice).

Claims that the code keeps as long as requests do not overlap and publishers of events are
honest, and not otherwise. The model has the steps that break them, and the properties say
exactly what they excuse; without the excuse TLC finds each violated in its run:

* "Challenge already used" (`auth.service.ts:126`, and the test "should reject reused challenge" of
  `auth.test.ts:165`): of two answers that both looked before one was marked, both get a session
  (`ChallengeUse`).
* "CHECK FOR REPLAY ATTACKS" (`auth.service.ts:208`; `SECURITY-FIXES.md`, Fix 4): deliveries of an
  event that look before one is stored are all accepted (`EventUse`).
* "Maximum API key limit reached (10 keys)" (`api-keys.service.ts:43`): creations that count
  before another's insert all pass (`KeysWithinLimit`).
* The anti-sniping of `docs/AUCTION-SYSTEM.md:83`: a receipt's date is its publisher's. One
  dated back wins in the last second and moves no end; one dated ahead moves it, and leaves less
  than the window after its delivery (`RoomToAnswerZap` counts from the receipt's date, and
  leaves out the one that lay ahead).
* One payment, one bid: receipts of one hash with terms of their own, verified at the same
  time, are one bid each (`OneBidPerPayment` excuses hashes in dispute).

Seen while modelling too, and stated by no property of a run: the first winner, who let the
invoice lapse, is offered the name again later; the expiry job can take back a subscription
that was renewed while it ran; a downgraded user can keep, or get, an active identity once
handlers overlap or stop (`FreeHasNoNames` holds only one request at a time).

Met while modelling, as behaviour of the code that the properties are stated around:

* *Auctions and payments.* A bid of 110 over 100 is refused because of floating point
  (`MinimumBid`). The name of a deleted identity can never be provisioned again (the check at
  `nip05.service.ts:142` looks at active rows, the unique index at all). Nothing in `src/`
  calls `processExpiredSubscriptions`. An administrator's extension counts from the last change
  of the identity's row and may shorten the subscription. `checkInvoiceStatus` may write
  `expired` over a `paid` written meanwhile, after which a repeated notice credits the payment
  again.
* *Logins and keys.* Handlers that overlap share a challenge, an event or a place under the
  limit of keys. An event dated ahead by the whole window outlives the cache's memory of it. A
  verified LNURL login is never consumed, so that each poll makes a session. A failed audit
  insert leaves a key whose secret nobody was told.
* *Relay sync.* A crash leaves a row `syncing`, which no query finds again until someone
  queues the user; a user who is queued during the own sync is completed with it;
  `onModuleDestroy` is never called.
* *User sync and discovery.* After an empty answer the cursor is set to the present, so that a
  relay that could not be reached hides notes; a note dated ahead moves the cursor past all of
  its author's notes up to that date, and a note dated back is never fetched; a refused
  publication is passed over; a torn file means copying everything again. Persists overlap, and
  a file that cannot be read is replaced by an empty one.
* *Verification.* A check by another key caches a refusal with the owner's key, and the owner is
  then told that the address "does not match" for the life of an answer. The timer of eight
  seconds does not cover the body (`nip05.service.ts:377`, `:391`): an answer may be old when it
  is read, and is then cached as new. Custom domains are never verified: nothing sets
  `verified`.
* *Feed.* Answers to an earlier mode are added to the present one; a custom feed ends at the first
  window without a match, and at a last one with more than forty (`social.ts:855`); the feeds ranked
  by score skip posts below the cursor. Relays that do not answer are left out without an error: the
  cursor passes their posts, and a page that is short for their absence ends the feed
  (`social.ts:153`, `:204`, `:215`). The refresh after a like or a zap is of the mode at the click.
* *Lists.* Copies of one list lose each other's edits; a relay that does not answer reads as
  an empty list, which the next edit publishes; removing the last filter is never
  published; `publishEvent` ends, and reports success, before any relay took the event. Filters
  changed without the session's key stay on the device.
* *Profiles and sign-in.* A fetch from before an invalidation stores its stale profile, and its
  `finally` removes the newer fetch from those to join. A failed logout keeps the token, a late
  failure wipes the token of a newer login, and an nsec key survives a failed `initialize`.
* *Signer and wizard.* A cancelled session sets its error after the dialog is idle again, and a
  new session does not end the one before. A free registration submits the name of a premium
  path given up, an imported identity gets a random key, a second click submits again.
* *Zaps.* Every receipt that arrives subscribes once more, and the inner subscriptions are never
  closed (`FeedPage.tsx:513-539`); a receipt counts whoever published it, paid or not
  (`zaps.ts:148`); a load for an earlier feed sets the totals of the present one; an opened link
  is shown as paid.

## 7. Not modelled

* *Left out of the modelled parts.* Prices, discounts, amounts of money other than bids;
  signatures and parsing (zap receipts and notices enter as records with the fields the code
  reads); several auctions at once (they share no state but the provider's invoice ids); several
  server processes (the code assumes one: the auction Maps are in memory). Restart of the
  auction service: it forgets everything, so there is no recovery to check.
* *Stateless parts.* Names, scores, filters, search, content, analytics and the CLI are pure
  functions of their input or views of what others keep.
* *Network input and output without state of their own.* The aggregator, the relays' metrics,
  webhooks, and the health of relays in the sync: what they do is ask and log; the flags they
  keep guard a single caller.
* *Most of the client's lines* are JSX, tables of data and parsing of contents. They are mapped
  nowhere, because a definition that claimed them would translate nothing: this, and not missing
  state, is why the map covers a small share of all lines.
* *Candidates that have state and are left*: `PaymentModal` and `Checkout` (a retry while a poll is
  under way), the health and rotation of relays in `relay-sync.service.ts`, the snapshots of
  the network's analytics, the memory of `eventCache.ts` (whose key leaves out the values of tags,
  so that two questions of the same second may share an answer), the overlapping loads of
  `identityStore.ts`, and the relay list of `DiscoverPage.tsx`.

## 8. Plan

1. Auction, AuctionFlow, BidLedger, Sale, AuctionProofs. *Done.*
2. Billing, Nip05, Membership, Entitlement, MembershipProofs. *Done.*
3. Auth, ApiKeys, RelaySync, RateLimiter, UserSync, RelayDiscovery, Verification; Platform,
   PlatformProofs, AccessProofs. *Done.*
4. Feed, Lists, ProfileCache, SignIn, NostrConnect, Onboarding, Zaps; Client, ListsZapsProofs,
   ClientProofs. *Done.*
5. Every invariant and refinement of a passing run as a theorem. *Done.* Next: weaker hypotheses
   (`NamesAreLimited` for requests of different users that overlap, `FreeUsersHaveNoNames` with a
   crash after which the job runs again), and the flow with an administrator who only looks.
6. Models next: the candidates of section 7, each as a further part of Client or Platform.
