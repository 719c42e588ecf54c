# AgriConnect in TLA+

AgriConnect is a marketplace for farm produce. A buyer pays for a listing, the
backend holds the money, a driver is found and delivers, and the money goes to
the farmer or, after a dispute, back to the buyer. This directory models the
backend (`src/backend/src`, TypeScript on Express, Prisma and PostgreSQL): the
parts where several requests, background workers, several servers or the payment
provider Paystack act on the same rows. TLC checks the models on small instances;
TLAPS proves all of their safety properties for all instances.

Paths below are relative to `src/backend/src/` unless they start with `src/`.

## 1. The system

| Component | State | Operations | Modelled by |
|---|---|---|---|
| Orders (`modules/transaction`) | `orders`, `payments`, `qr_scans` | `purchase`, `confirmDelivery` | `Escrow`, `Sale` |
| Payments (`services/payment.service.ts`, `modules/payment`) | `payment_webhook_events`; charges, payouts and refunds at Paystack | `initializeTransaction`, `initiateTransfer`, `refund`, `paystackWebhookHandler` | `Escrow` (partly) |
| Disputes (`modules/dispute`) | `disputes` | `raise`, `resolve` | `Escrow` |
| Listings (`modules/listing`) | `produce_listings`, `crop_types` | `createListing`, `updateListing`, `deleteListing` | `Catalogue`, `Escrow`, `Sale` (partly) |
| Dispatch (`modules/dispatch`) | `driver_assignments` | `assignDriver`, `manualAssignDriver`, `acceptJob`, `declineJob`, `handleExhaustionIfNeeded`, `markCompleted` | `Dispatch` |
| `DriverTimeoutWorker` (`workers`) | – | `processExpiredAssignments` | `Dispatch` |
| Outbox (`modules/outbox`, `workers/outbox.worker.ts`) | `outbox_events` | `recordEvent`, `processBatch`, `markPublished` | `Outbox`, `Escrow` |
| Audit trail (`modules/audit`) | `audit_trail`, a chain of hashes | `log`, `verifyChainForEntity`, `findFiltered` | `Audit` |
| Authentication (`modules/auth`) | `users`: status, password, refresh token | register, Google sign-in, login, refresh, logout, password reset | `Accounts` |
| Administration (`modules/admin`, `scripts`) | `users` | create and remove administrators, approve, reject; the script and the seeds | `Accounts`, `Dispatch`, `Escrow` |
| Users (`modules/user`) | `users`, `driver_details`, `user_device_tokens` | `updateProfile`, device tokens, the encrypted payout number; `findAvailableDrivers` | `Profiles`, `Accounts`, `Dispatch` (partly) |
| Delivery addresses (`modules/address`) | `delivery_addresses` | create, update, delete, the default | `Profiles` |
| Freshness monitor (`modules/listing/freshnessMonitor.ts`, `modules/pricing/freshnessDecay.ts`, its worker) | `notifications` of one type | the hourly sweep, `projectFreshness` | `Freshness` |
| Pricing (`modules/pricing`, seeds) | `mofa_price_references` | the seeds, `findLatest`, `getMarketTrend`, `recommend` | `Catalogue`, `Freshness` (partly) |
| Marketplace (`modules/marketplace`) | – | paging through active listings | `Catalogue` (partly) |
| Notifications | `notifications` | freshness warnings, the alert to the administrators | `Freshness`, `Dispatch` (partly) |
| Connection pool, dashboard, HTTP layer, Flutter client, AI pipeline | | | not modelled |

How they interact. `purchase` flips a listing from active to sold, creates the
order and its payment, records `ORDER_PLACED` in the outbox and, after its
transaction, calls `assignDriver`. Paystack's webhook moves the payment and the
order, and puts the listing back on sale when the charge was declined.
`confirmDelivery` pays the farmer, records the scan and `DELIVERY_CONFIRMED`,
and tells dispatch. `resolve` refunds or pays, and may put the listing back on
sale. Dispatch and its worker write the order's status too. Administrators decide
about farmers and drivers, who sign up with a `users` row and, for drivers, a row of
`driver_details` that dispatch looks for. Listings take their reference price from
the quotes of the seeds; the monitor and `recommend` project the same freshness.
Nearly every handler ends with an entry of the audit trail. Everything meets in
the database, and nothing is serialised by the application.

What is hard about it:

* **Two clients in one transaction.** Statements of the `tx` client commit
  together and hold row locks. Repositories called inside the same callback use
  the global client: they commit at once and survive the rollback
  (`transaction.service.ts:53` and `:182`, `dispute.service.ts:79`).
* **No transaction at all.** Sign-ups, decisions, removals, addresses, listings,
  profiles and audit entries are sequences of statements, each of which may be the
  last, or follow a statement of somebody else.
* **Money moves first.** Paystack is called before anything is written, and a
  failure or a restart can come after any statement.
* **Repeated and overlapping deliveries.** Paystack repeats an event until it is
  answered with 200; two deliveries may be handled at once.
* **Checks that are stale when they are used.** The dispatch claim decides on
  its snapshot; `deleteListing`, `declineJob`, `login`, `approveUser`,
  `removeAdmin` and `log` on an earlier read.
* **Row locks that end with their statement**, in both workers.
* **Workers that nobody starts**, and one that every server starts: `server.ts`
  starts only the freshness monitor, which sweeps in each of them.
* **Tokens that outlive decisions.** An access token is checked against nothing
  but the time, a refresh token against the stored one but not the status.

What makes each part correct: an order never says that money moved when Paystack
did not accept that it does; a delivery is recorded once; a declined charge is unwound; a listing is sold
by one sale at a time, and is off the market only for somebody; the event of a
charge that was declined, or paid as it was asked for, is processed in the end; an order that no driver wants is brought to the admins'
attention, and a driver who has claimed one keeps it alone; an offer does not stay
open for ever; an event gets out if and only if its transaction commits, in order,
and is repeated only after a failure; the verification of the trail blames no
finished entry of a user about a thing whose id was spelt as it is stored, and its pages show each entry once; a session belongs to
an approved account and to its present password; a decision is final, and some
administrator is left; every driver can be offered jobs; one address is the
default; a device gets the messages of whoever has it; a payout goes to a number
and a network of one form, unless the user changed one of them alone; a farmer's retry does not list his produce twice, a
trend compares two days, and paging misses nothing that stays; a farmer is warned
in time, and not twice by one server.

The places where this holds only with exceptions are listed in section 3.

## 2. Modules

| Module | What it is |
|---|---|
| `Sale` | The abstract market: selling a listing is one step. |
| `Escrow` | Purchases, webhooks, confirmations, disputes and deletions, statement by statement; implements `Sale`. |
| `Dispatch` | Broadcast, claims, declines, time-outs and exhaustion, statement by statement. |
| `Outbox` | Recording, fetching, publishing and marking of events. |
| `Audit` | The three statements of `log()`, the verification and the pages. |
| `Accounts` | Sign-ups, sessions, passwords, approvals and administrators. |
| `Catalogue` | Creation of listings, crops, seeds, trend, paging. |
| `Freshness` | The monitor in every server, and the projection of freshness and of prices. |
| `Profiles` | Addresses, device tokens, the encrypted payout number. |
| `MCEscrow`, `MCDispatch`, `MCOutbox`, `MCAccounts`, `MCFreshness`, `MCProfiles` | Symmetry sets, and constants that are sets of records, for TLC; `Audit` and `Catalogue` need none. |
| `EscrowProofs`, `DispatchProofs`, `OutboxProofs`, `AuditProofs`, `AccountsProofs`, `CatalogueProofs`, `FreshnessProofs`, `ProfilesProofs` | Theorems and their proofs, one module for each. |

In every module a definition that follows a comment starting with "Mutation:" is
not part of the specification: it is a plausible wrong version of the definition
below it, and documents which mistake a property detects. A variable called a
history in its comment is not state of the program; properties use it to say what
happened before.

### Escrow

Each element of `Requests` is a request handler. `req[p].pc` names the statement
it comes to next, and one action executes it, so other requests run between any
two statements. Reads that lie next to each other and whose results are used at
once are part of the first step of a handler (`PurchaseStart`, `ConfirmStart`,
`RaiseStart`, `ResolveStart`, `DeleteStart`).

| Code | Actions |
|---|---|
| `TransactionService.purchase` | `PurchaseStart`, `PurchaseInitialize`, `PurchaseFlip`, `PurchaseCreate`, `PurchaseCommit`; `MinutePasses` ends the idempotency window |
| `paystackWebhookHandler` | `WebhookLookup`, `WebhookReserve`, `WebhookRead` or `WebhookRefuse`, `WebhookHold`, `WebhookReverse`, `WebhookComplete` |
| `confirmDelivery` | `ConfirmStart`, `ConfirmTransfer`, `ConfirmScan`, `ConfirmRelease`, `ConfirmComplete`, `ConfirmCommit` |
| `DisputeService` | `RaiseStart`, `RaiseCreate`; `ResolveStart`, `ResolveRefund`, `ResolveTransfer`, `ResolveRecord`, `ResolvePayment`, `ResolveOrder`, `ResolveCommit` |
| `deleteListing` | `DeleteStart`, `SoftDelete` |
| a statement throws, the process dies | `Fail`, `Restart` |
| Paystack, dispatch | `ChargeSettles`, `PayoutSettles`, `RefundSettles`; `DispatchSets` |

Effects of `tx` statements become visible at the commit action; the row lock of
the listing is `RowLocked`, the one behind the unique index of `qr_scans` is
`ScanLocked`, and statements that need them wait. Effects of the global client
are visible at once. An order and the Paystack reference of its payment are one
identifier: each purchase has a reference of its own. `initiateTransfer` and
`refundTransaction` return "pending" for what Paystack has accepted and not yet
made, and nobody looks at it: `Answers` are the answers Paystack may give, and
`PayoutSettles` and `RefundSettles` execute what is pending, or fail it. A charge
is odd when it was paid in another amount or currency than asked for:
`WebhookRefuse` throws, on every delivery.

### Dispatch

Processes are request handlers and timeout workers. The claim in `acceptJob` is
two steps, `AcceptClaim` and `AcceptCommit`: the first takes the row lock and
evaluates the `NOT EXISTS` over other rows in its snapshot, the second makes the
claim visible. In between, a claim of another row sees no rival. The worker's
claiming statement is two steps for the same reason (`Poll`, `Lapse`), and its
fallback is `FallbackRead` and `Overwrite`; after either, `NextOrder` goes through
the orders whose offers lapsed. `handleExhaustionIfNeeded` is `CountLive`,
`ResetOrder` and `AlertAdmins`, for handlers and workers. `CountOffers` and
`CreateOffer` are the two statements of the repository's `create`. A delivery is
`DeliverStart`, `Deliver`, `FindActive`, `CompleteOffer` and `FreeDriver`.
`Drivers` are the drivers whose vehicle can carry the load. `alerts` counts the
alerts since the last offer of an order; `past` is history: what became of the
claims of an order. `EscrowSets` is what the other components write to an order's
status.

### Outbox

A transaction records an event (`Record`) and ends with `Commit` or `Abort`; its
row is in `rows` only when it committed. `created_at` is the time of the
insertion, in a clock that need not advance between two of them. `Fetch` is the
query, which skips any rows other statements may hold (`LockedBy`), or its
fallback, which looks for no locks; with `Fetched` it returns and its locks are
gone. `Publish` and `Mark` are the two statements of the loop, `PublishFails`
and `MarkFails` their failures, which may come before or after the effect and
include the death of the process. `seen` and `sent` are history.

### Audit

`FindLatest`, `Insert` and `SetHash` are the statements of a call of `log()`:
they read the hash of the latest entry, insert a row with the hash `PENDING`, and
replace it by the hash over the time the database gave the row. `Fail` ends a call
between any two. SHA-256 is injective, and the contents an id stands for are not
repeated. An actor that is not a UUID is hashed but stored as NULL (`Programs`).
The id of the entity is hashed as the caller gave it and stored in a column of type
uuid, which gives it back in small letters: `exact` says whether the two are equal.
`Broken` is `verifyChainForEntity`, `Found` the repository's query with its cap,
`Page` the handler's use of it with another one.

### Accounts

`pc` and `req` are the statement and the local variables of a handler; `req.row`
is the row it has read.

| Code | Actions |
|---|---|
| `register`, `googleAuth` of a new user, `createAdmin`, the script, `seedDevAdmin` | `Register`, `GoogleSignUp`, `CreateAdmin`, `ScriptAdmin`, `SeedDevAdmin`; then `Create`, `CreateDetails` for drivers, `SetStatus` |
| the administrator of the catalogue's seed | `BootstrapAdmin` |
| `login`, `googleAuth` of a known user | `Login`, `GoogleLogin`, `OpenSession` |
| `refresh`; `logout` | `Refresh`; `Logout`, `CloseSession` |
| `forgotPassword`; `resetPassword` | `ForgotPassword`; `ResetPassword`, `SetPassword` |
| `approveUser`, `rejectUser` | `Decide`, `WriteDecision`, `Log` |
| `removeAdmin` | `RemoveAdmin`, `CountAdmins`, `WriteRemoval`, `Log` |
| tokens expire; a statement throws or the server stops | `Tick`; `Fail` |

`raced` remembers users whose row changed between a handler's read and the write
that relied on it: the properties say that nothing else breaks them. `removeAdmin`
compares the id of the path, as a string, with that of the administrator who asks
and with those it counts: `exact` says whether it is spelt as it is stored, or in
capitals, which only the database takes for the same.

### Catalogue

An intent is a listing a farmer wants to create, with the form he fills in:
`Submit` reads the reference price, `FindCrop`, `CreateCrop`, `Insert` and `Log`
follow, `Fail` ends the handler with an error, and the farmer may submit again.
Texts keep what the lookups tell apart: the crop, other case, blanks around it.
`Seed` and `SeedCrop` are what a seed script does for one crop, `NextDay` the
date. A buyer asks for the first page (`Browse`) and for the next ones
(`BrowseOn`) while listings are added, sold (`Leave`), relisted (`Relist`) and
changed (`Update`); `StartAgain` is a new query. The page and the number of pages
are two queries that run at the same time, `FindPage` and `CountPages`, in either
order and with anything in between. `Page` and `TotalPages` are what they find.

### Freshness

Each server has a worker: `Boot`, `StartSweep` (which projects all active
listings), `Check` (the lookup of an earlier warning), `Send`, `EndSweep`; `Fail`
ends a sweep, whether or not the notification was written, and `Stop` the process
of a server. A listing is sold or deleted (`Leave`) and comes back (`Relist`) at
any time, and ages from its creation all the while. Sweeps start at most `MaxGap` ticks apart while a server is up: `Tick` waits for
them. `ProjectFreshness` is `projectFreshness` in hundredths of a percent,
`Ceiling` and `DecayProjection` are what `recommend` makes of it in pesewas, for
scores (`Queries`) that may be finer than hundredths (`Fine`). The code computes
with doubles. Where the exact result is not half-way between two hundredths they
round as exact arithmetic does: the error of three operations is far below the
distance of any other quotient of such numbers from half-way. Where it is, they
round it up or down, depending on the numbers: 79.99 after four of eight days is
39.99. `Down` is the set of computations that are rounded down, and the theorems
hold for any such set.

### Profiles

The addresses of a user are a set of rows; ids number them in the order of their
creation, which is what `findManyByUser` sorts by after the default (`First`).
`CreateAddress`, `UpdateAddress`, `DeleteAddress` start handlers,
`ClearDefault`, `InsertAddress`, `WriteAddress`, `RemoveAddress`, `FindRemaining`
and `Promote` are their statements. Devices: `RegisterToken`, `RemoveToken` and
`ActiveTokens`, with the legacy column that nothing writes any more. Profile:
`PatchProfile`, whose form gives name, number and network or any of them,
`WriteName` (which reads the whole user back, and fails when the
payout number cannot be decrypted) and `WriteColumns`, one statement for number
and network, which leaves alone what the form does not give. `alone` remembers that
one of the two came without the other since a form gave both. `Encrypt` and `Decrypt` keep the key a number was stored under;
`Restart` starts the server with another one, or none.

## 3. What is checked

| Run | Instance | Question |
|---|---|---|
| `escrow_money` | 1 order, 1 dispute, 2 handlers, 2 payouts, answers "success" and "pending", 1 failure | Is there an accepted payout or refund behind every released and refunded payment (`ClaimsAreBacked`), is a delivery recorded once (`DeliveryRecordedOnce`), does a declined charge never end as held (`FailedChargeNeverHeld`)? |
| `escrow_sale` | 2 buyers, 2 orders of 1 listing, 2 handlers, 1 failure, no dispute | Is `Escrow` an implementation of `Sale` (`ImplementsSale`), and is a listing off the market only for an order (`SoldListingHasOrder`)? |
| `escrow_live` | 1 order, 2 handlers, 2 failures | Is the event of every charge that was declined, or paid as asked for, processed in the end (`EventProcessed`)? |
| `escrow_double_sale` | 3 orders of 1 listing, 2 handlers, no failure | Ends in a counterexample to `NoDoubleSale`, see below. |
| `dispatch_alert` | 1 order, 2 drivers, 2 handlers, 1 worker | Is an order that every driver asked declined or let lapse brought to the administrators, when nothing fails (`ExhaustionIsAlerted`), and does a driver keep what he claimed unless claims overlapped or a stale write came after (`ClaimHolds`)? |
| `dispatch_live` | 1 order, 1 driver, 1 manual offer, 1 handler, 1 worker, 1 failure | Does an offer come to an end (`OfferAnswered`)? |
| `outbox` | 3 events, 2 workers, batches of 2, 1 failure | `OnlyCommittedSent`, `MarkedWasSent`, `RepeatedOnlyAfterFailure`, `NothingSkipped`; and `EventPublished`, that it gets out in the end |
| `accounts` | 2 handlers, 2 administrators of which 1 by seed, 1 other person, 4 handlers started, 1 failure | Does a session stand for an approved account (`SessionNeedsApproval`) and its present password (`ResetEndsSessions`), is an administrator left (`LockoutNeedsOverlap`), can an approved driver be found by dispatch (`DriverIsOfferable`), does a decision last (`DecisionIsFinal`) – and what exactly are the exceptions? |
| `audit` | 2 calls, 1 entity, 1 user, 1 program, 3 entries, page cap 2 | Does the verification blame only entries that are unfinished, not a user's, or of an id spelt in another way (`OnlyUnfinishedIsBlamed`), does the chain fork only by overlapping calls (`ForkedOnlyByOverlap`), do the pages show each entry once (`PagesPartitionTrail`)? |
| `catalogue` | 1 intent for 1 crop, in capitals or with blanks, 1 buyer, pages of 1, 2 days, 2 listings, 1 update, 2 failures | Is a retry no second listing (`NoDuplicateByRetry`), is a creation refused only for blanks or an overlap (`RefusedOnlyByBlanksOrOverlap`), does the trend compare two days (`TrendIsOfTwoDays`), does paging miss nothing that stays (`PagingMissesNothing`)? |
| `freshness` | 2 servers, 1 listing, sweeps at most 1 tick apart, a window of 5 ticks in 6, 2 failures; 4 scores and 3 prices | Is a farmer warned in time (`WarnedInTime`), and once by each server (`WarnedOncePerServer`)? Is a projection the linear decay to the nearest hundredth, do the ceilings made of it fall, and is the time before a drop one stretch (`ProjectionIsSound`)? |
| `profiles` | 2 handlers, 2 users, 1 device, 2 keys or none, 4 handlers started, 1 restart, 1 failure | Is exactly one address the default (`DefaultIsKept`), is a device's token its user's (`TokenFollowsDevice`), do payout number and network belong together (`PayoutIsOfOneForm`)? |

Each safety run but `escrow_double_sale` checks its module's `TypeOK` too, except
`escrow_sale`, whose type invariant is that of `escrow_money`.

**The counterexample.** `schema.prisma:189-190` says the flip from active to sold
protects against double sales. Two deliveries of one `charge.failed` both read
the payment as held. The first relists the listing, somebody else buys it, the
second relists it again, and it is bought a third time: two live orders of one
listing. `ImplementsSale` holds nevertheless, because `Sale` lets the reversal of
a charge relist; what it shows is that no purchase sells what is not on sale.

**Where the code does less than its comments, or than one may expect.** These are
the exceptions the properties above name, or leave outside their claim. No run is
kept for them.

Sales and disputes
* `listing.service.ts:117-121` wants no deletion of a sale still owed; a purchase
  can commit between the test and the deletion.
* `dispute.service.ts:87` and `listing.service.ts:49-51`: a refund re-enables the
  listing, but a failure after the order was cancelled leaves it sold, and the retry
  is refused.
* Two disputes of one order can be open: test and insertion are apart
  (`dispute.service.ts:23`).
* A purchase that fails after `repo.create` leaves an order of a listing that is
  still on sale (`transaction.service.ts:53`).
* A delivery can be paid twice (`src/docs/SECURITY_AND_REMEDIATION.md`, section 4).
* `dispute.service.ts:60-61`: calling Paystack first keeps a failed payout from
  being claimed only when it fails at once. One that Paystack leaves pending is
  written as released or refunded, fails later, and nothing undoes the claim:
  `transfer.failed` has no handler.
* A charge in another amount or currency: every delivery of its event ends with an
  error (`payment.controller.ts:99-109`), and the order stays held as if paid.

Dispatch and outbox
* `dispatch.service.ts:130-135`: the one statement does not stop two drivers who
  claim different rows at once under READ COMMITTED. `ClaimHolds` says that
  only this, and writes that rely on an earlier read of the offer, take a claim away.
* `driver-timeout.worker.ts:45-46`: when all overdue rows are locked the result is
  empty, the fallback runs and overwrites the offer that is being accepted.
* A driver who declines during the broadcast triggers the alert while other
  drivers are still being asked, and a decline and the worker can each send it
  (`dispatch.service.ts:240`). When no driver is available nobody is alerted
  (`dispatch.service.ts:33`).
* `outbox.worker.ts:57` and `:63`: the query does not claim events; its locks end
  with it, and another worker finds the same rows.

Accounts and profiles
* Two administrators can remove each other (`admin.service.ts:70-76`): both count
  two. The last one can remove himself with his id in capitals: lines 62 and 71
  compare strings. And who is counted as remaining may be unable to log in: the
  seeds make administrators without an e-mail (`src/docs/SECURITY_AND_REMEDIATION.md`,
  section 9), so `LockoutNeedsOverlap` is about approved accounts.
* A driver's sign-up that fails before `driver_details` is created cannot be
  repeated, and dispatch never finds him.
* The status written late by a sign-up overwrites a decision taken in between, and
  an approval and a rejection that overlap both succeed.
* `refresh` looks at the stored token and not at the status: a login that
  overlaps a rejection leaves a session that goes on.
* The only address can be made non-default, and two requests leave two defaults
  or none. The legacy `fcm_token` survives the removal of its device.
* A payout number that cannot be decrypted fails the change of a name after it
  was written, and with it the login.
* A form with the payout number alone leaves it with the network of an earlier form
  (`user.repository.prisma.ts:246-247`).

Trail, catalogue and freshness
* Entries of `cli-script` and `driver-timeout-worker` never verify: their actor is
  hashed and not stored. Nor do those about an entity whose id came in capitals
  from a path (`admin.service.ts:77`): the column (`schema.prisma:95`) returns it in
  small letters. An export asks for 1000 entries and gets 50.
* `findFiltered` used alone, with a skip that is not capped and a take that is,
  would lose entries; the handler caps both.
* A crop typed with blanks is looked up with them and created without: the unique
  index refuses it. `updateListing` has no test of the status.
* `listing.repository.prisma.ts:131`: a listing that comes between the count and the
  list of the last page pushes another one off it, and the buyer is told that there
  are no more pages.
* The comment `pricing.service.ts:36-41` describes another trend than the
  one computed; the fallback price of 10.0 makes the 404 of `recommend`
  unreachable; the soft floor of 0.6 turns the band around for produce below 60 %.
* A sweep ends at the first warning that fails, and each server warns; the
  comment of `freshnessMonitor.ts` that a listing is warned of once does not hold
  after a time in which no server ran. A listing that was sold while it approached
  the threshold, and is relisted below it, is not warned of at all.
* The ceiling of today and the first of the projection differ for a freshness finer
  than hundredths: at 1000 and 50.004 % they are 500.04 and 500.00.

**Bounds.** Races in this code are between two requests for the same row, hence
two handlers everywhere; the third party is the environment (Paystack, the
worker, the clock), which is not bounded by `Requests`. One listing is enough
because no statement of `Escrow` relates two listings. For the money one order is
enough: only the listing relates two orders, and `escrow_sale` and
`escrow_double_sale` have two and three; those and `escrow_live` have no disputes
and need no pending answers, which no statement of theirs reads. Two payouts let a retry pay again, and
the third be refused. In `escrow_live` two
failures allow a failure of the retry; with pending answers, in `escrow_money`, one
failure at any statement is what TLC can enumerate, and the proofs bound none. Two drivers give
a rival; a second offer for the same driver is what `MaxManual` allows. Three
events and batches of two give a batch that does not take everything, an event
that commits late, and two instants (`MaxClock`) order or tie them; two values of
the clock lose chains of three different times, which no statement compares.
In `Accounts` two administrators are the fewest that can remove each other, and
the one other person is driver or buyer; an access token lives one tick, a refresh
token two, so that one expires before the other. Four handlers in all are a sign-up, a
login, and two that race over it. In `Audit` three entries are a fork with a
successor, and more than a page. In `Catalogue` the intent names the crop
with the blanks or the capitals that the lookups treat differently, a seed creates it
in between, and a retry after a lost answer is the second listing; pages of one
listing make each addition, sale and relisting shift the next page, and two queries
for a page let one come between them. In `Freshness` the listing is
half-way below the threshold after five of its ten ticks, and a window of five in a
run of six lets it be sold and relisted inside the time it is due to be warned of;
the scores and prices have every result half-way that occurs here, with the rounding
doubles give it (`MCDown`), and two servers are the fewest that can both warn. In
`Profiles` two addresses of a user, one device that
changes hands and one restart with another key are what the statements relate.
`MaxTransfers` stands for Paystack's balance; `MaxFailures`, `MaxManual`,
`MaxClock`, `MaxHandlers`, `MaxRestarts`, `MaxPassword`, `MaxEntries`,
`MaxListings`, `MaxUpdates`, `MaxDay` and `LastListing` only bound the instance.

**Symmetry** is used in runs that check safety only. **Deadlock** is not
checked: in a small instance the requests run out of orders, offers, events or
handlers to start, and stopping is then what the system does. Waiting for ever is
covered by the liveness properties.

**Fairness.** In `Escrow` a running handler goes on (weak fairness; Node's event
loop runs every continuation, and no lock is held longer than a transaction), and
Paystack delivers an event until it is answered with 200 (strong fairness of the
lookup, because handlers may be busy). Nothing is assumed of buyers, drivers,
admins or of failures. In `Dispatch` handlers that were started go on, a running
worker polls again and again (`setTimeout` in `start`), and offers get older. In
`Outbox` a worker polls again and again. The last two say something only of a
deployment that starts the workers. The other modules state safety; that a
warning comes in time is safety in `Freshness` too, because `Tick` waits for
the sweeps that are due.

## 4. What is proved

TLAPS checks the theorems for any users, listings, orders, drivers, requests,
events, workers, servers, entries, grades, pages and bounds. The assumptions are
the named `ASSUME`s of the modules. That bounds are natural numbers, Paystack
answers "success" or "pending" when it accepts, `None` is no
identifier, the events, the drivers and the servers are finite, and a worker is no
request, are properties of what the constants stand for. Two say something of the
program: the seed or the script has made an administrator (`SomebodyIsAdmin`), and
a listing has a positive shelf life (`GradesArePositive`, `listing.schema.ts`). Each proof module has one inductive invariant, proved by one
lemma for each conjunct or for each action, and the properties follow from it.

**EscrowProofs.** `Invariance` proves `[](TypeOK /\ Inv)`. The properties are not
inductive by themselves: that a payment becomes released with a payout behind it
depends on how far its request has come. `Inv` says what each handler may rely on
at each statement: `MoneyInv`, Paystack has accepted the payout or the refund before
a confirmation or a resolution writes; `FlipInv`, from the flip to the commit a purchase has the row
lock, its listing is still active in what is committed, and it is the only one;
`ScanInv`, the same for the scan; `PurchaseInv`, an uncommitted purchase is the
only one with its order; `WebhookInv`, which statements a settled charge leads to;
`OrderInv`, `DisputeInv`, `SubjectInv`, rows refer to rows that exist;
`ResolveInv`, a request that resolves a dispute resolves one of its own order, and
has recorded that before it writes payment and order; `SoldInv`, the order of a
sold listing, or of a sale about to commit, is neither refunded nor cancelled
unless a resolved dispute accounts for it. One lemma for each conjunct goes
through the actions. From it follow

* `MoneyIsReal`: `ClaimsAreBacked`,
* `DeliveryIsRecordedOnce`: `DeliveryRecordedOnce`,
* `FailedChargeIsReversed`: `FailedChargeNeverHeld`,
* `SoldIsAccountedFor`: `SoldListingHasOrder`, as long as no dispute has been
  resolved; `escrow_sale` checks it without disputes, the theorem has them raised,
  open, and on their way to Paystack,
* `Refinement`: `Escrow` implements `Sale`; `FlipInv` is the reason a commit is a
  `Sell` step,
* `TypeCorrect`.

**DispatchProofs.** `ExhaustionIsAlerted` speaks of orders nobody looks after any
more; what has to be invariant is who does. `AlertInv` says it: whoever leaves an
order without a live offer – a decline, a time-out, the fallback – is still to
count, to reset the order or to alert, or somebody after him is. It needs to know
what each handler carries (`SubjectInv`, `WorkInv`), that offers are numbered
without gaps (`OfferInv`) and that the offers made and those still to be made are
no more than the drivers and the manual ones (`CountInv`), so that a new one always
has a number. `ClaimHolds` rests on `LockInv` (one statement at a time holds a
row), `ClaimInv` and `ClaimedInv` (what a claim that has or has not committed says
of its row, and of `past`). One lemma for each conjunct. From `Invariance`, the
invariance of the whole `IInv`, follow

* `ExhaustionIsNoticed`: `ExhaustionIsAlerted`,
* `ClaimIsKept`: `ClaimHolds`,
* `TypeCorrect`.

**OutboxProofs.** `Invariance` proves `[]IInv`. `UnmarkedNotRepeated` strengthens
the bound on repetitions: an event that may still be published has been published
at most as often as its worker failed. `BatchIsPrefix` strengthens the order: what
is left of a batch is a prefix, by age, of what is left of what the query found.
`Committed` and `MarkingWasSent` relate the table and the workers. The two
failures share `BreakIInv`. From it follow `OnlyCommittedGetsOut`,
`NoEventIsLost`, `RepetitionIsBounded`, `OldestFirst` and `TypeCorrect`.

**AuditProofs.** `IInv` relates calls and rows: `CallsAreChained`, the hash a call
has read is that of an entry before its own; `CallsMatchRows`, a call that has
inserted owns the row it will finish; `RowsAreChained` the same as the first for
rows; `HashesMatchRows`, a finished row has the hash over what it says. From
`Invariance` follow

* `FinishedIsNotBlamed`: `OnlyUnfinishedIsBlamed`,
* `ForkNeedsOverlap`: `ForkedOnlyByOverlap`,
* `PagesPartition`: `PagesPartitionTrail`, by arithmetic on caps and pages of any
  size,
* `TypeCorrect`.

**AccountsProofs.** The handlers read a row and write it, or another one, later.
`HandlersInv` says what each of them relies on at each statement, as an operator on
rows and arguments (`Relies`), so that one lemma (`RelianceStays`) covers all
steps of others: rows stay, and keep their roles. `AbsentInv` is about accounts that
are not there, `DecidedInv` says that who was decided about is pending again only
by a late write. The exceptions of the properties, in `raced`, are part of the
induction: a write that comes after another one is exactly what enters `raced`.
From `Invariance` follow

* `SessionIsApproved`: `SessionNeedsApproval`,
* `ResetIsFinal`: `ResetEndsSessions`,
* `AdminIsLeft`: `LockoutNeedsOverlap`; the removal relies on others it has counted,
  and they are administrators still, unless somebody removed them meanwhile; that the
  removed one is not among them is so only where his id was spelt as it is stored,
* `DriversAreOfferable`: `DriverIsOfferable`,
* `DecisionsAreFinal`: `DecisionIsFinal`, an action property, by cases over the
  actions that write a status,
* `TypeCorrect`.

**CatalogueProofs.** `HandlerInv` says what a handler knows (a price, a crop that has
a row, blanks as the reason of a failed lookup), `OnceInv` that an intent has one
listing and none before its insertion, `QuoteInv` that a crop has one quote a day,
`PagerInv` what a buyer has not seen: it is on the pages still to come, those of the
query under way included, and a count that has run before the list counts it, unless
a listing came in between (`grew`). Its
preservation is about ranks, the number of newer active listings: one that is
added, sold or changed moves the others by at most one place, and in the direction
that loses nothing unless a listing leaves. From `Invariance` follow

* `RetryIsSafe`: `NoDuplicateByRetry`,
* `RefusalHasCause`: `RefusedOnlyByBlanksOrOverlap`,
* `TrendComparesDays`: `TrendIsOfTwoDays`; that there is a newest quote is proved
  from the well-foundedness of strict inclusion among finite sets,
* `PagingIsComplete`: `PagingMissesNothing`,
* `TypeCorrect`.

**FreshnessProofs.** First the arithmetic, for any score, shelf life and price and
either rounding of what is half-way: the
quotient rounds to the nearest, freshness never rises, a new listing has its
score, and so the time in which a listing is about to drop is one stretch
(`OneStretch`). Then the monitor: `WorkerInv`, a worker remembers listings only
during a sweep; `LooksOften`, a server that has been healthy has looked, in every
stretch of `MaxGap` + 1 ticks in which it was on sale, at each listing that nobody
was warned of, and found it not about to drop, or is still to come to it in this sweep; `SendsCount`, the
warnings of a listing and the servers about to send one are no more than the
servers. From `Invariance` follow

* `TheFarmerIsWarned`: `WarnedInTime`, from `LooksOften` and `OneStretch`,
* `WarnedOnce`: `WarnedOncePerServer`,
* `ProjectionSound`: `ProjectionIsSound`,
* `TypeCorrect`.

**ProfilesProofs.** `DefaultIsKept` has two halves, and `DefaultInv` one conjunct for
each user and half. `CalmInv`: without an overlap a handler is the only one at work
on its user's addresses and there are never two defaults; `AloneAt` is what it may
then rely on, such as that no row is marked when it comes to mark one. `SettledInv`:
undisturbed, a handler has a row to mark or leaves the marked one alone
(`SettlesAt`), so that there is a default when nobody is at work. `NumberInv` says
that ids are not used twice, `ClearInv` and `TokenInv` what the other statements
need, and `FormInv` that number and network are of one form or `alone`. `Cardinality` is dealt with where the property is concluded. From
`Invariance` follow

* `OneDefault`: `DefaultIsKept`,
* `TokensFollow`: `TokenFollowsDevice`,
* `PayoutOfOneForm`: `PayoutIsOfOneForm`,
* `TypeCorrect`.

Only model-checked: the liveness properties `EventProcessed`, `OfferAnswered` and
`EventPublished`, because fairness and ENABLED are out of the prover's reach; and
`NoDoubleSale`, which does not hold. No theorem needs induction over data, and no
module has a recursive operator.

## 5. What is left out

* Paystack's stub mode without a secret key, signatures and Mobile Money
  resolution. Paystack's own events about payouts: the webhook ignores them.
* Orders with own transport: they are never broadcast, so `Dispatch` has none;
  for `Escrow` the difference does not matter.
* The limit of 50 rows of the timeout worker's poll.
* A checkout that nobody pays: nothing in the code ends it.
* The connection pool (`config/db.ts`): a transaction holds a connection and waits
  for another one for the global client's statements; what ends the wait are the
  timeouts of Prisma, which are not in the repository.
* Roles and ownership: the models enumerate the callers the middleware and the
  ownership tests let through.
* Supabase, Google and bcrypt are taken to work: a password is a number that
  grows, a token is its kind and its time.
* Notifications other than freshness warnings, and the alert to the admins.
* Filters and orders of the marketplace, pictures, positions, QR contents, texts.
* Reading alone: lists, statistics of the dashboard, the OpenAPI documents.
* The HTTP layer, the Flutter client and the AI pipeline.

## 6. Plan

Done: `Sale`, `Escrow`, `Dispatch`, `Outbox`, `Audit`, `Accounts`, `Catalogue`,
`Freshness`, `Profiles`, and the proofs of all safety properties the runs check.
Left, in this order:

1. `EscrowProofs`: how two live orders of one listing come about – that
   `NoDoubleSale` fails only after a second reversal or a refund.
2. `Fulfilment`: `Escrow` and `Dispatch` composed, with the order's status shared.
3. `Pool`: transactions that hold a connection and need a second one.
