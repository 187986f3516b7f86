# A TLA+ model of the ecommerce-saas services

Seven Go services (`src/services`) share no database and no transaction. An
order is a row in one, its stock a row in another, its payment a row in a third
and an intent at Stripe; they agree only because of the order in which handlers
read, call and write. This project models those handlers step by step, checks
them with TLC on small instances and proves the main safety properties with
TLAPS for instances of every size.

| file | what it is |
|---|---|
| `StockOps.tla` | what one stock movement does to a level, and when it is allowed |
| `Stock.tla`, `MCStock.tla`, `Stock_proofs.tla` | inventory-service |
| `Orders.tla`, `MCOrders.tla`, `Orders_proofs.tla` | order-service: checkout, pay, fulfil, cancel, and accepted returns on the order's row |
| `Payments.tla`, `MCPayments.tla`, `Payments_proofs.tla` | payment-service and Stripe |
| `StockLocks.tla`, `StockLocks_proofs.tla` | the row locks behind the movements of inventory-service; implements `Stock` |
| `Returns.tla`, `Returns_proofs.tla` | returns: refund and restock |
| `Cart.tla`, `Settings.tla` | carts, store settings and quotes |
| `Products.tla`, `Taxonomy.tla`, `CategoryTree.tla`, `Showcase.tla` | product-service |
| `Subscriptions.tla`, `Access.tla`, `Guards_proofs.tla` | subscriptions; the guard of management routes |
| `Migrations.tla` | the SQL migrator |
| `MCShop.tla`, `Shop_proofs.tla` | the eleven modules from `StockLocks` on, followed one at a time; proofs about carts, settings, the catalogue, the migrator, and all eleven together |
| `Delivery.tla`, `MCDelivery.tla`, `Delivery_proofs.tla` | the consumers of events: notification-service and mail-service |
| `*.cfg` | one file per run |
| `PROJECT.json` | runs, mutants, hazards, findings, theorems, and the source lines of every definition |

Check a run with `tlc -config MCOrders.cfg MCOrders.tla`, a proof with
`tlapm Orders_proofs.tla`.

## 1. The system

### Components

| component | state | operations | hard parts |
|---|---|---|---|
| **inventory-service** | `stock_items` (on_hand, reserved), `stock_movements` | five movements on one SKU, four bulk movements, create, PATCH, delete | row locks; PATCH takes none; column width; deadlocks of bulk calls |
| **order-service, orders** | `orders` (status, payment mirror, payment_id, idempotency key) | checkout, pay, fulfil, cancel | calls to three services between statements, compensation, dropped errors, requests that race or stop half way |
| **order-service, storeconfig** | coupons, tax and shipping configuration | quote, redeem, management | limit checked and counted at different times; integer rounding |
| **order-service, returns** | `returns`, `return_items` | request, resolve | double resolve, partial refunds, restock failure |
| **payment-service, payments** | `payments` (status, refunded_cents, gateway_ref) | create, sync, settle, refund, webhook | read and whole-row write apart, Stripe between them, webhooks repeated and reordered |
| **payment-service, billing** | plans, subscriptions | subscribe, cancel, entitlement check | time; cancelled but paid for |
| **cart-service** | carts, cart items | add, set, remove, clear | read and write apart; one active cart per shopper |
| **events** | two Kafka topics | publish, consume | publish after commit may be lost; retry, skip, redelivery |
| **notification-service, mail-service** | notifications; mail log | consume events; mark read; send | duplicates and losses become visible to people; malformed events, a panic in the consumer, a relay without deadline, a stub that only logs |
| **product-service** | products, variants, options, categories, attributes, specs, reviews, images | management and storefront reads | reads and writes apart; ACTIVE needs a variant; one default variant; links without a transaction; rows and S3 objects |
| **authz** | 30 s cache of memberships in each service | RoleInTenant | stale roles |
| **migrator** | schema_migrations | up, down, status | two runs at once, a run that stops |
| **HTTP plumbing, rate limiter, start-up, nginx** | limiter map | - | - |

user-management, which issues tokens and memberships, is named by the code but
is not in the repository.

### How they interact

- order-service calls cart-service (read and clear the cart), inventory-service
  (bulk reserve, release, ship, restock) and payment-service (create, sync,
  settle, refund) over HTTP while a request is served. Nothing undoes a call
  but the compensating release of Checkout.
- Handlers run concurrently and hold no lock between statements. What protects
  an order is that its status changes by `UPDATE ... WHERE status IN (...)`;
  what protects stock is `SELECT ... FOR UPDATE` inside inventory-service; the
  payment row is protected by a unique index at creation and by nothing later.
- order-service and payment-service publish events after their commit;
  notification-service and mail-service consume them.
- Stripe is asked by payment-service and calls back with webhooks.

### What makes each component correct

- *inventory*: 0 <= reserved <= on_hand; every quantity change is a movement
  with the levels after it; a bulk movement is all or nothing.
- *orders*: the stock of an order is reserved once, then shipped or released,
  never both; an order that is live has its stock; the events are true; the
  payment mirror says REFUNDED only after a refund, and the refund of a
  cancellation comes after the release, from one request; a reservation whose
  checkout failed is given back.
- *payments*: an order is paid at most once; row and events claim no movement
  of money that did not happen; a payment the customer made is noticed, for good;
  refunds are accounted for.
- *coupons*: the limit is exceeded by no more than the checkouts that overlap.
- *returns*: no more is refunded and restocked than was bought, and only once.
- *events*: what was published and can be reported is reported, at least once.
- *billing*: access follows the periods that were bought.
- *carts*: an addition is not lost, prices stay as they were, one currency.
- *settings and quotes*: the parts of a quote add up; redemptions are not lost.
- *catalogue*: what is on sale can be bought, links and options are those that
  were asked for, images exist, categories form a tree.
- *authz*: a role that was taken away stops admitting soon.
- *migrator*: the recorded versions are those in effect, without gaps.

The hazards behind these properties are listed in `PROJECT.json`, each at its
line.

## 2. The modules

### StockOps and Stock

A level is a record with `onHand` and `reserved`. `Apply` and `Allowed` say what
a movement does and when the closure passed to `mutate` or `mutateBulk` lets it
through; the last conjunct of `Allowed` is the width of the INTEGER columns.
`StockOps` is shared by `Stock` and `Orders`.

In `Stock`, `item` is `stock_items`, `ledger` is `stock_movements`, `patch` holds
the row each PATCH request has read. A locked transaction is one action: the
rows stay locked from the first read to the commit, so nothing can be seen in
between. A bulk request is a function from SKUs to quantities (`mergeLines`
folds repeated SKUs). PATCH is two actions, as the code reads with one statement
and writes the whole row with another. Delete removes the ledger with the row
(`ON DELETE CASCADE`). `reorder` stands for all metadata of a row.

### Orders

One action per statement or call of Checkout, Pay, Fulfil and Cancel, and of the
part of returns' Resolve that writes the order's row; `pc[h]` is
the next step of request `h`, `seen[h]` the row it loaded, `answer[h]` what
payment-service told it. `Start*` actions are the loads; `Mark*`, `Create`,
`AttachPayment`, `Redeem` are the statements; `Reserve`, `Release`, `Ship`,
`Settle`, `PayAnswered`, `ClearCart` are the calls; `Publish*` ends a request.

- inventory-service is the level of one SKU and, per order, the movements that
  reference it; `Stock` shows why a bulk call may be taken as one movement.
  `AdjustStock` is the manager who counts stock meanwhile.
- payment-service is any answer to create and sync, success or failure of
  settle and refund, and `refunds`, the kinds of refunds it has made per order.
  A refund may be made although its answer is lost.
- An accepted return of a FULFILLED order (`StartReturn`, `RefundReturn`,
  `MarkReturned`, `Restock`) is the other writer of the payment mirror: it marks
  the order REFUNDED beside the order's own handlers. An order may have several
  returns. The table `returns`, amounts and quantities are the subject of `Returns`;
  the restock changes the level, but references the return, not the order.
- `Abandon` stops a request before any step: a crash, a client whose
  disconnection cancels the request context, or a call whose error is returned.
  As it may come after a call took effect, it also covers a lost answer. Errors
  the code drops (`_ =`) are a choice inside the step, under `CallMayFail`.
- Idempotency-Keys are those of one customer; a request that finds its key taken
  changes nothing and needs no action.
- Left out: line items, addresses, amounts; the `FAILED` payment status, which
  is declared but never written.

`RefundsFollowRelease` is about all writers of the mirror: REFUNDED stands for a
refund that was made, whatever made it (`MirrorFollowsRefunds`); that of a
cancellation is made after the stock went back, and by one request at a time; that
of a return only for a FULFILLED order.

### Payments

`row` is table `payments` by order, `stripe` and `sent` what Stripe knows and has
said, `disclosed` the intents whose client secret has reached a customer: only
the answer to a create carries it. A request reads its row when it starts
(`Begin`), may call the gateway (`CreateIntent`, `GetIntent`, `Refund`), writes
the whole row (`Insert`, `Save`) and publishes (`Tell`, which may fail). Webhooks
are delivered any number of times and in any order; a delivery is a request of
its own. The stub gateway, whose intents are paid at once, is the other value of
`gateway`. A request that finds the wrong status changes nothing and has no
action.

`PaidIsNoticed`: the row of an intent that succeeded becomes CAPTURED, or later
REFUNDED, for good. Intents with a `payment_failed` event are excepted: the code
marks the payment FAILED and then ignores the success (section 4, item 11), and
without the exception TLC finds the property violated.

### StockLocks

`Stock` takes a movement of several SKUs as one step. `StockLocks` does not: a
transaction locks its rows one after the other (`LockLine`), works on its own
versions (`work`) and commits or rolls back; a DELETE waits for the lock.
`LocksImplementStock` states that the committed rows behave as in `Stock`
(`INSTANCE Stock`, without PATCH requests): every step that changes them is a step
of `Stock`, every other one a stutter. A SKU has several spellings because the
column is CITEXT; the order of the locks is the byte order that `mergeLines` sorts
by, and `DeadlockDetected` is what PostgreSQL does about a cycle.

### Cart, Settings, Returns, Subscriptions

One action per statement or call of a request, as in `Orders`. What another
service answers is open (`Cart`: prices and stock) or composed where the property
is about it (`Returns`: payment-service's Refund, Stripe, and the restock of
inventory-service, with answers that get lost).

- `Cart`: `active` and `lines` are the tables (`lines` a set of rows; their ids are
  their order of creation), `line` and `listed` what a request has read. `AddItem`
  writes the sum of what it read and what was asked.
- `Settings`: `edit` is a PATCH between read and write, `quote` a quote between its
  three reads. Discount, shipping and tax are the code's integer arithmetic on
  amounts in cents; `RoundDiv` is its rounding.
- `Returns`: `desk` is a resolution in progress, `contested` the returns two of them
  have overlapped on, or one of which stopped half way.
- `Subscriptions`: `clock` is the time; nothing ever sets a subscription EXPIRED.

### Products, Taxonomy, CategoryTree, Showcase

The management requests of product-service on one product: activation and default
variant (`Products`), links, options and specs against categories and attributes
that are deleted meanwhile (`Taxonomy`, with the cascading foreign keys), the
parents of categories (`CategoryTree`), images in the table and in the bucket, and
reviews (`Showcase`). Each keeps the set of requests that another one has overtaken
(`overlapped`, `disturbed`, `outdated`, `crossed`): a history the properties refer
to, which no guard reads.

### Access and Migrations

`Access` is a token's way through `RequireTenantRole`, with the cache lookup, the
call and the store as steps, a clock and a role that changes. `Migrations` is two
runs of the migrator, each working on the versions it read at its start (`todo`: the
ones it has still to come to, in the order of their numbers, backwards for "down"),
with one transaction per file. Both are copied into the services; the copies are the same.

### Delivery

One consumer group on both topics: `committed` is Kafka's offset, `fetched` where
the reader is, `msg` the message in hand with its attempt. `InsertNotification` is
the handler of notification-service, `LookupRecipient`, `SendMail` and `LogMail`
that of mail-service; every one may fail, with or without having taken effect.
`Crash` and `Shutdown` lose the message in hand; what a shutdown does to the commit
that follows is open, because the code commits with a cancelled context.

- *Configuration.* `live` says whether mail-service has an SMTP relay; the stub
  reports success and sends nothing (mail-service smtp.go:43-53), so `SendMail` then
  adds no mail to the inbox. `users` says whether user-management is configured.
- *Events.* The publishers of this repository publish "good" ones. The consumers
  must live with others: `Fetch` commits an envelope that does not parse at once
  (events.go:147-152), as it does a type the service does not know;
  `LookupRecipient` lets an event pass whose payload names no customer, or any one
  without user-management (mail eventhandler.go:56-64); `InsertNotification` fails on
  an unreadable payload and `Panic`s on a tenant_id that is not a UUID.
- *Properties.* `Reports` counts how often the shopper was told: a row in the app, a
  mail that arrived, or, with the stub, a mail that was only logged. `Over` is about
  the events that can be reported (`Reportable`), and only with a relay a SENT row
  stands for a mail.

## 3. The runs

| run | instance | shows |
|---|---|---|
| `stock` | 2 SKUs, 1 PATCH request, quantities -1, 1, 2, 2 movements per SKU, column width 2 | types, bounds, and that only a stale PATCH changes a quantity without a movement |
| `stock_ledger` | 2 SKUs, no PATCH, 4 movements per SKU, width 3 | the ledger replays to the row |
| `stock_patch` | 1 SKU, 1 PATCH | *violation*: a quantity change without a movement |
| `orders` | 1 order, 2 requests, 1 key, returns, crashes, failed calls, stock counts, units held by others (383,874 states) | all safety properties and the inductive invariant |
| `orders_checkouts` | 4 order ids, 3 requests, 1 key, coupon limit 1, stock for two orders | leaks and the coupon limit when checkouts compete |
| `orders_live` | 1 order, 2 requests, no failures, fair | cancelled and fulfilled orders settle, requests end |
| `orders_unwritten` | 1 order, failing calls | *violation*: a reservation without an order |
| `orders_unshipped` | 1 order, crashes | *violation*: FULFILLED and not shipped |
| `payments` | 1 order, 2 intents, 2 requests, amount 2, both gateways, crashes, fair | all safety properties and that a payment made at the first attempt is noticed for good |
| `payments_refunds` | as `payments`, Stripe only, no crashes | *violation*: a refund the row does not count |
| `shop` | eleven components, followed one at a time, with 2 requests each | see below |
| `delivery` | topics of 2 events and 1 event, good or malformed in every way, either group, with and without relay and user-management, one stop and any number of panics, at most 2 copies of an effect, fair (227,084 states) | no event that can be reported is passed over or repeated after its commit, and none is stuck while the relay answers and nothing panics for good |

**Run `shop`.** The eleven modules share no variable: each represents the others by
what they may answer. `MCShop` puts them into one state space with `part`, the
component a behaviour follows; the others stay in their initial state. So one run
checks each of them exhaustively, and no property is about two of them at once.
They share two ids and two requests, which are symmetric. The instances:

| part | instance | shows |
|---|---|---|
| locks | 2 SKUs in 2 spellings, 2 transactions, 2 movements per SKU | `LocksImplementStock`; `DeadlocksAreRespellings`: requests that spell SKUs alike never deadlock |
| cart | 2 SKUs, 2 offers in 2 currencies, quantities 1 and 2, 2 requests, 2 lines over time | `OnlyOverlapsSpoilCarts`: an addition is lost, or a second currency gets in, only if another request changed the cart in between |
| settings | 1 rate, 1 coupon, 2 managers, 1 shopper, 2 days, subtotal 11.99, tax 8.75 % on top or included, 15 % or 12.00 off | `QuotesAddUp`; `OnlyOverlapsRevertSettings`: redemptions are never put back |
| returns | 2 returns of a unit each, captured 2, refund overrides 2, 2 resolutions, card, cash or no payment | `CompletedReturnsAreDone`; `OnlyOverlapsRepeatReturns` |
| subscriptions | 2 subscriptions over 3 moments, month and year | `AccessFollowsPeriods` |
| products | 1 product, 2 variants, 2 requests | `OnlyOverlapsSpoilProducts`: on sale with nothing to buy only by an overlap, or by deleting the last variant, which the code does not prevent |
| taxonomy | 2 categories, 1 attribute with 1 value, 1 product with a variant | `OnlyOverlapsMisplaceProducts` |
| tree | 3 categories, 2 requests | `OnlyDescendantsCloseCircles` |
| showcase | 2 images at 2 positions, 2 customers, 2 requests | `OnlyOverlapsBreakImages` |
| access | 5 moments, cache for 2, call for 1, 2 requests | `OnlyRecentRolesAdmit` |
| migrations | 3 files, 2 runs | `OnlyOverlapsLeaveGaps` |

Most of these read: the code goes wrong in this way *only if* requests overlap. They
say as much about the sequential code (a mutant breaks it without any overlap) as
about where a lock or a conditional update would be needed. `ShopTypeOK` is the
type invariant of the part that is followed.

**Why the bounds are enough.** The properties relate at most two requests on one
order: every overtaking needs one request that has read and one that writes. Two
orders touch only through the shared level, the key and the coupon; that is what
`orders_checkouts` is for, with stock for fewer orders than checkouts, a key for
two of them and a limit of one. Quantities 1 and 2 against a width of 2 reach
every guard from both sides. Amount 2 has a partial refund, a second one that
completes it, and one too many. The invariants and action properties are
proved for all sizes, so the bounds matter only for liveness and for the
violations.

**Bounds that are part of a model.** `MaxMoves` (ledger entries per SKU), `Intent`
(PaymentIntents Stripe may create; a request that finds none left fails as if the
gateway had), `IdLeft` (a checkout starts only if an unused order id is left),
`MaxInt`, and `told`, which counts up to 2 in `Orders`. In the other modules:
`MaxLines` and `MaxUnits` (`Cart`), `MaxRedeemed` (`Settings`), `MaxReturned` and
`MaxRestocks` (`Returns`), `MaxTime` (`Subscriptions`), `MaxMoment` (`Access`),
`MaxStops` and `MaxCopies` (`Delivery`), and the finite sets of ids: a row that has
been deleted does not get its id back. Two requests are enough to overtake each
other; three nodes are enough for a circle that is not a swap; three files for a gap
between versions; one stop after two events for a redelivery.

**Deadlock** is checked in the runs of `Stock`, `Orders` and `Payments`, where a
request can always start or be answered. It is not checked in `shop` and
`delivery`, whose time and ids run out. Deadlocks of the code's own, those of row
locks, are states of `StockLocks` and subject of a property.

**Fairness.** `Orders!FairSpec`: a request that has started goes on, since every
client in the code has a timeout and every handler ends. It is used without
failures, because with them the properties are false (see `orders_unshipped`);
`FulfilShips` and `CancelReleases` hold of the code only as long as nothing stops.
`Payments!FairSpec`: requests go on; Stripe repeats the `succeeded` event until it
is acknowledged, so its delivery is strongly fair; and not every attempt to write
the row meets a crash, so `Save` is strongly fair too. Crashes are allowed.
`DeliverySpec`: the consumer goes on with the steps that end by themselves
(`OwnStep`): Kafka and the database answer or the connection breaks, and the client
of user-management has a timeout of 5 s. Handing a mail to a relay is not among them:
`smtp.SendMail` has no deadline and the sender ignores its context. A process that is
down is started again (`restart: unless-stopped` in `deployments/compose`).
`EventsGetThrough` therefore has two premises: no send hangs for good (`RelayAnswers`)
and no event makes the handler panic (`NothingPanics`); without either one TLC finds
it violated. Errors need no premise, because handlers are given up after the third
failure; crashes and shutdowns are finitely many.

**Mutants.** Each property of a passing run has a mutant, defined beside the
definition it replaces (`CancellableAnytime`, `ClashAnswersOwn`, ...): the change a
plausible bug would make, under which TLC finds the property violated.

## 4. Where code and documents disagree

1. **PATCH undoes movements** (`stock_patch`). `Service.Update` reads the row
   without a lock and writes on_hand and reserved back with the metadata; a
   movement committed in between is lost from the row.
   `OnlyStalePatchSkipsLedger` shows it is the only way.
2. **A reservation without an order** (`orders_unwritten`). The compensating
   release runs on the request's context and its error is dropped.
   `NothingLeaks` shows that without failed calls the promise is kept.
3. **FULFILLED and not shipped** (`orders_unshipped`). The status is written
   before the call that ships, and no request can repeat the call.
4. **A refund that is not counted** (`payments_refunds`). Overlapping partial
   refunds read the same refunded_cents. `MoneyBacked` shows the error is on one
   side only: the row never counts a refund that was not made.

Met while reading, and stated here because no run has a property of its own for
them. Where a model shows one, it is named.

5. **Circles of categories** (`CategoryTree`). "a category cannot be its own
   ancestor" is the message of `ErrParentCycle`, but the code compares the new parent
   with the category itself only. `OnlyDescendantsCloseCircles` says by which moves a
   circle arises. The comment that an empty `parent_id` clears the parent
   (category/dto/dto.go:22) meets a binding that refuses the empty string.
6. **Cancelled subscriptions** (`Subscriptions`). "Access continues until the end of
   the paid period" (billing/services/service.go:59-60); the entitlement looks for an
   ACTIVE subscription, so access ends with the cancellation. And as nothing sets a
   subscription EXPIRED, an ACTIVE one whose period is over still refuses a new one.
7. **Activation** (`Products`). "a product needs at least one variant before it can be
   activated" holds at activation; deleting the last variant later is not refused.
8. **Returned quantities** (`Returns`). Each return is compared with the order line
   only, so several returns together may ask for more than was bought; what limits
   the refunds is the captured amount (`CompletedReturnsAreDone`). A partial refund
   makes the order's payment REFUNDED.
9. **Lock order** (`StockLocks`). "in sku order, to avoid deadlocks" is the byte order
   of the request's spelling, on a column that ignores case
   (`DeadlocksAreRespellings`).
10. **Captured after cancelling** (`Orders`). A Pay that captures the card while a
    Cancel is under way is not refunded by that Cancel, which decides with the payment
    status it loaded first; repository README:318 promises the refund.
11. **Paid after a failure** (`Payments`). `payment_failed` makes the payment FAILED,
    and `HandleWebhook` and Sync act on PENDING payments only, so an intent that is paid
    with another card afterwards is never noticed (payment services/service.go:194-207).
    `PaidIsNoticed` excepts exactly this.
12. **Poison messages** (`Delivery`). "so one poison message can't stall the group"
    (events.go:104-106) holds of handlers that return errors. A tenant_id that is not a
    UUID makes `uuid.MustParse` panic in notification-service's consumer
    (notification services/service.go:42), and the restarted process fetches the event
    again. The publishers of this repository send UUIDs; another producer need not.
13. **A relay that does not answer** (`Delivery`). The mail sender ignores its context and
    sets no deadline (smtp.go:66-74); a relay that keeps the connection open stops the
    group, which three attempts and a skip do not prevent.
14. **SENT without a mail** (`Delivery`). With the stub, which the repository README
    describes, the mail log says SENT and nothing is sent. Without user-management, or
    for a payload without a customer, the event is committed with neither mail nor row.

## 5. The proofs

Every safety invariant and every action property of a passing run is stated by a
theorem, for any number of orders, SKUs, requests, messages and amounts; so is the
one refinement.

**Assumptions.** Those named in the modules (`MaxIntAssumption`, `StockAssumption`,
`OrdersAssumption` and so on, one per module), and evaluated by the runs: ranges of
the parameters, and that markers ("no row", "no request", "keep") are not values.
Finite are the SKUs of `StockLocks`, since a bulk request is sorted into a sequence,
and the files of `Migrations`. Three theorems assume more and say so:
`LedgerIsComplete` (no PATCH requests), `NoStockLeaks` and `CouponOverrunIsBounded`
(no failures, `Faults = {}`). The first two are exactly what the findings say must be
assumed. These last two and `OrdersAndInventoryAgree` count, so orders or requests are
finitely many.

**Stock_proofs.** `StockInvariant` is inductive with `TypeOK` because the snapshot
of a PATCH is part of it: without the second conjunct a stale write could put any
numbers into a row. `Move` is the one action that changes quantities; lemmas about
`Apply` and `Allowed` carry it.

**StockLocks_proofs.** `LocksImplementStock` needs to know that a committing
transaction writes a movement applied to what is committed *now*. `LocksInv` says so:
a transaction holds the locks of exactly the rows it has written (`LocksHeld`), the
versions it has written are the movement applied to the committed rows
(`VersionsCurrent`: nobody else changes a locked row), and the lines to come are
lines of the request, in lock order (`LinesToCome`). Then the steps of the locks are
stutters of `Stock`, but for the commit, which is one bulk movement, and the statements
that create or delete a row. The refinement does not say that the movement is the one
asked for; `MovementsAreWhole` does, with `NothingSkipped` (every line is written or
still to come, because a lock order contains all lines). The order of the locks gives
`DeadlocksAreRespellings`: if every SKU has one spelling, a waiting transaction asks
for a spelling behind all it holds, and a circle would have no last one.

**Orders_proofs.** None of the safety properties is inductive alone: that stock is
not released twice depends on which request may still be about to release it. The
invariant `OrderPhases` says, for every order, which movements and events its
status allows (`OrderAt`); for every request, what its step knows of its order
(`HandlerAt`); and which steps two requests are never at together for one order
(`Compatible`). The conditional updates are what moves a request into an exclusive
group: whoever changed the status to CANCELLED is the one who releases. The proof
has one lemma per action. A return does not enter these groups: several may be
resolved at once, and all that its steps know is that a FULFILLED order stays
FULFILLED (`Resolving`). `RefundsFollowRelease` adds `MirrorFollowsRefunds`: whoever is
about to mark an order REFUNDED has heard of the refund, and refunds are never undone. `OrdersAndInventoryAgree` adds the cardinality of the set
of orders that hold units. `NoStockLeaks` adds `LeakFree`: units of an order that has
ended belong to a request that is about to ship or release them, and without failures
it gets there. `CouponOverrunIsBounded` counts (`CouponInv`): below the limit, the
orders that got the coupon are the redemptions counted plus the checkouts about to
count theirs; from then on no further checkout becomes entitled.

**Payments_proofs.** The invariant `PaymentPhases` says what an intent can be
(`IntentPhase`: a paid intent was disclosed, a disclosed intent is the one its row
keeps), that every payment a request may write is backed by Stripe (`Sound`, kept
because Stripe only moves forward: lemma `StaysSound`), and that what a request
writes is a version of the payment in the row (`SamePayment`). A stale write is
therefore never a false one. `OnlyStaleRequestsRegress` adds that what a request
writes follows what it has read (`Snapshots`).

**Returns_proofs.** `MoneyInv` bounds what was paid back by what was captured, and the
row by what was paid back; it is kept only with `WorkInv`, what a resolution knows at
each of its steps (its copy of the payment row may be old, but old rows count less).
`DoneInv` is the property itself; `OnceInv` says how far an *uncontested* return has
got, from which "only overlaps repeat" follows. Sums are recursive functions on the
naturals; the facts about them rest on an induction over a set of numbers
(`EveryNumber`, by its least element), as do those about minima in the other modules.

**Guards_proofs.** `SubsInv`: a user has one ACTIVE subscription (`OneActive`), all
periods have begun, and an access that is missing within a period was cancelled
(`OnlyRecalledEnd`). `AccessInv` dates everything the cache can hold: an answer in
flight was true at most `Timeout` ago (`AnswersRecent`), an entry expires at most
`Ttl + Timeout` after it was true (`EntryRecent`).

**Delivery_proofs.** `OverInv` is the heart: every message below the committed offset,
and every one below the reader's except the one in hand, is handled or given up.
It needs `HandInv` (the message in hand is the last one fetched, and not committed),
`ReachInv` (what was reported was fetched, or the consumer has been stopped since),
`OrderInv`, `SentInv` (with a relay, a SENT row has its mail, also between sending and
logging) and `FreshInv` (before any stop, the first attempt meets no report of itself;
`Before` are the steps that come before the report, which with the stub is the log),
which the action property needs. Events that concern nobody are over from the start;
`SameVerdict` says that a message keeps its verdict when others are published.

**Shop_proofs.** Seven components, each with the invariant of its own specification:

| component | inductive invariant | what carries it |
|---|---|---|
| `Settings` | `SettingsInv` | rows satisfy the CHECK constraints; a quote follows from the rows it has read; `AddsUp` is integer arithmetic with `RoundDiv` for every rate and amount |
| `Products` | `ProductsInv` | at most one default variant; a request nobody overlapped acts on the rows as they are (`FreshEdits`) |
| `CategoryTree` | `TreeInv` | a checked parent still exists (`MovesSound`); `Above` is the smallest set closed under parents, so a circle that is new goes through the one edge a move has set |
| `Taxonomy` | `TaxonomyInv` | foreign keys through every cascade (`References`); what an undisturbed request has checked or deleted stands |
| `Showcase` | `ShowcaseInv` | keys are handed out once; a request nobody crossed finds what it saw and did (`JobsSound`) |
| `Cart` | `CartInv` | one line per SKU; what a request is about to write follows from the lines it has read (`Knows`) |
| `Migrations` | `MigrationsInv` | table and schema agree; what a run nobody interleaved with has to do is what the table says (`FreshRun`) |

Its last part is about `MCShop`: `ShopFollowsEach` proves that a behaviour of
`ShopSpec` is a behaviour of each of the eleven specifications (a step of the part that
is followed, a stutter of the others), so all their theorems hold of what the run
checks; `ShopTypesHold` is the first use of it.

**Only model-checked.** The liveness properties of `orders_live`, `payments` and
`delivery`: they rest on fairness, hence on ENABLED, which the prover does not
support. And the four counterexamples, which are what TLC is for.

## 6. What is not modelled, and the plan

**Not modelled.**

- *HTTP plumbing, rate limiter, nginx*: routing, request ids, recovery, and a bucket
  of `golang.org/x/time/rate` per address; no state another part depends on.
- *Start-up and configuration*: no state.
- *The internal POST endpoints* of notification-service and mail-service: one insert,
  one mail, the same code the event handlers call.
- *Templates, the SMTP dialogue, S3, image URLs*: input and output. The bucket's objects
  are modelled (`Showcase`), the mail relay as "took it, refused it, or never answered"
  (`Delivery`).
- *Rebalances*: each group has one consumer, as deployed.
- *user-management*: not in the repository; its answers are in `Access`.
- *Reads* (lists, pages, filters), and the fields nothing depends on.

**Composition.** Each module represents the services it calls by what they may
answer, and the composed ones (`Returns`, `Orders` with inventory-service) by a part
of them. Orders and Payments in one state space is still open: it would show
divergence 10, payments that fail and are paid later, and that payment-service
implements the answers `Orders` assumes.

**Faults no model has**: a COMMIT whose outcome is unknown when an order is created;
a call that takes effect only after its client has given up; managers who release,
ship or PATCH units that orders hold; orders with a total of zero; the client secret
that is lost when Pay stops after attaching the payment, since a later Sync does not
return it.

**Theorems to come.** The properties of the components as theorems of `ShopSpec`, by
`ShopFollowsEach`; that `Payments` implements an abstract account of an order's money
(unpaid, paid once, paid back up to the amount), and `Orders` a reservation that is
taken once and given back or used up once, each shown step by step like
`LocksImplementStock`; and, with the composition above, that the answers `Orders`
assumes are those payment-service gives.
