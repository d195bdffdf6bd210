# A TLA+ model of mapanytime-api

mapanytime-api is the backend of a local marketplace: buyers reserve and order
goods of nearby stores, pay in cash at pickup or through a payment gateway, and
collect them; sellers keep stock, hand goods over, and are settled; field agents,
rewards, campaigns and ads live around that. It is an Express/TypeScript program
over PostgreSQL (Prisma, READ COMMITTED), Redis and an SNS/SQS event bus, run as
several processes: API servers and a worker with its cron jobs and queue consumers.
Little is kept in process memory; what can go wrong is what two requests, a webhook
and a timer do to the same rows.

This directory holds the specification of its core, the TLC configurations that
check it and the TLAPS proofs about it.

    InventoryStock.tla         the stock ledger: inventory rows, holds, sweepers
    OrderLifecycle.tla         orders, payments, webhooks and jobs on top of it
    OrderLifecycleProofs.tla   what is proved about both, and that orders implement the ledger
    SettlementLedger.tla       settlements, returns with refunds, payouts
    RewardWallet.tla           points, vouchers and seller campaigns
    RewardWalletProofs.tla     what is proved about it
    SumTheorems.tla            sums over finite sets
    CashPickup.tla             the pickup code of a cash order and its lock
    PaymentGateway.tla         checkouts over several gateways, webhooks, fees kept
    GatewayRefunds.tla         one refund over every adapter, with lost answers
    Pricing.tla                rate cards, quotes, the rows of an order
    Account.tla                what a money account promises (abstract)
    AgentLedger.tla            commissions of agents, implements Account
    AdBilling.tla              marketing wallet and ad spend, implements Account
    AdSchedule.tla             windows, conflicts and announcements of promotions
    EventBus.tla               publish, consume, batches, runOnce, shutdown
    ViewRankings.tla           view events, daily rollups, rankings
    LiveFleet.tla              live vehicle positions and their sweeper
    StoreApproval.tla          review, edits, deletion and purge of stores
    BackgroundProofs.tla       what is proved about events, rankings, vehicles, reviews of
                               stores, and settlements
    SellerOrganization.tla     staff, store scopes and features
    AdminAccess.tla            admin invitations, grants, review of sellers
    AuthSessions.tla           registration, sign-in, sessions, reset codes
    BuyerData.tla              cart, wishlist, addresses, reviews
    Catalogue.tla              categories and the products under them
    AppReleases.tla            uploads, the one downloadable release, rollbacks
    RateLimiter.tla            attempts counted in Redis and in memory
    MCInventoryStock.tla       TLC instance of the stock ledger
    MCOrderLifecycle.tla       TLC instances of the orders
    MCSettlementLedger.tla     TLC instances of the settlements
    MCRewardWallet.tla         TLC instance of the points
    MCBackgroundJobs.tla       what jobs, sweeps and workers finish, side by side
    JobsProofs.tla             what is proved about commissions, ads, and the whole
    MCPlatform.tla             what requests alone drive, side by side
    AccessProofs.tla           what is proved about accounts, grants, staff, rate limits
                               and releases
    ShopProofs.tla             what is proved about checkouts, prices, carts and lists of
                               shoppers, the catalogue, pickups and refunds
    PlatformProofs.tla         what is proved about the whole
    *.cfg                      one configuration per question

Run one with `tlc -config StockLedger.cfg MCInventoryStock`, check the proofs of a
module with `tlapm RewardWalletProofs.tla`; those of OrderLifecycleProofs,
BackgroundProofs, JobsProofs, AccessProofs and ShopProofs take some minutes each.
PROJECT.json names, for every definition, the source lines it models.

## Inventory of the system

Paths are below `src/src/`.

| Part | State | Operations | What is hard |
|---|---|---|---|
| Stock ledger (`modules/inventory`) | `Inventory.quantityOnHand`, `quantityReserved`; `InventoryReservations` rows; `InventoryMovements` | reserve, release, confirm, claim by order, restock, adjust, TTL sweep | several processes end the same hold; lists read before they are acted on |
| Order lifecycle (`modules/orders`) | `Orders.status`, items, cash pickup code | createOrder, completeOrder, cancelOrder, updateFulfillmentStatus, expireStalePendingOrders, cash pickup | status validated on one read and written by a later statement; gateway calls between transactions |
| Payments (`modules/payments`) | `Payments`, `PaymentWebhookEvents`, fee ledger | processProviderWebhook, refundPaymentOnClosedOrder, initiateOrderPayment, reconciliation job | duplicated, late and reordered events; lost answers; crash between commit and refund |
| Settlements, returns, payouts | `Settlements`, `ReturnRequests`, `Payments`, `SellerPayouts` and their items | create, hold, release after the window, refund, restock, pay out | a return approved while the settlement is being released; crash around the provider refund |
| Gateways (`modules/payments/providers`) | the degradation marks, `Payments.provider`, `providerReference` | failover, webhook verification and parsing, refunds | a session abandoned after a timeout and paid later; lost answers |
| Pricing (`modules/pricing`, `orders/pricing.util.ts`) | pricing configurations with their components | edit, validate, activate, archive; price an order | rounding, boundaries; overlapping activations |
| Rewards, vouchers | points, `RewardClaims`, `claimedCount` | earn, claim, redeem, expire | last voucher, point balance under concurrent claims |
| Seller campaigns | budget and `spentAmount` | apply on completion | read-then-write of the budget |
| Agent commissions | balances, commission rows, payout requests | create, mature, request, approve | balance read then decremented; overlapping jobs |
| Marketing wallet and ads | wallet, transactions, ads with window and budget | deposit, track and charge events, schedule, announce | the same; instants at which a window opens |
| Auth | users, accounts of providers, sessions, reset codes | register, sign in, revoke, request a code, reset | a sign-in that overlaps a reset; guesses that overlap |
| Event bus | SNS topics, SQS queues, once-keys in Redis | publish, consume, batch, runOnce, shut down | at-least-once delivery, crashes, Redis away |
| Scheduler | Redis job locks | withJobLock around each cron job | lock TTL shorter than the job |
| Stores, approvals | status, toggle, claim, documents, audit log | submit, edit, claim, decide, delete, purge | two reviewers, an edit during review |
| Organizations, admin invites | members with role, stores and features; invitations; grants | hire, update, remove, prune; invite, revoke, accept; assign permissions | lists written back from older reads |
| Mobility | live points, GEO index and seen set in Redis, cached driver | ping, suspend, reassign, sweep | a ping racing the sweeper or an admin |
| Cart, wishlist, addresses, reviews | a Redis value, rows, an average | add, remove, set default, review | lost updates, uniqueness with NULL |
| Catalogue | category tree, product categories | file, refile, hide, delete | soft and hard deletion beside filing |
| Analytics | events, daily rollups | record, roll up, rank | late events, an event stored twice |
| App releases, rate limits | one downloadable release; counters in Redis or memory | upload, publish, roll back; count, take back | overlapping publications; Redis comes and goes |
| Notifications, sockets, mail, files, HTTP shell | append-only rows, connections | I/O | little that a model shows |

The parts meet in the database and in three places by call: checkout and every
handler that closes or completes an order call the stock ledger inside their own
transaction; completion creates the settlement, points, incentive and commission
rows; the gateway calls the webhook and is called for sessions and refunds. The
worker's cron jobs run the sweeps beside the requests.

What makes each part correct: the stock ledger never loses or invents a unit; an
order that is closed holds nothing and one that is paid keeps its goods; money is
refunded only if captured, once, and is not kept for an order that is closed; a
settlement is released only for goods that stayed sold; balances are the sum of
their ledgers; a token, a lock, an invite is used once. PROJECT.json lists the
hazards at their lines, with the properties that would catch them.

## InventoryStock

One inventory row per product, one row per reservation.

| Variable | Code |
|---|---|
| `onHand`, `quantityReserved` | the columns of `Inventory` |
| `resv` | `InventoryReservations`: status, inventory, quantity, order, and whether `expiresAt` has passed |
| `stale[s]` | the rows sweeper `s` selected and has not handled |
| `adjusting[a]` | what an `adjust` call read before it writes |
| `movement` | the last `InventoryMovements` row of a confirm or an adjustment |

`ReserveRows` is `tryReserve` with the rows made after it: one UPDATE that tests
availability and increments, so a step of its own. `ClaimRows` is the conditional
claim (`status = RESERVED`) with the decrement of exactly the claimed quantities.
The sweep is three steps: the SELECT, then one transaction per row, or its
failure, which the loop logs and skips. `adjust` is two: it reads the row and
later overwrites the count with an absolute target. The CHECK constraints of the
database make a sale that would go below zero abort. `confirmReservation` is a
service operation no route calls; it is modelled here and does not occur in
OrderLifecycle.

Orders are open in this module: any order may claim its holds or be completed at
any moment, and the sweeper spares any set of orders. This is the abstract
specification; OrderLifecycle implements it, because its own variables and steps
map to it by name (run `order_retries`, property `StockSafety`).

## OrderLifecycle

Every request, delivery and job is an actor with a program counter in `call`. Its
steps are the stretches of its handler between points where another transaction
can come in: a read whose result is used later, a commit, a call to the gateway.

| Actions | Code |
|---|---|
| `CreateOrder`, `CheckoutOpens`, `CheckoutFails` | `createOrder`: the transaction, then the gateway call and its catch block |
| `DeliveryStart/Read/Success/Failure` | `processProviderWebhook`: the processed check, the read in the transaction, the writes |
| `LateRefundClaim`, `GatewayRefund`, `LateRefundRecord`, `RefundFailed` | `refundPaymentOnClosedOrder` |
| `DeliveryCrash` | the process dies while it handles a delivery |
| `CancelRead/Mark/Recheck/Commit` | `cancelOrder`: reads, refund intent, provider refund, re-validation, writes |
| `CompleteRead/Commit/Abort` | `completeOrder` and `completeOrderInternal` |
| `UpdateRead/Write` | `updateFulfillmentStatus` |
| `InitiateRead/Open/Save` | `initiateOrderPayment`: a payment tried again |
| `Age`, `SweepOrdersRead`, `SweepOrder`, `SweepOrderFails` | `expireStalePendingOrders` |
| `ReconcileRead/Lookup/Apply` | the payment reconciliation job |
| `ClientReserve`, `ClientRelease`, `HoldLapses`, `HoldSweepRead/Claim` | the reservation endpoints and the reservation sweeper, as steps of InventoryStock |
| `Pay`, `DeclinePayment`, `GatewayRefund` | the gateway (external): sessions, captures, events, refunds |

Abstractions. Amounts, vouchers, discounts and tax are left out: no property here
depends on a price. The ledgers a completion writes (settlement, points,
incentives, commission), all idempotent on the order, are one flag `booked`; the
gateway fee of a refund is one flag `feeKept`. An order line is named by the hold
checkout made for it. A session that fails on the primary gateway and on its
fallback is one failure. The two reads `cancelOrder` makes before it acts, of the
order and of its payment, are one step, and so are the order read and write of a
failure event, which are adjacent statements of one transaction. Restock and
adjust occur only in InventoryStock. The cash pickup code and its Redis lock are in
CashPickup, the choice of a gateway in PaymentGateway and the adapters' refunds in
GatewayRefunds.

## SettlementLedger

What the platform owes the seller from the completion of an order on, and what
takes it back. Requests have a program counter in `call`, as above; most of these
services run outside a transaction, so a step ends after nearly every statement.
An actor serves any number of requests, one at a time.

| Variable | Code |
|---|---|
| `now` | the day, against which both windows are tested |
| `method`, `completions`, `completedAt` | the order: how it is paid, how often it was completed, when last |
| `payment`, `refunded`, `feeKept` | `Payments.status`, whether `refundedAmount` is the whole amount, the fee row of the refund |
| `settlement`, `eligibleAt` | `Settlements.status` (`NONE`: no row), `releaseEligibleAt` |
| `returns` | the `ReturnRequests` rows |
| `payouts` | the `SellerPayouts` rows: their items and `totalAmount` |
| `restocks` | how often the goods of the order went back on the shelf |
| `refundsSent` | gateway: the refunds it made |
| `due` | what a release job has selected and not yet written |

| Actions | Code |
|---|---|
| `CompleteOrder` | `createForCompletedOrder` in the completing transaction; a second completion renews `completedAt` and finds the settlement there |
| `OpenRead/Write` | `createReturnRequest`: the checks on one read, then the insert |
| `DecideRead/Hold/Write/Free` | `updateReturnStatus`: the transition check, `holdForOrder` on approval, the write, and the settlement freed on rejection |
| `RefundLoad/Mark/Restore/Commit`, `GatewayRefund` | `executeRefund`: the payment read, REFUND_PENDING, the provider, its catch block, the closing transaction with `markRefundedForOrder` and `restockReturnedItems` |
| `DecideCrash` | the process dies between two statements of a decision |
| `ReleaseRead/Write` | `releaseMaturedSettlements`: the SELECT, then the conditional `updateMany` |
| `PayoutRead/Write` | `createPayout`: the sweep and the test of the total, then the insert, which the unique index on `settlementId` may abort |
| `SettlementEditRead/Write` | `updateSettlementStatus`: the test for a payout item, then the write |

Abstractions. All orders are of one seller. A gateway order owes him `SellerNet`, a
cash order has him owe `Commission`. A return is refunded in full, which is what
`createReturnRequest` asks for, so the partial refunds that `executeRefund` could
record do not occur. A gateway payment has its provider reference and an adapter
that can refund. A completion is one step, as its transaction is; how its races go
is OrderLifecycle's subject. The status of a payout is a label that only
`updatePayoutStatus` reads and is left out, and so are authorisation and
`totalSold`. A request that is refused by a check changes nothing and is no step.

## RewardWallet

The points a buyer earns and spends. Each service runs in a transaction at READ
COMMITTED, so a request is two steps: its plain reads, and its writes with the
commit, where the conditions of an UPDATE, unique keys and CHECK constraints are
tested.

| Variable | Code |
|---|---|
| `wallet` | `RewardWallet`: balance, lifetimeEarned, lifetimeSpent |
| `earned`, `bonus`, `expired` | the EARN, BONUS and EXPIRED `RewardTransactions` of an order's lot; `bonus` is also the `SellerCampaignTransactions` row |
| `lapsed` | `expiresAt` of the lot has passed |
| `campaign` | `SellerCampaigns`: status, budgetAmount, spentAmount |
| `claimed`, `held` | `RewardVouchers.claimedCount`, the `UserVouchers` rows |
| `applied` | the voucher the order of a checkout was discounted with |
| `lots` | what an expiry sweep has read |

| Actions | Code |
|---|---|
| `CompleteRead/Commit/Abort` | `awardPointsForCompletedOrder` and `processOrderCampaignIncentive` in the completing transaction |
| `CreateCampaign`, `EditRead/Write` | `createCampaign`, `updateCampaign` |
| `ClaimRead/Write` | `claimVoucher`: the stock test, then the conditional decrement |
| `CheckoutRead/Write` | `validateVoucherForOrder`, `markVoucherUsed` |
| `ExpireRead`, `ExpireLotRead/Write` | `expireOldPoints`: the lists, then one transaction per lot |
| `VoucherLapses`, `ExpireStaleVouchers`, `LotLapses` | time, and the one-statement voucher sweep |

`Blocks` stands for the row locks: completions of one order, and of one buyer when
both award points, follow each other from before their campaign read, so only
completions of different wallets, or with nothing to award, can read the same
budget. Amounts are whole points and a point costs a campaign `PointValue`; the
rounding that makes a price into points happens once, before, and is a constant, and
so is what a campaign grants for an order (its type, `bonusPoints` and
`maxRewardPoints`). Dates, stores and minimum orders of campaigns are left out, and
so are the admin's configuration rows.

## CashPickup

The confirmation of one cash order at the counter. Every Redis command is a step.

| Variable | Code |
|---|---|
| `pickup` | `Orders.status`: READY_FOR_PICKUP or COMPLETED |
| `code`, `lockHolder` | the Redis values `cashPickupCodeKey` and `cashPickupLockKey` |
| `confirm` | the progress of `confirmCashPickup` requests |
| `drawn` | the codes that requests of `generateCashPickupCode` have drawn |
| `shown`, `spent`, `crossed`, `lapsed` | ghosts: codes stored, completions by code, codes asked for before a confirmation had ended and not stored when it consumed the order's code, whether a lock ended over its holder |

`GenerateRead` and `GenerateWrite` are `generateCashPickupCode`, which reads the order
without the lock and stores the code later; `Lock`, `Compare`, `Consume`,
`CompletePickup` and `Unlock` are the statements of `confirmCashPickup` up to its
`finally`; `CodeExpires` and `LockExpires` are the TTLs, `ConfirmerDies` a process
that never reaches the `finally`. The lock is deleted by key, whoever holds it, so
`OneConfirmationInside`, `CodeSpentOnce` and `OneHandover` except the behaviours in which
it lapsed: with a lapse the program does let two confirmations in, which the model
contains. `RedeemedCodesAreDead` holds in any case: a code that completed the order is not
stored any more. `OneHandover` is about several codes: a completion accepts an order that
is COMPLETED already, so only the status test of `generateCashPickupCode` keeps a second
code away, and a request that passed it before a confirmation ended and stored its code
after the consumption (a code in `crossed`) opens the order to a second completion. The
exception is made for such codes only; any other second code must not complete the order.

## PaymentGateway and GatewayRefunds

PaymentGateway follows one order through `createCheckoutSessionWithFailover`, the
adapters and the webhook.

| Variable | Code |
|---|---|
| `env` | the secret keys and webhook secrets that are configured, and NODE_ENV |
| `gwClock`, `degraded` | time, in degradation windows, and `degradedGateways` |
| `checkout`, `session` | the calls, and at the gateways the sessions they opened |
| `notices`, `handled` | events the gateways deliver, and `PaymentWebhookEvents` |
| `payRow`, `payOrder` | the order's latest payment, its status |
| `refundedPart`, `keptFee`, `feeCall` | what refunds returned, the fee ledger rows, transactions that record a refund |

`CheckoutBegins`, `GatewayAnswers` and `GatewayFails` are the choice of a gateway,
its call and the failover (a gateway may fail after it opened the session, which a
buyer may still pay); `Deliver` is verification, parsing, de-duplication and
`processProviderWebhook` in one step, since its interleavings are OrderLifecycle's;
`ReturnPage` is what the buyer's browser is shown. `FeeRead` and `FeeWrite` are
`recordGatewayFeeKeptOnRefund` with its rounding. Signatures are modelled by what
is hashed: PayMongo's adapter hashes the raw body as JSON of a Buffer, so genuine
events of that gateway are refused (`DeliverRefused`). `UnsignedWebhook` is a call that no
gateway signed and that verifies: at the mock outside production (`MockVerifies`), and at
PayMongo's adapter where its webhook secret is missing (`NoSecretVerifies`), because it
takes '' for the secret (`paymongo.provider.ts:105`) while Xendit's (146) and Stripe's
(88) refuse. Nothing in `config.ts` requires the secret, so `CompletedMeansPaid` and
`PaidPageMeansPaid` are stated for production with the secret set (`SecretsAreSet`); an
unsigned event is taken to have a key of its own.

GatewayRefunds sends one captured payment back through the adapter of each
gateway: the kind of reference a webhook stores (`stored`) against what a refund
interface accepts, Xendit's lookup of a session, Stripe's idempotency key
(`keyed`), answers that are lost, refunds that bounce, deaths of the process, and
overlapping requests. `asking` is their progress, `made` the refunds the gateway
made. `cancelOrder` and `executeRefund` read and mark apart; the late-payment refund
claims in one statement.

## Pricing

| Variable | Code |
|---|---|
| `card` | `PricingConfigurations` with their components: status, window, policy, list |
| `cardCall` | validations, activations and archivings in progress |
| `quoting`, `quote` | a `calculateOrderPricing` that has read its configuration, its result |

The engine is a set of operators in integer centavos: `GrossUp`, `ClampFee`,
`Matching`, `GatewayCost`, `BuyerPlatformFee`, `SellerCommission`, `PriceWith`,
then `OrderCharges` (the ledger rows of `saveOrderPricing`), `OrderRow` and
`SettlementRow`. The actions are `EditCard`, `CardWindow`, `CardBegins`, `ValidateCard`,
`ArchiveOthers` and `PromoteCard` (an activation is two statements), `ArchiveRead/Write`,
and `ReadCard`, `PriceOrder`, `PriceFallback`. The dates of a card are the phase of its
window: waiting (`effectiveFrom` is to come), open, or closed (`effectiveUntil` has passed
or lies before `effectiveFrom`, the two window errors of the validation). A waiting card is
not live, passes the validation and, when activated, retires the live one; orders are then
priced at the built-in rates until it begins. They are, too, when reading the card fails
(`PriceFallback`). `NoSilentFallback` says that a live card gives way to none only like
this: its window or its successor's is waiting or has closed (`OutOfWindow`), or requests
overlapped. Binary floating point is not modelled:
`toFixed(2)` is rounding to the nearest centavo.

## Account, AgentLedger and AdBilling

Account is the abstract specification of a balance: what was credited less what
was spent, totals that only grow, and a bound `-Slack` below which concurrent
debits cannot take it. Two components implement it under a refinement mapping.

AgentLedger: `agentAccount` (pending, available, lifetime totals), `commission`
(the SALE_COMMISSION row of an order), `agentPayout`, `rateConfigs`, the progress of
requests and of the maturation job. `CreditRead/Write` runs in the completing
transaction, `MatureStart/Read/Write/Fail` is the job: its list, then a transaction per row,
`RequestRead/Write` and `ApproveRead/Write` are the payout endpoints,
`RatesRead/Write` a new configuration. The payout request tests the balance it
read and decrements without a condition: the mapping shows the available balance
is an account with Slack (number of payout requests - 1) times the largest amount.

AdBilling: `adWallet`, `depositRows`, `spendRows`, `adSpent`, `adActive`. Nothing
runs in a transaction, so `TrackRead`, `ChargeRead`, `ChargeWrite`,
`ChargeRecord` and `TrackCount` are the statements of `trackEvent`, and
`RequestDies` may come between any two. The wallet is an account with Slack
(number of trackers - 1) times the dearest event.

## AdSchedule, EventBus, ViewRankings, LiveFleet

AdSchedule: `adRow` with its window, its product links and `lastNotifiedState`, edits that
check for conflicts and write later, and the sweep (`SweepAds`, `PublishTransition`,
`MarkNotified`, `SweepDies`). An update checks its new window against its new products and
writes them in two statements, `AdUpdateWrite` and `ReplaceAdProducts`; `EditFails` is a
failure or a death before any of the writes. `adUnsure` holds the ads whose window and
products no check has seen together with the others as they are: those last written by a
request that was checked while another was under way, and those whose update stopped
between its two writes. `PublishTransition` may fail, which the sweep does not look at:
`adLost` holds the ads whose last announcement was lost so, or was published by a worker
that died before it recorded it. `DeriveAdState` is the state shown, `LiveWindowFilter`
the filter of the query; time is in units of five minutes, the shortest window. All ads
are discount promotions; a change of their kind is left out.

EventBus: `queued` is where an event is and how often it was received; `Publish`
and `PublishMany` (an entry may be reported failed), `MailReceive`, `Claim`,
`SendMail`, `MarkDone` with `runOnce` and its Redis key, `BatchReceive/Write/Delete`
of the analytics consumer, `VisibilityTimeout` and `Redrive` of SQS, `RedisDrops`,
`WorkerDies`, `SigTerm` and `ShutdownEnds`. `RecordFacts` is the fallback that writes
rows itself when publishing failed. `slips` counts, by event, what costs
`runOnce` its record: Redis away, a key that lapses, a death between the mail and
the mark. An event's mails are bounded by one plus its slips.

ViewRankings: events stamped by the service, delivered at least once or never,
and the rollup job in the first hour of a day under a lock that lapses. `Aggregate`
counts sessions of views and of clicks, `TrendingScore` and `MostViewedScore` are the
rankings. `cameLate` marks days whose events arrived after their rollup.

LiveFleet: one vehicle. `vehicle` is its row, `driverCache` the 60-second cache,
`point`, `indexed` and `seenAge` the Redis point with its TTL, the GEO member and the
score of the seen set. `PingStart/Lookup/Cache/Read/Put` is `recordLocation`, `FleetEdit`,
`Invalidate` and `DropLive` an admin's change, `SweepList` and `SweepVehicle` the sweeper
whose script re-tests the score. Positions are abstracted to their device time and
whether a jump is plausible.

## StoreApproval

`shop` holds the row (status, toggle, parked toggle, claim, rejection window,
deletion mark, and a version of its content), `shopDocs` and `shopLog` its documents and
audit log, `shopCall` the requests. `TransitionRead/Write` is every transition of the
workflow with its WHERE on the status read, `ShopClaimRead/Write` claiming and forced
claiming, `ShopEditRead/Write` the seller's update that pulls a live store into
review, `PurgeRead/Write` the hourly purge. `MapView`, `DetailView`, `ShelfView` and
`SitemapView` are the four filters by which the public meets a store. `shopRaced`
marks the kinds of write that another transaction overtook.

## SellerOrganization and AdminAccess

SellerOrganization: `member` is `SellerOrganizationMembers` (role, features, stores),
`gone` the deleted stores. A request takes its context when it authenticates
(`Admit`, `OrgContexts`), reads its target and writes later. `Accessible`,
`RouteScope`, `ProductScope` and `MayUse` are the scope tests; `StoreDeleted`,
`PruneRead`, `PruneWrite` and `PruneEnds` are `afterStoreRemoved`. `mixed` marks rows
written from a read another write had overtaken.

AdminAccess: `invite` (status, token, role, expiry), `roles`, `grants` and the review of
one seller. `CreateInviteRead/Write`, `RevokeRead/Write`, `AcceptRead/Commit`,
`ExpireRead/Write`; `ClearRolePermissions` and `AssignPermissions` are the two
statements of `updateRolePermissions`, between which the process may die;
`ReviewRead` and `RecordDecision` decide on a seller.

## AuthSessions

`authUser` is the user with the credential account (status, password, legacy hash),
`linked` the accounts of providers, `sessions` and `codes` the session rows and reset
codes, `photos` and `photoRows` the ID photos in the object store and in the
database. Registration uploads, commits and cleans up (`RegisterRead/Write/Undo`,
`AgentRegister`); a sign-in verifies, creates its session, ends the others and
rehashes a legacy password, each its own statement; a reset retires older codes,
stores one, counts guesses and commits. Better Auth is external and modelled by how
the service uses it. Passwords are values; which hash function made a hash is kept,
its computation is not.

## BuyerData, Catalogue, AppReleases, RateLimiter

BuyerData is four small machines that share nothing. The cart is a Redis value
read and written back whole, with the discount of its items as operators
(`DiscountForAd`, `ItemDiscount`, `BogoQuantity`). A wishlist entry is found, then
created; `wishRaced` is set when a second addition without a variant begins while the
first is between the two, and reset when the rows are gone. Address transactions read the
book and then set defaults. A review is upserted, then the average recomputed from a
separate read; a write that comes between that read and the write of the average marks the
request (`overtaken`), and `reviewRaced` says whether the average in place came from such
a one.

Catalogue: `category` and `article` are the rows, `edit` the requests. A deletion reads
whether anything depends on the category and then hides it or deletes the row, by
which the database clears the references to it. `TotalCount` walks up from the
products as the tree does, `Listing` walks down as the product query does.

AppReleases: `release`, `uploads` (S3 objects, complete or not) and `downloadable`; each
of create, update, set and roll back reads in its transaction and writes later.

RateLimiter: one address and one window. `shared` and `memory` are the counters in
Redis and in the instances, `failing` the stores whose last command failed. A
request is counted, compared, counted by the failure limiter, and taken back when
it succeeded; Redis comes, goes and rejects in between. The exception, `rlRaced`, is a
request counted in memory that passes by the shared limit, because Redis recovered
between its count and the comparison. express-rate-limit is external.

## Ghosts as exceptions

A variable whose comment says ghost or history is read by no guard. Those named
`...Raced`, `...overlapped`, `overtaken`, `lapsed`, `crossed`, `mixed`, `edited`, `adUnsure`
say that the checks of
two requests overlapped, or that a lock ended while its holder was inside. A
property that starts with `~raced =>` states what the code promises without that
overlap, and the model still contains the overlap. What then happens is
listed below, under "What overlaps can do". Most exceptions are narrow: one store, one ad,
one code, one average and, where the code re-checks in its WHERE clause, none at all.
Three are wide: `releaseRaced`, `rlRaced` and `addressRaced` stay set once requests about
releases, a count and a recovery of Redis, or two transactions on an address book have
overlapped, so that their properties say nothing of the rest of such a behaviour.

## Composition

OrderLifecycle shares its stock variables with InventoryStock and implements it.
The other modules keep tables and keys no other module reads, so nothing one does
changes what another sees; their only couplings are the flags named above (a
completion credits a commission, a refund keeps a fee), which are constants or
environment steps there. MCBackgroundJobs and MCPlatform therefore run them
side by side: `scope`, chosen in the initial state, says which component moves. A
product of machines without shared variables has exactly the projections of its
machines, so no behaviour of a component is lost, and a violation in one is a violation
of the whole. Some components occur in two or three scopes, which set which of its requests
run at once: staff requests race each other and one deletion of a store, or one request
races two deletions; categories are three under one request or two under two.

## Runs

| Run | Shows |
|---|---|
| `stock_ledger` | `StockTypeOK`, `HoldsMatchLedger` (the reserved count is the sum of the live holds), `HoldEndsOnce` (an ended hold keeps its reason), `LapsedCartHoldsEnd` (a cart hold past its TTL ends) |
| `order_races` | `OrderTypeOK`, `ClosedOrdersHoldNothing`, `ConsumedMeansBooked`, `RefundsAreOfCapturedMoney`, with everything that can close or complete an order running at once |
| `order_retries` | `NoOversell`, and `StockSafety`: the orders implement the stock ledger |
| `late_payment` | `RefundedAtMostOnce`, `LatePaymentReturned`, `StaleOrdersClose` |
| `settlement_races` | `SettlementTypeOK` (a payout is never negative), `NoDoublePayout`, `RecordedRefundsWereSent`, `RefundedSettlementStays`, `SettlementsMature`, with two overlapping decisions, two payout runs, an admin, crashes and the release job |
| `reward_races` | `RewardTypeOK` (no balance below zero), `BalanceIsLedger`, `CampaignPaysItsBonuses`, `VoucherUsedOnce`, `LapsedPointsGo` |
| `background_jobs` | the eight conjunctions below, of everything a job, a sweep or a worker finishes |
| `platform_races` | the nine conjunctions below, of everything requests alone drive |
| `hold_expiry` | violated: `PaidOrderKeepsHold` |
| `cancel_meets_payment` | violated: `CancelReturnsMoney` |
| `complete_again` | violated: `SoldOncePerOrder` |
| `double_return` | violated: `GoodsReturnOnce` |

Each property of `background_jobs` and `platform_races` is a conjunction; every
part is a definition of its module, named and commented there.

| Property of `background_jobs` | Parts |
|---|---|
| `MoneyAddsUp` | commissions: `CommissionsAreConserved`, `PendingIsUnmatured`; ads: `ReportedSpendWasCharged`, `BudgetOverrunBounded` |
| `AccountsAreImplemented` | the refinements `AgentImplementsAccount`, `WalletImplementsAccount` |
| `PromotionsAreSound` | `WindowFiltersAgree`, `PromotionsDoNotCompete` |
| `DeliveryIsSafe` | `DeletedMeansHandled`, `AcceptedFactsAreKept`, `MailSentOnce`, `StoppedWorkersHoldNothing` |
| `RankingsAreTrue` | `RollupsMatchEvents`, `ScoresAreVisits` |
| `ReviewIsSound` | `VisibleShopsAreVetted`, `HistoryIsAChain`, `ReviewedContentIsFrozen`, `DeletionsAreOfRejectedShops`, `ToggleComesBack` |
| `FleetIsTracked` | `LiveVehiclesAreFound`, `FixesMoveForward` |
| `WorkGetsDone` | liveness: `DueCommissionMatures`, `AnnouncementCatchesUp`, `EventsSettle`, `RejectedShopsGo`, `SuspendedVehiclesLeave` |

| Property of `platform_races` | Parts |
|---|---|
| `AccountsAreSafe` | `SingleActiveDevice`, `ResetEndsOlderSessions`, `PasswordIsTheChosenOne`, `OneLiveCode`, `GuessBudget`, `PhotosAreAccountedFor` |
| `StaffStayInside` | `OwnerKeepsTheOrganization`, `NoStoreOutsideTheScope`, `FeaturesFollowTheStore`, `AssignmentsStayInside`, `AdministratorsHoldNoList`, `PruningTakesOnlyTheDeleted` |
| `GrantsAreIntended` | `AcceptedOnce`, `RevokedGrantsNothing`, `AcceptanceIsFinal`, `GrantsAreTheLastList`, `DecidedOnce` |
| `PricingIsSound` | `TheBooksBalance`, `ChargesTellTheTotals`, `SettlementsFollowQuotes`, `GatewayIsCovered`, `VouchersSpareTheSeller`, `OneLiveCard`, `LiveCardsWereValidated`, `NoSilentFallback` |
| `ShoppersSeeConsistentData` | `CartIsOfOneStore`, `BonusIsFree`, `SavedOnce`, `OneDefaultAddress`, `RatingFollowsReviews`, `CountsMatchListings`, `NothingIsDetached` |
| `CheckoutsAreSafe` | `OfferedMethodsTakeMoney`, `CompletedMeansPaid`, `RefundReachesTheTaker`, `AcknowledgedMoneyIsRecorded`, `PaidPageMeansPaid`, `FeeKeptAddsUp`, `DegradedGatewaysRest` |
| `RefundsAreSafe` | `RefundsNameAPayment`, `RetriesFindTheFirst`, `RefundedMeansReturned`, `CompletedMeansKept` |
| `PickupIsSafe` | `OneConfirmationInside`, `CodeSpentOnce`, `RedeemedCodesAreDead`, `OneHandover` |
| `OperationsAreGuarded` | `OneServed`, `PulledStaysPulled`, `ServiceContinues`, `CredentialBudget`, `FailureBudget` |

Each begins with the type invariant of its module.

The four violated properties are what the code's comments and documents say, and
what a particular interleaving breaks:

- *hold_expiry.* The sweeper selects the lapsed hold of a PENDING order; the order
  is paid; the per-row claim tests the reservation only and expires it. A comment
  says a hold on a paid order "belongs to the buyer until the goods are handed
  over".
- *cancel_meets_payment.* `cancelOrder` reads a PENDING payment, so it will not
  refund; the success webhook commits; the re-validation reads the order only,
  finds PROCESSING, and stamps the captured payment FAILED.
- *complete_again.* `validateOrderTransition` accepts COMPLETED to COMPLETED, and
  `completeOrderInternal` takes the goods off the shelf a second time.
- *double_return.* Two requests for REFUNDED both read ITEM_RECEIVED. On a cash
  order nothing is marked before the closing transaction, which does not test the
  payment or the return again, so both put the goods back. A comment says that a
  repeat of the current status is "a retry, not a transition".

### Bounds

`stock_ledger` has one inventory row, two holds of up to two units, two units of
stock, one order, two sweepers and one adjustment: two holders of one row are
needed for a double credit, two sweepers for a stale list, two units for holds of
different sizes. Products do not interact except through the all-or-nothing
checkout, which two rows of one product exercise as well; the proofs drop the
bounds altogether.

The order runs have one or two orders and one unit. `order_races` puts two
deliveries (of one event or of two), two cancellations, two completions, an
update, the order sweeper, one crash and all refund outcomes around one order,
for both payment methods. `order_retries` has a second session of the same order
(`MaxSessions` = 2), a second hold taken by the client, the reconciliation job and
the reservation sweeper. `late_payment` has two orders after the same unit and two
deliveries of each of their two events. `MaxCrashes`, `MaxAttempts` and
`MaxSessions` cap what the environment may do and occur only in guards.

`settlement_races` has one order of either method, one return, two decisions and
two payout runs, because every race of this module is of two requests about one
order: a return is decided twice, a settlement is swept twice. The return window,
the hold and the last day are all 1, so that the window closes and the hold elapses
on the day the run ends and both inclusive tests meet. `MaxRefunds` = 2 lets a
refund whose answer was lost be sent again. `MaxCompletions` is 1 in the runs and
anything in the proofs. `double_return` has the same order and decisions alone.

`reward_races` has two orders of one buyer, of which one is too small to earn a
point, so that their completions overlap; a budget of 3 for bonuses that cost 2, so
that a second bonus finds a rest that pays no point; a voucher for one of two
checkouts; and two sweeps, as a sweep may outlive its job lock. `StatusPatches`
leaves out PAUSED, which differs from DRAFT in nothing the model does.

`background_jobs` and `platform_races` have two of every request that races
another, and one of what it races about: one agent with one sale, one billed ad,
an old promotion of a product and a new one that a seller files under a variant of it or
under nothing, two analytics
events (a batch) and a mail and an event nobody handles over two workers, one
store, one vehicle, two analytics events of a product and its store. A race of
three requests of one row is, in these modules, a race of two with a third that
repeats one of them. The caps `MaxFailures`, `MaxDeaths`, `MaxOutages`,
`MaxStops`, `MaxPublished`, `MaxEdits`, `MaxFleetEdits`, `MaxCalls`, `MaxLosses`, `MaxFaults`,
`MaxHits`, `MaxTokens` and `MaxUnderWay` limit how often the environment interferes,
at one or two of each, which is what it takes for a failure in the middle of every
operation and for a retry after it; `MaxTime`, `MaxHour`, `MaxGatewayTime` and `MaxStamp`
end time after both sides of each boundary were met. `MaxReceives` is 2, the least with a
redelivery, and `MaxAttempts` 1, the least guess limit. `MaxDeposited` and
`MaxRateVersion` let a balance be topped up and a rate be changed once. The
rate cards hold percentages with a fixed part that round both ways, a
minimum and a maximum, scoped and open components and the empty card; their windows are
waiting, open or closed. Where cards race each other (`ListsDiffer`) one valid list is
enough, as the validation alone looks at it. The
baskets are chosen at the centavo where a rounding turns, with discounts larger
than the goods, for cash and for every policy. The key sets have one gateway
alone, of each kind of signature that fails or holds, and two for a failover; the webhook
secrets are all set or all missing. The window of the rate
limits starts while Redis works or rejects its commands, and MaxFaults = 1 lets it fail or
recover once; MaxHits = 5 is one more than the four attempts two instances allow. Scopes
whose requests can all end keep `CHECK_DEADLOCK FALSE`.

Requests and events are interchangeable, so `order_races` identifies states up to
their names. No liveness run uses symmetry. Requests stop when each actor has run
once, so the order configurations do not check
deadlock; nor do those of settlements and points, where days, payouts
and campaigns run out.

### Fairness

`StockFairness`: sweeps are started by a timer in the server and by a repeatable
job in the worker, so a sweep with something to read happens (weak fairness), its
loop runs to its end (weak fairness), and a row that is selected again and again
is not met by a database error each time (strong fairness on the claim).
`OrderSweepFairness` is the same for the order sweep. `DeliveryFairness`: a gateway
sends an event until it is acknowledged, and a handler that does not crash goes
on. `SettlementSpec`: the release job is an hourly cron job of the scheduler, so
while something is due it is read, and what was read is written (weak fairness);
`SettlementsMature` needs no more, because the write is a single statement whose
condition only a release, a refund or an edit can make false. `RewardSpec`: the
expiry sweep is an hourly cron job and its loop goes on (weak fairness).
`AgentFairness`: the maturation job fires again, its loop reaches each row it
listed and the transaction of a row ends; it may fail `MaxFailures` times.
`ScheduleFairness`: the sweep of ad windows lists, publishes and marks; a worker may
die in it. `BusFairness`: a running consumer polls, its handler ends, SQS ends a
visibility timeout and redrives, and the platform restarts a worker that died or stopped.
`ShopFairness`: the window of a rejected store ends and the hourly purge reads and writes.
`FleetFairness`: a ping that was begun ends, some replica's sweeper runs, Redis counts
TTLs down. All of it is weak fairness. `JobsFairness` repeats these for the
composition, each where `scope` is about that module. `SuspendedVehiclesLeave` assumes
a vehicle that stays suspended, and `RejectedShopsGo` a store that stays rejected.
Otherwise nothing is assumed of buyers, sellers, agents or administrators.
PlatformSpec states no fairness, as nothing is checked there that must happen.

### Assumptions of `late_payment`, and what happens without them

The run needs `Overlapping = FALSE` and `MaxCrashes = 0`, and both matter:

- With two deliveries of one event in flight, both pass the processed check, which
  is outside the transaction. The later one finds the payment REFUND_PENDING or
  REFUNDED, which is not COMPLETED, writes COMPLETED over it and refunds again.
- If the process dies between the commit of the webhook transaction and the
  refund, the retry is answered `already_processed` and nothing refunds the
  payment.

Other interleavings the model contains and no run is spent on:

- a status update that validated a PENDING order writes PROCESSING over the
  CANCELLED, FAILED or COMPLETED it has become;
- a failure event whose read precedes the commit of the success event writes
  FAILED over COMPLETED and releases the holds;
- a completion that commits between the re-validation of `cancelOrder` and its
  writes leaves an order that is settled and CANCELLED;
- a refund whose answer is lost goes through the same catch as a refusal, which
  puts the old status COMPLETED back;
- two overlapping corrections of one inventory row, or a correction and a sale,
  record a movement that is not the change they made;
- a refund whose answer is lost puts the payment back to COMPLETED, and a new
  request sends a second refund;
- two `createReturnRequest` requests that overlap both find no open return;
- a settlement whose return is opened between the two statements of the release
  job is released and may be paid out, until the approval freezes it;
- two completions that read the same rest of a campaign's budget both spend it, and
  of two top-ups that read the same budget one is lost;
- a completion that read a campaign before a top-up still sets it EXHAUSTED;
- a lot that was spent long ago and lapses takes points of a newer lot, at once when
  the next ones are earned if the wallet was empty.

### What overlaps can do

What the exceptions in the properties of the two composed runs stand for, and the
model contains:

- a lock of a cash pickup that lapses after 30 s lets a second confirmation in, and
  the `finally` of the first deletes the lock of the second
  (order.service.ts:708);
- two payout requests of an agent that read one balance both succeed
  (agent-commission.service.ts:225), and so do two ad events that read one
  wallet (marketingWallet.repository.ts:81);
- two maturation runs that read one pending commission both move it from the
  pending to the available balance;
- two edits of promotions that were checked at once may compete;
- an update of an ad that fails between its two writes leaves the new window, checked for
  the new products, on the old ones, where it may compete
  (merchantAds.service.ts:464-468);
- a code for a pickup that was asked for before a confirmation ended and stored after it had
  consumed its own completes the order again (order.service.ts:643, 664; order.state.ts:24);
- two additions of a product without a variant store it twice on a wishlist, because a
  UNIQUE index takes NULLs for distinct; two transactions on an address book may leave two
  defaults; an average of reviews may be the older of two;
- two activations leave two cards ACTIVE, and two overlapping releases two that are
  downloadable;
- a sign-in that read a legacy hash before a reset rehashes the old password over
  the new one;
- two acceptances of an invitation both grant; a seller's edit that checked the
  status before a review began changes what the reviewer has claimed;
- at Xendit and PayMongo, which get no idempotency key, a retry after a lost answer
  is refused and the payment stays COMPLETED with its money returned.

### Where code and text part

Met while modelling, without a run of their own. Paths are below `src/src/`.

- `app.ts:43-53` keeps the raw body of a webhook as a Buffer and
  `paymongo.provider.ts:194` hashes its JSON, so genuine PayMongo events are
  refused with 400 (`DeliverRefused`).
- The sweep of ad windows selects the rows whose `lastNotifiedState` is not ENDED
  (`merchantAds.repository.ts:162`). A NULL is not selected by SQL, although the comment
  above the query (156) says it returns everything not yet in its terminal state. The
  migration that added the column gave every ad there was a state and nothing gives one to
  an ad created since, so the job follows old ads alone (`NeedsTransition`, the premise of
  `AnnouncementCatchesUp`) and no ad created since is ever announced.
- The sweep does not look at what `publish()` returns (`merchantAds.service.ts:528`) and
  `publish()` does not throw (`publisher.ts:60`): an announcement that could not be
  published is recorded as made and not repeated (`adLost`), although the comment at 510
  says the job catches up.
- An activation retires the live rate card also when its successor's `effectiveFrom` is to
  come (`pricing.repository.ts:157`), which no check of `pricing.service.ts` asks about:
  until then orders are priced at the fallback rates that the comment at 222 means to
  avoid (`OutOfWindow`).
- `paymongo.provider.ts:105` takes '' for a webhook secret that is missing and nothing
  requires one, while the comment at `payment.service.ts:719` says what a missing variable
  must not lead to (`NoSecretVerifies`, and the condition of `CompletedMeansPaid`).
- A hard delete of a category sets `category` of the pricing components to NULL
  (`category.service.ts:95` and the migration), by which a rate for one category becomes
  one for all; the comment in `pricing-engine.service.ts:429` has a component that names a
  category match only that. Categories are not in Pricing.
- The comments at `return.service.ts:308` and `order.service.ts:812` say that a
  refund whose response is never seen stays visibly in flight; the catch blocks put
  COMPLETED back on any error, a lost answer included.
- A retry of a payment overwrites its provider, so that money taken by the first
  session is refunded at the second gateway; a late `payment.paid` completes a REFUNDED
  payment again; a fallback session is not restricted to the method that was priced; the stored
  PayMongo reference may be a checkout session (`paymongo.provider.ts:70`).
- The reconciliation job completes a payment whose order is closed and nobody
  refunds it (`payment-reconciliation.job.ts:95`).
- `adjustWithin` writes a count computed from an older read
  (`inventory.repository.ts:48`); the run `stock_ledger` contains it.
- Two claims of a last voucher both succeed (`reward.service.ts:207`); BONUS points
  carry an `expiresAt` the sweep does not select (`reward.service.ts:333`);
  `sellerCampaign.service.ts:361` orders rows without a store first, the reverse of
  its comment (351).
- `payout.service.ts:100`: of two status updates the later overwrites the first,
  a final one too. `agent-commission.service.ts:274`: two approvals add
  `lifetimePaid` twice. `reverseOrderCommission` has no caller.
- A day's rollup is attempted once and a missed one is never made up for
  (`scheduler/index.ts:177`).
- The viewport cache of the map may show a store for 60 s after it left
  (`store.service.ts:257`); `getAllProducts` lists products of inactive stores.

## Proofs

OrderLifecycleProofs begins with the stock ledger, for any sets of inventory rows,
reservations, orders, sweepers and adjustments (only the set of reservations is assumed
finite, the largest quantity positive, and the null markers distinct: `StockConstants`):

- `StockTypeCorrect`: `StockSafety => []StockTypeOK`, in particular neither count
  goes below zero;
- `LedgerCorrect`: `StockSafety => []HoldsMatchLedger`;
- `EndedHoldsStay`: `StockSafety => HoldEndsOnce`.

The inductive invariant is `StockInv`, the conjunction of the first two. Neither is
inductive alone: that `quantityReserved` stays a natural number when units are
given back needs it to be the sum of live holds, and the sum is about rows whose
types must be known. A sum over a finite set of rows is the cardinality of a set of
units, one pair per unit held (`UnitsOf`), which makes addition of disjoint sets of
rows a fact about finite sets instead of an induction (`UnitsAdd`). On it rest
`ClaimKeepsLedger` and `ReserveKeepsLedger`, one for each primitive of
`InventoryStockRepository`, and the step lemma `StockInvStep` has one case per
operation.

OrderLifecycleProofs then shows, for any orders, rows, buyers, deliveries (a finite set),
cancellations, completions, jobs, sweepers, crashes and bounds (`OrderConstants`; a
delivery is not also a request of another kind):

- `OrderTypeCorrect`, `ClosedOrdersReleased`, `ConsumedOnlyBooked`,
  `RefundsCaptured`: `OrderSafety => []P` for `OrderTypeOK`, `ClosedOrdersHoldNothing`,
  `ConsumedMeansBooked` and `RefundsAreOfCapturedMoney`;
- `OrdersImplementStock`: `OrderSafety => StockSafety`, and with it `OrdersKeepLedger`:
  the theorems about the stock ledger hold in the whole life of an order;
- `OversoldOnlyUnheld`: a step from a state with `NoOversell` to one without it
  completes an order one of whose holds has been given back (`CompletesUnheld`);
- `RefundedOnce`: `OrderSafety => []RefundedAtMostOnce` if `~Overlapping` and there is no
  cancellation.

`OrderInv` is the inductive invariant. A refund is of captured money because the
request that sends it read a payment row with a reference, the reference was stored
by an event, and the event was a capture: `RequestKnows` says, for every step a
request can be at, what it read and what is still true of it, next to
`EventsAreTrue`, `LinesAreHolds` and `OrdersHavePayments`, what the tables say of each
other. The last two theorems are conditional because the unconditional statements are
false: under "Runs" and below it is said how a unit is promised twice and how money
is returned twice. `RefundedOnce` counts: the refunds made and the deliveries about
to refund (`ToRefund`) are never more than the processed captures (`RefundBudget`),
each of which has one delivery at work (`OneAtATime`). It assumes what the
configuration of `late_payment` says, and no more: crashes, lost answers, jobs and
several sessions are all allowed.

AccessProofs shows, for any users, sign-ins, reset requests, guesses, invitations, grants,
organizations, builds and API instances:

- `AccountsSafe` (`AuthSpec => []AccountsAreSafe`): sessions, stored passwords, codes,
  guesses and photos; a rehash that a reset overtakes is an exception, as it does bring the
  old password back;
- `GrantsIntended` (`AccessSpec => GrantsAreIntended`);
- `StaffInside` (`OrgSpec => StaffStayInside`);
- `AttemptsLimited` (`RateSpec => []LimitsHold`) and `ReleasesSafe`
  (`ReleaseSpec => ReleasesAreSafe`).

`AuthInv` has one part for each promise to an account, strengthened by what the
requests under way know and have left to do. The stored password is the chosen one
because a sign-in that verified a legacy password still holds the chosen one as long
as the account is marked legacy (`KnowsPassword`). An account has one session more than there are
sign-ins which just made theirs and have not ended the others. A code is live
alone because a request that retired the older ones stores its own next, and while it
does none is live (`Retiring`). The attempts at a code are counted together with the
wrong guesses that are not written yet (`GuessesCounted`), so two that read the same
count cannot both be the last one allowed and leave room for a third.

What a request read of an invitation or a role is so when it writes, unless another
wrote to the same row, and then the other marked it as overtaken (`StillAsRead`): from
this comes that only a pending invitation is accepted. A token that was used is that of
no pending invitation, and none that can be accepted was revoked (`TokensAreSpent`).

An update of a member decides on the role it read, and what it decided holds of the row
until another write overtakes it (`DecidedOnTheRow`). A list that a pruning has read and
is still to write back is that of a member and says what the row says, unless the row
was written since (`PruneFits`); two prunings of one organization overtake each other in
this sense, as each writes whole lists (store.service.ts:645).

`RateInv` gives every count a room: a store whose count is c allows c attempts, up to its
limit, and `Room` is what all stores allow so far. A request that was counted and will
not be refused holds a place in it, as do those that passed and, for the failure limiter,
those that failed (`BudgetFits`). A count makes the room one larger exactly when the
request it is for will pass; a success gives up its place before any store takes a
count back, so it does not matter which one does. `Room` is never more than `Budget`.
What breaks this is a count of a memory that is compared with the shared limit after
Redis came back: that request was given no place (`rlRaced`).

What a request about releases read is still so when it writes, unless another wrote
since (`PublishKnows`), and the flag is on one ACTIVE release or on none (`FlagIsOnOne`).

ShopProofs shows, for any checkouts, gateways, answers, baskets, rate cards, products,
quantities, categories and requests:

- `CheckoutsSafe` (`GatewaySpec => CheckoutsAreSafe`);
- `PricesSound` (`PricingSpec => PricingIsSound`), for every amount, rate and list of fees
  the schemas accept;
- `CatalogueKept` (`CatalogueSpec => []CatalogueAgrees /\ NothingIsDetached`);
- `PickupSafe` (`PickupSpec => []PickupIsSafe`) and `RefundSafe`
  (`RefundSpec => []RefundsAreSafe`), for every gateway.

That `BuyerInv`, the invariant of carts, wishlists, addresses and ratings, is kept is a
lemma there, used by PlatformProofs.

Assumed are finite sets where something is counted or searched (checkouts, reviewed orders,
categories, articles, the ads of a product), the shapes of a fee, of an ad and of a purchase
(`FeeComponent`, `DiscountAd`, `Purchase`, which the request schemas enforce), and that a
gateway is one of the three there are.

`CheckoutInv` ties what a page says to what a gateway knows. An answered checkout is at
a gateway with a key, where its session exists, or at the mock because the method it was
made for has no key (`CheckoutCallFits`), so no method the picker offers ends at the
mock. A session that is paid belongs to an answered checkout, an event about a session
ended so, and the key of a processed event stands for what was recorded
(`NoticesAreTrue`, `MoneyIsReal`): this is why in production, with PayMongo's webhook
secret set, a payment that is COMPLETED was paid, and why one that was acknowledged is recorded although its key is kept and a
repeat is not looked at again. `FeeInv` says that a refund no other overlaps knows the
fee kept so far, and that between refunds the fee kept is the share of all that was
returned.

Prices need two ideas. A quote is the price of a basket by the list of some card,
whatever happens to the card afterwards (`QuotesArePrices`), so what is said of
`PriceWith` for every basket and list is said of every quote. And rounding is division
with a half added: its bounds, that it is monotone, and that a fee that was grossed up
and rounded is exactly what the gateway bills for the total that includes it
(`CoversGateway`), are integer arithmetic. This is why `GatewayIsCovered` can ask for
equality. The order's rows are a finite set of charges; what a party gets is a sum over
those that name it. For the cards, `CardsAreValidated` says what the two statements of
an activation know of the incumbents, and that a card that is or becomes ACTIVE was
validated as it is unless it was edited since; a card that replaces a live one and is not
live itself is therefore waiting, or was edited.

`BuyerInv` has four parts that share nothing. A cart that a request has read is of one store
as the stored one is; the quantity that is stored and the discount that is computed from it
later agree on the free units for every quantity and ad (`BonusIsFree`). A transaction on the
address book that nobody overlapped still agrees with the book (`Agrees`), and an average
with the rows it was computed from, unless its request is marked as overtaken.

`CatalogueInv` adds to `CatalogueTypeOK` that the categories are a forest. It is stated
by a rank above that of the parent, which a new category can always be given, because by
`CreatedOnce` its row is absent until it is written, and a roll-up and a walk down both
need it. `TotalCount` and `Listing` are recursive functions of a round. That each
exists, and what holds in all its rounds, is proved from a least round that fails, as no
induction theorem can be used. The walk down stops growing after as many rounds as there
are categories, because each round that adds something adds an element; the sub-trees of
siblings are disjoint, because a node has one parent; and so the sum of the counts of
disjoint sets of products is the cardinality of their union, which is
`CountsMatchListings`.

That a pickup code is spent once needs the holder of the lock, and that a stored code and
one that a confirmation has matched were not spent before (`CodesInv`, `SpentCodesAreGone`).
That no second code is spent needs that none is stored from the consumption on, unless it
was asked for before the confirmation ended (`crossed`, `HandedOver`). What the status of a payment says of its money depends on
what the requests under way know (`CalmRefund`), and at Stripe on the refund its
idempotency key stands for (`KeyNamesTheRefund`).

PlatformProofs shows the same of `PlatformSpec`, the composition that `platform_races`
checks: `PlatformKeepsAccounts`, `PlatformKeepsGrants`, `PlatformKeepsStaff`,
`PlatformKeepsOperations`, `PlatformKeepsCheckouts`, `PlatformKeepsPrices`,
`PlatformKeepsShoppers`, `PlatformKeepsPickups` and `PlatformKeepsRefunds`, which are
all its nine properties. Every step of the composition is one of a component or leaves
it alone (`PlatformSteps`, `PlatformShopSteps`). Only that its one issuer and one
sign-in are among those of AuthSessions, its member request, hire and store among those
of SellerOrganization, its rate card and request among those of Pricing, and its editor
and categories among those of Catalogue, is assumed (`PlatformConstants`).

BackgroundProofs shows `EventsDeliveredSafely`: `BusSpec => []DeliveryIsSafe` for any finite
sets of messages and workers, whatever crashes, lost deletions, lapsed claims
and outages of Redis. `MailSentOnce` is the part that needs an argument: the claim of `runOnce`
can lapse under its worker, be deleted by another that failed and be taken again.
`SendsArePaidFor` counts every send made and every send a claim still allows
against the first claim and the slips.

It also shows `RankingsTrue`: `RankingSpec => []RankingsAreTrue` for any finite sets of events
and targets, any days, and any runs of the rollup job (`RankingConstants`; that no reported type
is the marker of an unreported event is part of it). `CountsAreTrue` holds what a run has
aggregated and not saved to the same as the rows: no more views than were seen that day,
and what the table says unless the day is noted as late. That a score is no more than the
visits of its period is `SumOfDisjoint`: the hour is part of a visit, so no visit is of two days.

`FleetTracked` is `FleetSpec => FleetIsTracked`, for any drivers, pings, sweepers, changes by
administrators and time to live (`FleetConstants`). A live vehicle is in the index because
its point never outlives its entry in the seen set (`IndexFollowsPoint`: the ticks the point
has left and the age of the entry never add up to more than the time to live). That a fix is
replaced by a newer one only is `FixesAreNewer`: what a ping that has compared is about to put
is newer than the stored point, unless two pings overlapped.

`ShopsReviewed` is `ShopSpec => ReviewIsSound`, for any stores, administrators,
decisions, edits and sweeps. `ShopSound` says what is true of one store. That a live one
is vetted and nobody has it follows from the columns each transition writes; that the
audit log is a chain, from the status compared in the WHERE clause. The rest needs what
was checked and not compared: an edit that lands during a review read a status that is
not `UNDER_REVIEW`, so it is noted as overtaken; a store that a sweep holds is rejected
or was noted; and the parked toggle is that of the live store from the moment it is
pulled into review until it is approved again (`ToggleRestored`, an action property).

BackgroundProofs shows of settlements, returns and payouts, for any finite sets of
orders and requests and any sets of returns and release jobs, any windows, amounts and
bounds (`SettlementConstants`):

- `SettlementTypeCorrect`: `SettlementSafety => []SettlementTypeOK`; that
  `totalAmount` is never negative is the part with content;
- `PaidOnce`: `SettlementSafety => []NoDoublePayout`;
- `RefundsRecordedWereSent`: `SettlementSafety => []RecordedRefundsWereSent`;
- `RefundedStays`: `SettlementSafety => RefundedSettlementStays`.

`LedgerInv` is `SettlementTypeOK` and `RequestsConsistent`: what a request carries
between its steps is what it needs there, in particular that a payout about to be
written has a positive total and that a decision names an order. Types alone are
not inductive, since `PayoutWrite` stores a total that `PayoutRead` tested a step
earlier. `RecordedRefundsWereSent` compares the restocks with the refunds sent, and
is not inductive either: a decision between the provider's answer and the closing
transaction is about to restock. `RefundsCovered` counts these decisions in: the
restocks of a gateway order plus its decisions in flight never exceed the refunds
sent, where the decisions in flight are a finite set whose cardinality a step
changes by at most one.

SumTheorems has what these proofs need about `SumFunctionOnSet`: over disjoint sets, one
entry changed, one member more or less, order, the largest entry, and entries that count
disjoint sets. The sums of the
library are folds over a CHOOSE; the lemmas are proved by taking a least finite set
that violates them, as an induction theorem over sets has an operator as parameter.

RewardWalletProofs shows, for any buyers, orders, campaigns, vouchers and requests
(`RewardConstants`): `RewardsTypeCorrect` (no balance below zero), `WalletsBalance`
(`BalanceIsLedger`), `CampaignsPay` (`CampaignPaysItsBonuses`) and `VouchersUsedOnce`.
`RewardInv` adds what is still true of the unlocked reads of a request when it writes: no
other completion is of its order (`CompletesAlone`), the campaign it is going to charge exists
and the order has no bonus yet (`CompletionFits`).

JobsProofs shows, for any agents, sales, payouts, sellers, ads, edits and requests
(`AgentConstants`, `BillingConstants`, `ScheduleConstants`):

- `CommissionsSafe` (`AgentSpec => []CommissionsAreSafe`) and `AdSpendAccounted`
  (`BillingSpec => []SpendIsAccounted`);
- `AgentsImplementAccount` and `WalletsImplementAccount`: the available balance of an
  agent and the marketing wallet of a seller implement Account, every step a credit, a debit within
  the slack or a stutter;
- `JobsMoneyAddsUp` and `JobsImplementAccounts`: the same of `JobsSpec`, the composition
  that `background_jobs` checks, of which every step is a step of one of its modules
  and leaves the variables of the others alone;
- `NewPromotionsDoNotCompete`: the two filters and the derived state agree, and a
  promotion made under the checks is never live with another of its product, except
  the ads in `adUnsure`;
- `PromotionsSound` and `JobsKeepPromotionsApart`: `PromotionsAreSound`, of `ScheduleSpec`
  and of `JobsSpec`, provided the ads older than the checks (`OldAds`) were of different
  products. Nobody ever compared those with each other, so the proviso is needed;
- `JobsDeliverSafely`, `JobsKeepRankings`, `JobsKeepFleet` and `JobsKeepReviews`:
  `DeliveryIsSafe`, `RankingsAreTrue`, `FleetIsTracked` and `ReviewIsSound` of `JobsSpec`. That the
  decision and the ping which meet the edits are among the others is assumed
  (`JobsConstants`).

A balance above its bound now says nothing of the debits to come. `AgentsSolvent` and
`WalletsSolvent` take them off: the balance less what the requests that have
passed their test will still take stays above the slack, because the one that
tests last sees what the others have left. `CountedWasCharged` and `ChargedWasSpent` are the
same for what an ad counts after it was charged and what is written after it was
debited, `PassedWithinBudget` for events that passed the budget test. `Trackers # {}`
is assumed because the bounds speak of all events save one.

`ScheduleInv` does not speak of live promotions but of windows that do not meet wherever
two ads promote one product: an ad may be paused while another is checked against it, and
resumed later. Next to the windows and products of the rows it has those of the edits that
were checked and have not written all of it (`EditStandsApart`), and that there is one such
edit while none overlapped. An ad whose new window is written and whose new products are
not, for a moment or because the second write failed, is in `adUnsure` and stands outside.

Only model-checked: all liveness (TLAPS has no support for fairness), and of safety the
unconditional `NoOversell` and `RefundedAtMostOnce`, which hold only in the
configurations of `order_retries` and `late_payment`. Every other safety property of a
passing run is stated by a theorem.

## Not modelled

- Notifications, sockets, mail texts, files and the HTTP shell: append-only rows,
  connections and I/O; the one thing about mail that has states, its delivery, is
  in EventBus.
- Properties, tags and images of products, store hours, photos and markers,
  saved stores, badges, the configuration of payment methods: rows written by one
  request and read by others, without a second piece of state they must agree with.
- Dashboards and reports: queries.
- Verification of the tokens of Google and Facebook, hashing, JWTs: computations of
  libraries.
- The seeders of `prisma/`: run on an empty database, before anything of this.
- Transport, clock skew between replicas, and the failure of PostgreSQL other than as an
  aborted transaction.

## Plan

The modules declare their assumptions and use no RECURSIVE operator (the walks over the tree
in Catalogue are recursive functions), so what is added can be proved about. Open are

1. what was left out under "Not modelled";
2. categories as a scope of a fee: Pricing has the payment method only, and the note on
   hard deletes under "Where code and text part" says what the other scopes would show;
3. assumptions under which the two properties above that hold in some configurations
   would hold in all, should the code come to re-check the hold and the refund.
