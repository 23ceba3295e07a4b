# Velnox marketplace: a TLA+ model of orders, stock, money and who may sell

Velnox is a multi-shop marketplace: an Express/TypeScript backend over Postgres
(`src/backend`, `src/db`), Stripe Checkout for payment, React storefronts
(`src/apps`), and a small office of AI agents that works on its own code
(`src/.ai/office`). A customer's checkout becomes one *purchase*
(`checkout_groups`) of one order per shop, paid together. What can really go
wrong lives where a purchase's orders, its payment attempts, its reserved stock,
its parcels and several uncoordinated actors meet; that is what most of this
project models, checks with TLC and proves with TLAPS.

## The system

| part | state it keeps | operations | interacts with |
|---|---|---|---|
| order state (`lib/order-state.ts`, `lib/order-fulfillment.ts`) | `orders.status`, `order_state`, `fulfillment_status` | project the axes to the status, transition table, confirmation and cancellation gates | every writer of orders |
| purchase payment (`routes/stripe.ts`) | `payments` rows; sessions at Stripe | open, reuse, retire a session; settle; fail; sync refunds | order state, inventory, incidents, Stripe |
| purchase termination (`lib/checkout-group-lifecycle.ts`, `lib/checkout-groups.ts`, `lib/order-lock.ts`) | - | end all member orders in one locked transaction, void the charge | cancel route, sweep, webhook failures |
| inventory (`lib/inventory.ts`) | `inventory`, `product_variants.stock`, `sold_count`, `orders.inventory_released` | reserve at checkout, commit on payment, release on an end; the seller's absolute edit | checkout, settlement, termination, staff |
| incidents (`lib/payment-incidents.ts`) | `payment_incidents` | record once per dedupe key, resolve | settlement, VelCenter |
| reservation sweep (`jobs/payment-reservation-scheduler.ts`) | `running` flag | scan due orders, expire each purchase | termination, Stripe |
| checkout (`routes/cart.ts`, `lib/checkout-lines.ts`) | `cart_items`, `checkout_requests` | edit the cart, place the orders, reserve, customer's cancel | quotes, inventory, termination |
| shipping quotes (`lib/shipping*.ts`, `routes/shipping.ts`) | `shipping_quotes` | mint, compare, redeem once | checkout, the shops' fee settings |
| staff routes (`routes/seller-orders.ts`, `routes/center.ts`) | - | move one order along the fulfilment machine | order state, inventory, shipments |
| shipments (`lib/order-shipment*.ts`) | `shipments` | create with the order's move, fill in carrier and number, move the parcel, advance the order | order state, staff routes |
| webhook inbox (`routes/stripe.ts:2591-2752`) | `payment_events` | claim, dispatch, complete or fail an event | Stripe, payment |
| refunds (`routes/stripe.ts:1575-1748, 2758-2946`) | `refunds`, refund columns of `payments` | create, sync, fold to partial or full | Stripe, order state |
| sellers (`routes/seller.ts`, `routes/verification.ts`) | `sellers.status`, `sellers.verification_status`, `seller_verifications` | apply, submit documents, decide the account, review a submission, revoke | the storefront's badge |
| AI office scheduler (`.ai/office/scheduler/request-scheduler.ts`) | the queue, the slot, each request's status | enqueue, run, retry on a 429, cancel, pause, resume | the agents, the model provider |
| the rest | | catalogue forms, chat, content, accounts, web apps | outside these |

The hard behaviours: every request, webhook and sweep is its own Postgres
transaction; a transaction that decides an order first locks the order rows,
but pay requests take no lock, span several statements and two calls to Stripe,
and may die anywhere; closing a session at Stripe happens after the commit and
may never happen; Stripe reports one fact as two events in any order, goes on
reporting about retired attempts, and retries until an event is handled;
several writers decide from an unlocked read made earlier; stock rows are shared
between orders and locked in the order of a cart's lines; two seller routes lock
the same rows in opposite orders; the agents' scheduler runs other turns inside
each `await`. `PROJECT.json` lists the hazards at their lines.

## The modules

| module | what it is | code |
|---|---|---|
| `OrderState` | the vocabularies, projection (both encodings), axis pairs, transition table; no state | `lib/order-state.ts`, `lib/order-fulfillment.ts` |
| `Reservation` | abstract: each order's units are sold or returned, once; a sale takes all that is held | the promise of `lib/inventory.ts:71-87` |
| `Purchase` | one purchase and everything that races over it | below |
| `Shipment` | the parcels of a purchase's orders, composed with the whole of `Purchase` | `lib/order-shipment.ts`, `lib/order-shipment-states.ts`, `lib/order-fulfillment.ts:404-520` |
| `Shelf` | abstract: an order takes its whole basket or nothing, then it is sold or given back | the promise of `lib/inventory.ts` to a shopper |
| `Totals` | a sum over rows, as the number of units the rows hold | the `SUM(...)` of the ledgers |
| `StockLedger` | the stock rows under concurrent transactions, statement by statement | `lib/inventory.ts`, `routes/cart.ts:1193-1303`, `routes/products.ts:1439-1476` |
| `WebhookInbox` | one Stripe event: the row that claims it, its deliveries, their answers | `routes/stripe.ts:2679-2751` |
| `RefundLedger` | the refunds of one charge: operators' requests, Stripe, the recorded amount | `routes/stripe.ts:1575-1724, 2776-2946` |
| `Till` | abstract: a quote is an offer; buying takes one that stands, whole and as it stands, once, for a key nobody used | the promises of `routes/cart.ts:1122-1156` |
| `CheckoutRequest` | one customer's checkouts: cart, quotes, request keys | `routes/cart.ts:421-1470`, `lib/checkout-lines.ts`, `lib/shipping-quote-store.ts` |
| `SellerReview` | one seller's account, badge and submissions under concurrent decisions | `routes/seller.ts:70-330, 948-1202, 1405-1510`, `routes/verification.ts:190-289, 679-926` |
| `RequestScheduler` | the agents' request queue, one turn per action | `.ai/office/scheduler/request-scheduler.ts` |
| `...Proof` | theorems and proofs of the module before the suffix (`PurchaseProof` also those on `OrderState`) | |
| `MC...` | what TLC instantiates where a run needs definitions: baskets, priorities, symmetry (the run `shipment` needs none) | |

`Purchase` extends `OrderState` and implements `Reservation`; `Shipment` extends
`Purchase` and implements it; `StockLedger` implements `Shelf`, `CheckoutRequest`
implements `Till`. The others stand on their own, joined by what one promises and the next assumes: a committed
`CheckoutRequest` is a purchase in `Purchase`'s initial state; `Purchase` says
which of commit and release an order gets and that it gets one, once, and
`StockLedger` what these do to rows that many orders share; `Purchase` takes
every event to be handled in the end, which `WebhookInbox` examines; it takes
from the refunds only what they tell the orders, which `RefundLedger` computes.

### Purchase: state

| variable | in the code |
|---|---|
| `orders` | the member rows of `orders`: `status`, the two axes, `inventory_released` |
| `row`, `intent` | the `payments` rows of the group, named by the session they were opened with; `intent` is `provider_payment_id` |
| `refund` | `refund_status` folded over those rows |
| `incidents` | `payment_incidents`, by the row they name |
| `due` | `payment_expires_at <= NOW()`; checkout gives the orders of a purchase one deadline |
| `sess`, `events` | Stripe: the sessions, and the events it has still to get handled |
| `req` | each pay request's program counter and the session it holds |
| `sweep` | the sweep's unlocked read of this purchase |
| `closing` | sessions to expire at Stripe after a commit |
| `commits`, `releases` | history: how often each order's stock was consumed or returned |

### Purchase: actions

| action | code |
|---|---|
| `ReadOrders` ... `MarkOrders`, `GiveUp` | `openCheckoutGroupSession`, one action per unlocked read, write or Stripe call; a refusal, an error or a crash anywhere is `GiveUp` |
| `CustomerPays`, `CompletesUnpaid`, `AsyncPaid`, `AsyncFailed`, `CardDeclined`, `TimesOut` | external: the customer and Stripe |
| `Deliver` | `handleStripeEvent` for a group: `settleCheckoutGroup` or `failCheckoutGroup`, one transaction |
| `CustomerCancel`, `SweepReads`, `SweepExpires` | the cancel route and the sweep, each ending in `terminateCheckoutGroup` |
| `CloseSession` | `expireStripeCheckoutSession` after a commit; may never happen |
| `StaffMove`, `CenterReselects` | the two status routes, with their gates |
| `SyncRefund` | `syncRefundFromStripe`'s effect on the orders |
| `DeadlinePasses` | time |

Two abstractions deserve a word. A session's URL reaches the customer only
when a request answers, so a session is `"unseen"` before `MarkOrders` or
`Reuse` makes it `"open"`. And an event that names no stored row changes
nothing: a session event without a row resolves to the representative order,
whose single-order handlers find no row of a group purchase.

Every checkout creates a `checkout_groups` row and a grouped order is always
paid through its group, so this is the path every new purchase takes. The
cash-on-delivery rail is off by default (`lib/payment-config.ts`) and left out.

### Shipment

`parcel` is the one `shipments` row an order may have: where it is, its carrier,
its number. `Init` also allows a row of an older build that carries nothing.
`ShipOrder` is a status route's move to `shipped`, which creates or completes
the parcel first; `MoveOrder` any other move; `CreateParcel` and `MoveParcel` the
shipment route, which fills blanks, moves the parcel along its machine and then
asks the order to follow (`AdvanceOrder`: the order's own gates, an order that
is already there is left alone, one that cannot follow fails the whole request).
Both writers lock the order first, so each request is one action.

### StockLedger

`quantity` and `reserved` are a product's `inventory` row, `stock` a variant's
own row, `sold` what each line's row added to its product's `sold_count`. An
order's transaction is its `kind`, the rows it wrote and so locks (`held`), the
lines it is through with (`done`) and the line its current statement is for
(`at`). `Target` is the row that statement writes: a sale writes the inventory
row of a product's line (`SellLine`) and then the `products` row of every line
(`CountSale`, `Owner` says which), and never a variant's own row; a reservation
(`Reserve`) and a release (`ReleaseLine`) write the line's own row. A row another
transaction holds is waited for (`WaitsFor`, `Free`). `BeginSale` and
`BeginRelease` open a transaction (after the order row's lock, so one order's
transactions do not overlap), `Refuse` rolls back an order whose line is not to
be had, `BreakDeadlock` is the database's choice of a victim and `Fail` any other
rollback. Writes take effect at the commit (`PlaceOrder`, `Sell`,
`Release`), as the other transactions see them. `SetStock` is the seller's
absolute edit. One transaction of the model reserves for one order; checkout
places a purchase's orders in one transaction, which only joins their baskets.

### WebhookInbox, RefundLedger, CheckoutRequest

`WebhookInbox` follows one event. `row` is `payment_events.status`, `at` each
delivery's next statement, `handled` counts the handler's commits. A delivery is
one action per statement (`Claim`, `ReadPrior`, `Rearm`, `Handle`, `Complete`,
`Fail`); `Refuse` is an error before the dispatch, `Crash` the process dying.
`faults` records what has gone wrong so far.

`RefundLedger` follows one charge. `rows` and `recorded` are the ledger
(`refunds`, `payments.refunded_amount`), `told` what the orders were told,
`stripe`, `answered` and `events` are Stripe's side, `req` the operators'
requests with what they read. `Sync` is `syncRefundFromStripe`, run by
`SyncAnswer`, `Deliver` and `DeliverAgain`. Left out: a succeeded refund that
Stripe fails later, and the age at which Stripe forgets a key.

`CheckoutRequest` follows one customer. `cart` is her rows, `quotes`, `requests`
and `orders` are the tables, `sub` each request with what it read. What a total is
made of is read in several places, without a lock: product prices with the
lines, then the buyer's business status, the tiers of each item, the variant
prices, the shops' fees (`checkout-lines.ts:97-248`, `cart.ts:985`). These are the
`Parts` of a total: `price` says what each says now (`ChangePrice` edits one), the
first comes with the lines (`Submit`, `AskQuote`) and each of the others is a
step of its own, in order (`ReadPrice`, and `PriceQuote` for a quote, whose row
is inserted when all are read). So both a request and a quote may hold a mix of
old and new parts. The check of the quote (`CheckQuote`) and the transaction
(`Commit`, `Replay`, `RefuseQuote`) are steps too; the cart, the prices and other
requests move in between. A checkout without a quote mints a row that no page
knows: it goes by the request's name in `QuoteIds`. The transaction is one step
because its claim of the key, the quote's row and the stock rows stay locked
until it ends; a rollback is `Fail`. `rows` are the cart rows a request read that
still exist (a row removed and added again has another id), so `CartLeft` is the
DELETE by ids. `lines` stands for products, quantities and address; a quote and a
request agree when lines and every part do (the code compares the lines' unit
prices through the fingerprint and the fees by their sum). `edited` is history. A
request sent again is another submission with the same key.

### SellerReview

`account`, `badge` and `record` are `sellers.status`,
`sellers.verification_status` and the status of each `seller_verifications` row;
`review` the review requests between their reads and their writes. `Apply` and
`Submit` are the applicant's routes, `Reopen`, `ApproveAccount`, `TurnDown` and
`SuspendAccount` the four things the account-status route writes, `Revoke` the
revocation. Each holds the seller's lock to its commit and is one action. A
review is two (`ReadForReview`, `WriteReview`): it locks the submission, reads
the account without a lock, and writes both at the end. Where an account route
needs a submission that a review holds, each waits for the other and the
database ends one of them: the action needs the submission free, and `Abort` is
the other outcome.

### RequestScheduler

One action is what JavaScript runs between two awaits. `queue` and `front` are
the queue array: every `enqueue` sorts it, and only a retried request breaks the
order, by being put in front of it. `active` is the slot, `leaving` a request
between `handleError` and its `finally` block, `released` the flag that makes
`releaseSlot` run once. `Succeed`, `Fail` and `RetryLater` end a model call,
`WakeForRetry` and `WakeAborted` a backoff, `Finally` the `finally` block; each
of the operations that free the slot or reopen the scheduler runs
`ProcessQueue` in the same step. Saving and restoring the queue is left out: a
restored request has no executor and nobody awaits it.

## What the runs check

| run | instance | shows |
|---|---|---|
| `shipment` | 1 order, 1 attempt, 1 carrier, 2 numbers, every staff move and refund kind, fair | a parcel is never ahead of its order; what is shown as shipped has a carrier and a number, which are not rewritten once the carrier has it; the machine reads every stored status back; fulfilment never goes back; the composition implements `Purchase`; a due reservation ends; captured money is recorded and sold or reported |
| `safety` | 2 orders, 2 attempts, 1 request at a time, staff to `packing`, full refund | stock leaves a reservation once, is held exactly while an order waits, released orders stay dead, nothing is shown as paid that is not paid and sold, recorded money is accounted for; `Purchase` implements `Reservation` |
| `requests` | 1 order, 2 attempts, 2 concurrent requests | a payable page is the active attempt's, paid rows are final; the inductive invariant |
| `stock` | 3 orders over one product and one variant, each with its products row, baskets of one row twice or of both once, 3 units each, fair | nothing oversold; the counters are exactly the sum of the orders; `StockLedger` implements `Shelf`; every transaction ends, deadlocks included |
| `inbox` | 4 deliveries, every fault | one delivery works on an event; without an overlap, a death or an unrecorded failure, what is answered 200 was handled |
| `refunds` | 2 refunds, 2 operators, a charge of 3, amounts 1 and 2, fair | recorded refunds and full-refund projections never run ahead of Stripe; the inductive invariant, with the refunds shown as succeeded within the recorded amount; a refund that succeeded reaches the ledger |
| `checkout` | 1 product, 2 requests, 1 key, 1 quote asked for (and one each request may mint), totals of 2 parts, 2 prices, Buy Now and cart | bought once per key and quote, as quoted, at the total in force unless a part was edited while the request ran; `CheckoutRequest` implements `Till` |
| `sellers` | 4 submissions, 2 concurrent reviews | the badge has a verified submission behind it, a waiting seller a submission in the queue, and a review cannot overtake a rejection |
| `office` | 3 requests of 2 priorities, up to 2 retries, fair | one model call at a time; first come first served within a priority; a free slot is never idle while somebody waits; a request settles once, and, if nothing is retried, at all |
| `attempts`, `inbox_crash`, `office_slot` | smallest instance | three comments of the code that its steps do not keep (below) |

Bounds. Two orders are enough for "one member differs from the others"; two
attempts for a retired attempt beside a live one, a rail switch, a lost insert
and one charge marking another's row; two requests for every race on the active
slot. `StaffTargets` and `RefundKinds` only narrow the inputs of a run;
`shipment` takes all of them. Its one order is no loss for what it asks: a
parcel belongs to one order, and the order's own races with a second member
are `safety`'s. Two tracking numbers are a rewritten number and a repeated one.

Three orders of two rows let two of them block each other in opposite orders,
on the stock rows or on a stock row and a products row,
while a third waits behind them; three units let two baskets of two collide and
one fit. Four deliveries let one fail and be re-armed while two others race over
the re-arming and a last one finds the row completed. Two refunds of 1 and 2 of a
charge of 3 make a partial and a full refund, in either order; two operators
race over one key. Two checkouts, one key (or none) and one quote (or none) give
every way of sharing them; two parts are the least that can be mixed, in a
request or in a quote; two units give a quantity raised, lowered, and a row
emptied, or removed and added again, while a request runs; the cart beside a Buy
Now is the row a checkout must leave.
`MCStockLedger` has TLC evaluate `TotalsAreSums`: the sums
counted by `Totals` are the sums the community modules' fold computes.
Four submissions let a seller be verified, submit again twice and still have a
row to make while two others are under review. Three requests are one that
runs, one that waits behind it and one that goes before both.

Sessions, requests, orders, deliveries, submissions and reviewers are
interchangeable, so runs that check no liveness use symmetry. Deadlock is checked
in the runs of `Purchase`, `Shipment`, `StockLedger`, `SellerReview` and
`RequestScheduler`. The other three modules really may stop, when every delivery
is answered, the charge refunded or the requests ordered, and say so.

Fairness. `shipment`: `WF(SweepReads)` and `WF(SweepExpires)`, because the sweep
is an interval timer (`startPaymentReservationScheduler`); `WF(Deliver(e))`, here
and in `refunds`, because Stripe redelivers an event until it is answered 200.
Nothing is assumed of customers, staff, operators, requests or the closing of
sessions. Both take the inbox to work; `inbox_crash` shows where it does not.
`stock`: `SF(Work(o))` for each order, because Postgres grants a row's lock to
its waiters in turn and runs its deadlock detector; a connection that fails for
ever is still allowed. `office`: weak fairness of each request's answer, timer and `finally`
block (one thread, bounded calls), and of `Resume` - somebody who paused the
office reopens it. Nobody is obliged to submit, cancel or pause.

### Where the code and its comments part

With a run:

* `attempts`: a late event of a retired attempt ends the purchase and voids the
  attempt in progress.
* `inbox_crash`: a process that dies between the claim of an event and its
  completion leaves the row `processing`; the next delivery is answered 200 as a
  duplicate and the event is never applied. A duplicate that overlaps a failing
  try, or a failure that could not be recorded, loses an event in the same way.
* `office_slot`: after a retry the slot is never given back
  (`request-scheduler.ts:282` clears the flag before the `finally` block of the
  same run sets it again), so one 429 stops the office's queue for good.

Seen in the models, without a run:

* Staff cancel one member order of an unpaid purchase; the session stays payable
  for the whole amount and the rest is sold (`lib/checkout-groups.ts:126-129`
  promises otherwise).
* A pending report handled after the success of the same refund reopens its row,
  and the recomputation for the next refund drops its amount
  (`routes/stripe.ts:1631` against 1569-1573).
* A cart checkout sent again after it committed is refused (empty cart, used
  quote) before its key is looked at (`routes/cart.ts:953` against 1393-1394).
  The replay works for a press that passed the reads before the first one
  committed, and for Buy Now without a quote.
* A part of the total edited while a request reads makes it compare, and charge,
  a mix of old and new parts that never was in force as a whole, if the quote
  holds the same mix or none was sent; an edit after the reads is not seen either
  (`routes/cart.ts:1066-1067`: "must equal what the server would compute NOW").
  `ChargedACurrentPrice` says how far the promise reaches.
* Two pages with different keys (or none) that read the same cart rows both buy
  them: the DELETE does not look at how many rows it deleted
  (`routes/cart.ts:1337-1340`), and only a shared quote keeps the second out.
* The second event of one ordinary charge raises a late-payment incident, because
  the UPDATE matches a row that is already paid (`routes/stripe.ts:1286-1293`
  against 1341-1345).
* An event that names only a PaymentIntent marks every attempt's row paid (1293
  against 1284-1285).
* A refund whose request died before its row was written is issued again once
  another refund moved the recorded position (2865 against 2819-2821).
* Units added to a cart row after a checkout read it are deleted with the row,
  unbought (`routes/cart.ts:1338` against 1330).
* A second ship request rewrites the carrier and the number of a parcel that is
  still in the shop (`lib/order-fulfillment.ts:479` against 427-433), and an
  order may be shipped with a parcel that is cancelled or lost, which no request
  can replace (407-410).
* A review that read the account before a revocation, or before a suspension
  that found its submission already verified, approves the account afterwards
  (`routes/verification.ts:735, 798` against 758-759). `RejectionHolds` says how
  far the protection reaches.

## What is proved

`PurchaseProof` proves for every set of orders, sessions, requests, staff targets
and refund kinds (assumptions: `NoSession` is no session, the two input sets are
subsets of their vocabularies) that the specification keeps

    IInv == TypeOK /\ RowsHaveSessions /\ EachOrderHasOneFate /\ MoneyAccounted

The safety properties are not inductive as they stand: `CommitXorRelease` needs
to know that an order which was sold is covered by a paid row (so the release
claim refuses it) and that one which still waits was neither. So
`EachOrderHasOneFate` says that every order either *waits*, was *sold* (money
recorded, a status that says so) or was *returned* (flag set, a dead status that
no writer brings back), with its axes; `FateStep` is what one step may do to an
order's fate, and each action is shown to be one. `RowsKept` carries "paid rows
stay paid". From `IInv` follow `TypeOK`, `CommitXorRelease`, `HeldWhileWaiting`,
`FulfilledIsSold`, `ReleasedIsDead` and `RecordedMoneyIsAccountedFor`; with the
step lemmas, `PaidRowIsFinal`, `FulfilmentOnlyAdvances` (a sold order's status
moves only by a staff move, by a refund that leaves started fulfilment alone, or
not at all) and the refinement `ImplementsReservation`.
`PayablePageIsTheActiveAttempt` has an invariant of its own beside `IInv`:
`PageInv` follows each pay request's program counter and says that the page a
request is about to hand out is the active attempt's, and that a row about to be
retired has no page any more. It may forget all this once no order waits, because
`FateStep` says that none will wait again. The module begins with the facts on
the projection that it and `ShipmentProof` use, and proves the SQL projection equal to the TypeScript one for every value.

`ShipmentProof`: every step of the composition is a step of `Purchase` or leaves
it alone (`ParcelsRefine`), so all of the above holds of the composition too. The
parcels need more: that a started order's status and axes belong together
(`Coherent`, kept by `Base == IInv /\ Coherent`), since the shipment route judges
the status and the projection reads the axes. On top of it

    PInv == ParcelsTypeOK /\ ParcelNeverAhead /\ ShippedHasAParcel

is inductive: an order at or past `shipped` only advances. `NothingLeavesUnpaid`
follows from both, `CarriedParcelKeepsItsNumber` from the guards and `PInv`, and
`StaffMoveReadsBack` from `Coherent` and the projection alone.

`StockLedgerProof`: for any products, variants, orders and baskets, an invariant
with four parts - types, one writer per row, transactions that stay on their
lines and hold the rows these wrote (a sale holds no variant's own row and leaves
its counter alone), and that what a running checkout has reserved is still available (the lock
keeps others away, and the seller's edit waits for it). From it follow
`NeverOversold` and that a checkout which reaches its commit is backed row by
row. On top of it `Exact` ties every counter to what became of the orders: units
a transaction has moved but not committed are those of the rows it wrote, and the
rest is `LedgerIsExact` (`LedgerStaysExact`), so `GREATEST(0, ...)` never clamps.
`SumsMove` says what a sum does when one order's fate changes. `LedgerImplementsShelf` maps each
commit to one step of `Shelf` and every other statement to a stutter: a sold or
returned basket is found whole in the counters because these are exact.
`StockNeverStuck` assumes finitely many orders: if every running transaction
waited for another, on stock rows or products rows, a smallest set of transactions
that wait only for each other would be a circle, which the database's detector sees and breaks.

A sum here is a count: `TotalOf(n, S)` is the number of pairs <row, unit> with
the row in `S`, so that adding a row adds its units because the two sets of pairs
are disjoint (`TotalAdds`). A fold would need an induction over the rows, which
the prover lacks.

`RefundLedgerProof`: for any refunds, operators and charge,

    IInv == TypeOK /\ ReportsAreTrue /\ RequestsHoldRefunds /\ WithinCharge
            /\ NeverOverclaims /\ RowsAreRecorded

`NeverOverclaims` alone is not inductive: a late report could record what never
happened, and a sum could pass the charge. `ReportsAreTrue` says that a row, an
answer or an event of any age that reports a success tells the truth for good;
`WithinCharge` that the refunds on their way or done never exceed the charge (so
a full sum is a full refund, and the sum is finite). `RowsAreRecorded` is the
other direction: the refunds shown as succeeded never exceed the recorded amount,
which bounds what may still be asked for. It is an inequality because a late
pending report lowers the rows and leaves the recorded amount alone.

`RequestSchedulerProof`: `IInv == TypeOK /\ OnePlace /\ InOrder /\
NobodyWaitsForAFreeSlot`. `OnePlace` ties a request's status to the queue and
the slot and says which requests may hold the slot although they are over (the
retried ones: the finding's state is part of the invariant, so the safety
theorems hold beside it). `InOrder` says that the one with the slot, and the one
a retry put in front, were submitted before the rest of their priority.

`SellerReviewProof`: `IInv` adds to the two badge invariants that a review's
submission is its own (`ReviewsHoldTheirRows`) and that what an approval was
checked against still holds of it (`ApprovalsStayApprovable`): a rejection must
free every pending submission first, so an approval under way can only be over
one that was verified. `RejectionHolds` is that, at the step where it matters.

`WebhookInboxProof`: `OneDeliveryWorks` is inductive together with `TypeOK`, for
any number of deliveries and all faults, and `CompletedIsFinal` follows: a
delivery works only while the row says `processing`. `OnlyFaultsLoseEvents` needs
`Undisturbed`: as long as nothing went wrong one delivery is under way at a time,
a row that says `processing` has a worker, and what counts as done was handled.

`CheckoutRequestProof`: for any products, requests, keys, quotes and prices,

    IInv == TypeOK /\ Placed /\ Ready /\ Unminted /\ Current /\ OneOrderPerQuote

`Placed` says what a committed purchase left (its quote used up and equal to what
was bought, its key its own), `Ready` that a request which reached the transaction
holds a quote equal to what it will buy (nobody rewrites a minted quote),
`Unminted` that the name under which a request may mint is its own, and `Current`
that, part by part, a request during which nothing was edited has read what is in
force. The used quote and the taken key are what keep a second commit out. From
`IInv` follow `OneOrderPerKey`, `OneOrderPerQuote`, `PricedAsQuoted` and, at the
commit, `ChargedACurrentPrice`: every total of every number of parts.
`CheckoutImplementsTill` puts the parts together: whatever is pressed twice,
retried, edited or late, a purchase is one step that takes an open offer as it
stands for a key nobody used; every other step only offers, lapses or changes
nothing a customer was promised.

Only proved: `NothingLeavesUnpaid`, `CompletedIsFinal`, `NeverStuck`, `ReservedIsBacked`, the SQL projection
and the type invariants of the modules with an inductive invariant.

Only model-checked: liveness (`DueReservationEnds`, `CapturedMoneyIsRecorded`,
`SucceededRefundIsRecorded`, `TransactionsEnd`, `UnretriedRequestsSettle`), which
the prover does not reach. Every invariant, action property and refinement that a
passing run checks is also a theorem.

## Plan

The plan was to go from the money outwards: the projection and the purchase, the
inbox and the refunds at its border, the checkout before it, then the stock
under it and the parcels after it, and last the two parts beside it that several
actors decide at once, the sellers and the office's scheduler. That is done.
What a next round would add, in this order: the sweep's loop over several due
purchases (its limit of 25, its abort on an error); the legacy payment of an
order without a purchase; moderation of
products, whose routes decide from an unlocked status.

## Not modelled

* The reservation sweep's loop: one purchase's sweep is in `Purchase`; that one
  failing purchase starves the others is visible in its one `try` block.
* The single-order payment path (`routes/stripe.ts`): no new order takes it.
* Cash on delivery: off by default.
* Catalogue forms, option editing and product moderation (`routes/products.ts`,
  `routes/product-options.ts`) beyond the absolute stock edit: mostly validation
  and single-row writes; the moderation races are listed in the plan.
* A second `sellers` row, evidence files, business and product verification.
* Accounts, permissions, rate limits: checks of one request, no state that
  several requests move step by step.
* Chat, notifications, realtime, order events, statistics, content and media:
  output after a commit, or rows one user writes; nothing here reads them back.
* The office's workflow orchestrator: one sequential run of phases per task.
* Reviews, categories, wholesale prices, money formatting, shipping fees: pure
  functions of one request; the models take a price or a fee as a value.
* The web applications: clients of the API without authority, and most of the
  repository's lines (pages and translations).
