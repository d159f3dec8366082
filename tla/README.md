# Verification of the holdco back office

TLA+ modules of the parts of this repository whose state several requests share,
TLC runs that check them on small instances, and TLAPS proofs of what holds for
every number of requests and rows. The code is the reference: each definition
names, in `PROJECT.json` under `map`, the lines it stands for. Paths below are
relative to the repository.

Contents: 1 inventory of the system, 2 how it is modelled, 3 the modules,
4 the runs, 5 fairness, 6 what is proved, 7 divergences between the code and
what it says, 8 what is not modelled, 9 plan.

## 1. The system

A NestJS API over Prisma and Postgres (`apps/api`), an Electron point of sale
that works offline (`apps/pos`), and two web clients (`apps/admin`,
`apps/wholesale`). Every API handler is an asynchronous function that awaits
database statements and calls to providers one after the other; several requests,
and several API processes, run at once. There are no locks in the process and
few transactions: most handlers read a row, check it, and write it with a
statement that does not repeat the check. That is where the hard behaviour is.

| Component | State it keeps | Operations | What makes it correct |
|---|---|---|---|
| Inventory (`inventory`) | stock_levels, stock_reservations, stock_transfers, stock_adjustments | adjust; create, approve, complete a transfer; reserve; release one reservation or an order's | stock is neither created nor lost; reserved is what active reservations hold; a transfer moves once, only approved, only available stock; one row per location |
| Reseller credit (`credit`, wholesale part of `adapters`) | credit_accounts, repayments and allocations, wholesale orders | accounts and limits, wholesale order with credit reservation and compensation, repayment, cancel, fulfil | used credit is what is owed; orders stay in the limit; repayments pay the oldest order first and nothing twice |
| Checkout (`adapters`, `orders`) | orders, order_payments, the request's own variables | retail and digital checkout, cancel, fulfil, record a payment, refresh the summary | an order shows paid only what was received; goods leave paid; a cancelled order holds no stock |
| Payments (`payments`) | payment_intents, refunds; the provider's own state | create an intent, capture, webhook, refund | intents follow the provider; captures reach the order |
| Loyalty (`loyalty`) | points balance and ledger | issue, redeem | points never go negative |
| Outbox and inbox (`events`) | event_outbox, event_inbox, the broker's queue | claim, publish, mark, back off; consume, deduplicate, acknowledge | each event takes effect, once |
| Offline queue (`apps/pos/src/offline`) | the till's SQLite queue | enqueue, flush, retry | each operation takes effect once, in order |
| Point of sale (`pos`) | devices, cashiers, shifts, cash drops | start and close a shift, cash drop, provision | one open shift per device, cash drops inside a shift |
| Procurement (`procurement`) | import shipments with lines and costs, goods receipts, supplier invoices and payments, purchase requests and orders | upsert a draft, add costs, finalise, receive; pay a supplier | stock received once; landed cost is what the costs say; no invoice paid twice |
| Intercompany finance (`finance`) | cost pools and allocations, invoices, credit notes, payments, WHT, period locks, ledger entries, agreements | month close, allocate, generate, issue, pay, credit, post | nothing changes in a locked period; the ledger agrees with the invoices |
| Shared services (`shared-services`) | service requests, SLAs | open, approve, reject, start, complete, cancel | a request is decided once, by somebody else |
| Logistics (`logistics`) | shipments | create, update, carrier webhook | a delivered shipment stays delivered |
| Agreements (`finance/intercompany-agreements`) | rates with the dates they are in force | create, update | the rate of a month that is over does not change |
| Catalog (`catalog`) | products, variants, facets and facet definitions | create, update, define a facet | the facets say what the columns say |
| Till's sale (`apps/pos/src/renderer`) | the cart, what is asked for it, cached totals, drafts, the open form | edit, coupon, park and restore, pay, submit | what an order takes off and sends as paid fits its own lines |
| Till's screens (`apps/pos/src/renderer`) | the cashier and the device token, the shift it knows, the screen, the runs of `evaluateAppState` | start, sign in and out, idle timeout, activate, open and close a shift, reload | once nobody is signed in the selling screens are left |
| Tenancy, roles, iam, hr, compliance, advisory, audit, taxes, reports, analytics, auth, health, metrics | rows of their own, or none | create, update, list; token checks | see section 8 |

How they interact. Checkout calls inventory (one reservation transaction per
line, all started at once), payments (gateway, then row), loyalty, and orders,
inside one `try` whose `catch` undoes part of it. Orders' cancel calls inventory's
release. Wholesale checkout calls credit around the order's creation. Providers
call back through webhooks, which write intents and order payments while a
checkout may be running. Receiving an import shipment writes the stock tables
directly. Month close calls pools, invoices and period locks; issuing calls the
ledger. The outbox publisher polls rows and the consumer reads the broker; no
producer in this repository writes outbox rows yet. The till replays its queue
against the same API as everybody else.

What is hard: check-then-act over separate statements, transactions at READ
COMMITTED, compensation that can itself fail, a provider that acts before our
row exists, repeated, lost and reordered webhooks, requests that die between two
statements, and row locks taken in different orders. `PROJECT.json` lists each
place under `hazards`.

## 2. How it is modelled

A module has the tables as functions from row ids to records (a finite set of
ids is the bound), and `call`, which gives for every client the handler it runs
and what that handler holds in memory. A request starts when its client is idle.
Each statement or external call whose timing matters is one action, so handlers
interleave between their awaits; a transaction that reads and then writes keeps
its reads as separate actions and applies its writes at its end, with the rows
it updated locked until then where waiting matters (Inventory). Early returns
and refusals that change nothing are no step. What a response looks like,
validation of headers and ids, tenancy filters, timestamps and list endpoints
are left out. Money, points and stock are small integers.

Several values of an index that the code treats alike are one: Inventory has one
product, kept at several locations; Checkout has one customer.

Modules of the back office keep, next to the state, a history variable (`serial`,
`apart`, `calm`, `orderly`, `timely`, `unmixed`) that says whether anything has ever
overlapped. Their properties are of two kinds: what holds under every interleaving,
and, guarded by that history, what holds as long as requests come one at a time and
may stop anywhere. Both are checked in one run with interleavings; section 7 says what
happens to the second kind when requests do overlap.

`CHECK_DEADLOCK FALSE` stands in the configurations where the instance's rows run
out: then no request can start and the model stops, which the system does not.

## 3. The modules

**Inventory.tla** is `inventory.service.ts`. `AdjustFind`/`AdjustCommit`,
`CreateTransfer`, `ApproveRead`/`ApproveWrite`, `CompleteRead`, `CompleteCheck`,
`CompleteDecrement`, `CompleteCommit`, `ReserveFind`/`ReserveCommit` and the
release loop (`ReleaseBegin`, `ReleaseFind`, `ReleaseUpdate`, `ReleaseCommit`)
follow the handlers statement by statement. `Abort` is any failure: the buffered
writes are dropped. `VariantNull` says whether the product has a variant; when it
has none the unique index of stock_levels does not apply (SQL nulls are distinct).
`adjusted` sums the stock_adjustments rows.

**Credit.tla** is `credit.service.ts`, `createWholesaleOrder` of
`adapters.service.ts` and the order's status in `orders.service.ts`. An order's id
is its rank by createdAt, so "oldest first" is by number. A repayment also writes a
captured order payment per allocation (`credit.service.ts:325`): `Allocated` reads those
rows off the repayments, and `RefreshRead`/`RefreshWrite` are what a capture or a webhook
of the order does with them, summing and writing the sum. `lost` is history: the credit
that requests took and then died with.

**Checkout.tla** is the checkout saga with orders, intents, payments, points, the
provider and its webhooks. `todo` is the loop over the tenders, `captured` the
variable `capturedPayment` that outlives one turn of it, `then` what follows a
refresh of the order's summary. The provider (`money`, `events`) is external: it may
take the money, fail and be retried, be refunded, and sends a webhook at each change.
What a gateway makes of the webhook is `ParseWebhook`, by the provider of the reference
(`GatewayOf`): Flutterwave's reads the event `charge.completed` before the charge's own
status and reports a failed charge as captured, Moniepoint's knows no refund and reports
it as processing. `InOrder = FALSE` lets webhooks be
lost, repeated and reordered; `Crashes = TRUE` lets any statement fail and any
request die. The manual gateway, which answers captured always, is the case where
the customer pays just before. The number of points of a points tender is its
amount. Refund rows and `paymentStatus` are left out: nothing reads the first, and
the second is a function of the paid amount and the total.

**Delivery.tla** is the abstract specification of the till: what becomes of an
operation the cashier hands over (`fate`) and which operations the server has done
(`applied`). In the queue, an operation leaves it only after the server has done it.

**PosShift.tla** is the server's side of a till in `pos.service.ts`: `Find` is the
lookup and its check, `Write` the later insert or update, `Reject` any refusal. A
checkout is a request that is done once or not at all; what it does is Checkout's.
`applied` counts as history how often an operation was done.

**PosQueue.tla** extends it with the till: `SafeWrite`, `WriteAnswered` and
`WriteThrows` are `safeWrite` of `app.js`; `SyncQueue` and `FlushButton` the two ways
into `flushQueue`, whose loop is `SkipRow`, `SendRow`, `RowAnswered`, `RowThrows`.
A flush keeps in `todo` the rows as it read them, so its attempts may be stale, and
`Update` is an UPDATE by id that does nothing when the row is gone. `call` is the
network: a request that the till gives up while it is under way goes on in a slot of
`Strays`. `Restart` keeps only the SQLite table. The code treats 409 as done, and no
handler of these operations answers it, so only success counts. The refinement
mapping `FateOf` reads the fate of an operation off `fate` and the queue.

**Imports.tla** is the import half of `procurement.service.ts`: a draft that may be
written again (`DraftRead`/`DraftWrite`), costs (`CostsCheck`, `CostsInsert`,
`CostsReread`, `CostsWrite`, each a statement), finalisation and receipt, each a read and
a transaction. A line's landed cost is represented by the extra costs it was computed
from (`share`). **Payables.tla** is the supplier half: invoices, payments and the entries
they post, the payment's status being computed from the payments read before.

**Intercompany.tla** is one period of `finance/`: `runMonthClose` and each of its parts as
requests of their own (pool, weights, allocation, bills, lock), issuing, credit notes,
posting one bill or all, payments with their withholding notes, remittance. No handler
there has a transaction, so every statement is an action and `TaskStops` may come between
any two. `torn` marks the bills whose last posting was cut short, `paying` those that were ever
paid and whose status does not follow from the last payment yet. Shares are in parts of
`1/Whole`, and weights may miss the whole by `Tolerance` parts, as in the code. No body is
validated, so weights, payments and credits (`Sums`) are any integers. The agreement
enters a bill as `Markup` and `Fee`.
**Agreements.tla** is `intercompany-agreements.service.ts` over days, months and years
(`Midnight`); `charged` keeps what a day cost when its month ended.

**ServiceRequests.tla** is `shared-services.service.ts`: read, author check, write,
audit entry, with the author known only from the audit log. **Parcels.tla** is
`logistics.service.ts` with the carriers' webhooks; the carrier is external. `Parsed` is
the gateways' default: a report that names no status says in transit.
**Consumer.tla** is `events.consumer.ts` with the inbox in several server processes, the
broker being external; **Outbox.tla** is `outbox.publisher.ts`, whose rows come from
nowhere because nothing in the repository writes any. **Catalog.tla** is what
`catalog.service.ts` does with an item's columns and facets, the one place where that
service keeps one fact twice.

**Register.tla** is the sale in the till's `app.js`: a page with one thread that waits in
three places (`AskVariants`/`ItemAdded`, `ApplyCoupon`/`CouponFound`,
`SubmitOrder`/`OrderTaken`), a cache of the totals and a payment form: a single payment,
which shows an amount and may be cash, a split (with the redemption of points) or a plan
(deposit or instalment). `Tendered` is what each of them sends. An open form covers the
page, so that only what was awaited before changes the cart under it; the cashier leaves
the amount of a single payment as it was filled in. **Session.tla** is the same page's choice of a screen:
`checks` holds what each run of `evaluateAppState` awaits (`HealthAnswered`,
`DeviceAnswered`, `ShiftAnswered`, `SummaryAnswered`), `Show` and `Refused` are its ends,
`CheckThrows` an error that ends it without a screen; the other actions are what starts a
run (`Evaluate`) or changes what it reads. A configuration that is incomplete is treated as
one that could not be read: both show `configMissing`. Whether a token has expired is left
open whenever it is looked at. The manager's session is left out.

**Requests.tla** declares what these modules share (clients, `None`), and
**BackOffice.tla** puts those without queue or timer side by side. They share no row, so a
product of their states would say nothing more: `service`, chosen at the start, says
which of them a behaviour is about, and one run checks them all.

`MCInventory`, `MCCredit`, `MCCheckout`, `MCPosQueue`, `MCBackOffice` and `MCOutbox` give TLC its symmetry sets,
slots and request bodies. `InventoryProofs`, `CreditProofs`, `CheckoutProofs`,
`PosQueueProofs`, `ProcurementProofs` (imports, payables), `IntercompanyProofs` and
`BackOfficeProofs` (events, parcels, catalog, service requests, the till's screens and
sale, agreements) hold the proofs, one section per invariant; **SumTheorems.tla** has the
facts about sums that most of them rest on.

## 4. The runs

| Run | Question | Bounds and why they are enough |
|---|---|---|
| inventory_serial | Do the handlers keep the accounts when each runs alone, failures included? | 1 client, 2 locations, 2 reservations, 1 transfer, quantities 1 and 2: enough for a release of two reservations of one row, a transfer to a place with and without a row, and for too little stock |
| inventory_concurrent | What survives every interleaving, and does every handler return? | 2 clients that adjust, transfer, reserve and release one product (with a variant) at 2 locations; one unit comes in at one location and may move to the other (`MaxStock`, `Routes`), reservations are anywhere: opposite lock orders, so lock cycles occur; an approval can overwrite a completion |
| credit_serial | Is the credit exact and the limit kept? | 2 resellers and 2 accounts in any ownership (the limit concerns resellers with one), 2 orders, 2 repayments, amounts 1 and 2: orders paid in part, in full and more than in full |
| credit_repayments | What do overlapping repayments and refreshes keep? | 2 clients, 2 repayments, 2 orders, any refreshes, limit checks out of the way (`MaxUsed = 0`, orders through POST /orders) |
| checkout_serial | Do order, payments, intents, stock, points and provider agree at rest? | 1 client, 2 orders, 1 card intent of any of the three gateways, split tenders, deposit, nothing to pay, digital; webhooks in order |
| checkout_concurrent | Is paid always received and do goods leave paid? | 2 clients, 1 order, 1 intent at Paystack or Flutterwave, cash + captured card or points + card, crashes, webhooks lost, repeated and reordered |
| checkout_live | Does a capture finally show? | 2 clients, 1 order with one card, 1 intent at Paystack or Flutterwave, the other requests beside it (captures, refunds, cancels, fulfilments), provider retries webhooks |
| till_serial | Does the till keep `Delivery`, and do its replays leave the shifts right? | 2 operations of any kind, 2 shifts, one open or none at the start, 1 flush, 1 abandoned request, 2 attempts, 1 restart: a close and a drop, two closes or two openings of which one was done and not answered |
| till_live | Does the queue settle while the till is online? | the same without restarts and with 1 shift |
| till_duplicates | Is an operation done once? (not with two flushes) | 2 flushes; no reply is lost, so nothing else can repeat a request |
| backoffice | What do the back-office services and the till's sale and screens keep when requests interleave, stop anywhere, and messages are repeated, reordered and lost? | see below |
| outbox_stuck | Is a pending event published in the end? (not one) | 1 publisher, 3 rows, batches of 2, 2 attempts |

Bounds of `backoffice`, service by service, with 2 requests at a time unless said
otherwise. Imports: 1 shipment, 3 line ids (a draft of two lines, or two drafts and a
rewrite), 2 receipts, 2 products, extra costs up to 3 (`MaxCosts`), bodies that name a
line once, twice, or two lines. Payables: 2 invoices of 2, 3 payments of 1 or 2: paid in
part, in two parts, at once and too much. Intercompany: 1 clerk and 4 requests
(`MaxServed`), 3 bill ids, 3 recipients of which one has no agreement, weights that are a
thousandth over the whole, two below it, or negative, and amounts of both signs; four requests are enough to close, issue, credit and post, or to generate,
pay, generate again and issue. With one clerk the history `calm` stays true; two clerks
with three requests and two bills keep the four properties too, in a run of their own size
that is not listed. What overlapping requests do is in section 7. Agreements: 1 agreement, months of 2 days
in years of 4, 6 days: a repricing at the start of a second year after months that ended.
Service requests: 1 ticket, 2 actors. Parcels: 2 shipments, numbers and carriers, one
carrier whose webhooks are verified, 2 moves, reports with and without a status. Consumer: 2 servers, 3 messages (one event
published twice, one message without an id), prefetch 2, 3 faults (`MaxFaults`): a crash
after the inbox is written with another server consuming. Catalog: a product and a
variant, two values per column, one explicit set of facets. Register: one product, 2 units (`MaxUnits`),
1 draft, a discount, a coupon, a credit limit of 1 and two submits at once, during which
no draft is kept and nothing is being loaded. Session: 2 runs at once and one form under way, sent while no run is; with three runs
it held too, in a run of its own that is not listed. A restart happens only after a run failed: at any time it leads to the same states.

`Inventory!TypeOK`, `Credit!TypeOK` and `Checkout!TypeOK` are proved (section 6) and in
no run; `PosQueue!TypeOK` documents the types.

`checkout_concurrent` has plans with at most one captured card, because a second
card that captures nothing is recorded with the first one's status (section 7); `checkout_serial` has one line per order, because with two the
first reservation that fails lets the catch block run while the other
transactions are still under way, and the reservation they make is never
released (`adapters.service.ts:419`). References are named after their gateway and one is
opened per behaviour (`MaxReferences`), so that every gateway meets every outcome without
a product of them.

## 5. Fairness

`Inventory!FairSpec`: a handler that runs goes on. Strong fairness, because a
transaction that waits for a row gets it in its turn while others come and go
(Postgres queues waiters); a transaction in a lock cycle, or refused by a unique
index, is eventually aborted (the deadlock detector, the constraint). No fairness
on requests arriving.

`Checkout!FairSpec`: a request goes on or throws and a reservation's transaction
ends (weak fairness: nothing but its own step disables it); a webhook that stays
unanswered is sent again, so it gets through although other requests come
between (strong). It is used with `InOrder = TRUE` and `Crashes = FALSE`: when the
process may die at will nothing need ever show. `InOrder` is about the webhooks of one
intent: a provider sends the next when the last was answered. A second client keeps
opening, capturing, refunding, cancelling and fulfilling beside the webhook, so the two
windows in which a capture is lost (section 7) are in the run; `CaptureIsSeen` speaks of
the webhooks that fall outside them. No fairness on the provider
taking money, on customers, or on new requests.

`PosQueue!FairSpec`: the timer of `syncQueue` goes off for ever (`setInterval`), so a
flush starts again and again while the till stays online; the loop goes to its next
row; a request is answered or throws, and the server handles what it got. All weak:
nothing but its own step disables each. No fairness on the health check, the cashier
or the button: `QueueSettles` allows the till to go offline instead.

`Outbox!FairSpec`: the interval goes off for ever and starts a tick whenever none runs;
a tick that has begun goes on; locks and backoffs lapse with time (weak). The broker may
close the connection at any time but can be reached again, each time for long enough to
claim and to publish (strong, on the condition that the channel is there). The
counterexample of `outbox_stuck` keeps all of it.

The back-office services have no loop of their own, so `BackOffice` has no fairness.

## 6. What is proved

Every safety property of the runs that pass: the invariants and the action properties,
and the refinement of Delivery. The theorems hold for every number of clients, rows,
messages and amounts, from the named assumptions on the constants. Where a theorem has a
hypothesis it is one of these, and section 7 says what happens without it:

- `OneClient`: requests are served one at a time; each may still die at any step, unless
  `~Crashes` is there as well. `MaxHandlers = 1` says the same of the server of a till,
  whose requests, replies and restarts overlap all the same. In the back office the
  histories (`serial`, `apart`, `calm`, `orderly`, `timely`, `unmixed`) are part of the
  property, and overlapping is a step like any other that makes them false.
- `UniformCapture`: the cards of one request agree on being captured at once.
- `~VariantNull`: the product has a variant. `~DirectOrders`: wholesale orders go through
  their reservation. `InOrder`: a provider sends an intent's webhooks once and in order.
  `OneLine`: an order has one line.

**Sums.** Many of these invariants compare a column with a sum over rows. `SumTheorems`
proves what the community modules' `SumFunctionOnSet` and `SumFunction` compute. Their
definition is a recursive function over the subsets of a finite set: it is first shown to
exist and to be unique (`SummingExists`, `SummingUnique`, by well-founded induction on
the cardinality, with the set of the bad subsets in the place of a property, because the
induction theorems that take a property cannot be instantiated); then that the order does
not matter (`SumRemove`), and from it how a sum changes with an element or a value
(`SumInsert`, `SumChange`), that it is linear, monotone and additive (`SumLinear`,
`SumMonotone`, `SumUnion`) and blind to zeros (`SumSupport`). The tables summed over are
assumed finite (`FiniteAssumption` in their modules): a database has finitely many rows.

**Inventory**

- `TypesHold`: `TypeOK`, by `TypeInv`, which adds `HoldsItsRows`: a handler in the middle
  of an operation holds the rows that operation needs. Without it the next update would
  index a table with `None`.
- `ApprovalFirst`: `CompletedWasApproved`. A client between the status check and the
  commit of a completion works on a transfer that is approved or completed; no step takes
  a transfer out of these two, which is also why the missing second check is harmless for
  this property and only for it.
- `NothingGained`: `StockConserved`, however requests overlap. `RowInv` says that a row
  not in use is empty and a handler holds rows of the places it works on; a completion
  takes from one row and gives to another in one commit.
- `OneRow`, `TransfersMoveStock`, `ReservedIsPromised`, `TransferLeavesReserved`:
  `OneRowPerLocation` (with a variant or one client), `StockPlaced`, `ReservedMatches`
  and `TransferWithinAvailable` (one client). `SerialInv` says of the client that what it
  found is still so when it commits (`Undisturbed`): the transfer is approved, the level
  has what is taken, and the reserved counts with the releases buffered so far are the
  sums of the reservations not yet released (`ReleaseHolds`).

**Credit**

- `TypesHold`: no used, paid or unapplied amount is negative, which rests on `Subtract`
  (the code's `Math.max(0, ..)`) and on `Share`.
- `PaidWasBacked`: `PaidIsBacked`, however repayments and refreshes overlap. `BackInv` says
  that what each of them has read is within what repayments have allocated by then, and a
  commit allocates the share it adds; allocations only grow, so a paid amount written late
  is too low and never too high.
- `NoOverpayment`: with one client no order is paid more than its total. With two it is
  false, and section 7 says how.
- `RepaymentsAreSpent`: a repayment is what it allocated and what it left, with any
  overlapping (`AllotInv`). `RepaymentsAreAllocated`: with one client an order's paid
  amount is the sum of the allocations (`RepaymentsAddUp`).
- `CreditIsExact`: `CreditExact`, for one client and `~DirectOrders`. `ExactInv` counts
  besides what is used and owed what a request holds between its reservation and its
  order, and what requests that died have taken for ever (`lost`).
- `OrdersStayWithinLimit`, `OldestPaidFirst`: `OrdersWithinLimit`, `OldestFirst`. What the
  client read is current (`CurrentInv`), and the orders it has still to look at come after
  those it has paid.

**Checkout**

- `TypesHold`: every handler has the order, intent and tenders its next step needs
  (`Equipped`).
- `CardsReceived`: `CapturedIsReceived`, with `UniformCapture`. `SoundInv` follows the card
  being worked on from its intent to its payment (`OnCard`): what `capturedPayment` says is
  about the reference the handler holds, since after a captured card only captured cards
  are left (`Truthful`); a webhook that is read as captured is about money the provider
  has, or about a charge that failed at Flutterwave (`EventSound`); and the
  provider never takes back that it had the money, and a charge that failed stays one or
  becomes a capture (`Grows`), so what was true when it was read is true when it is
  written. All four theorems name this exception (`MisreadFailure`); for the other gateways they
  are what they would be without it.
- `PaidWasReceived`, `FulfilledWasPaid`: `PaidIsReceived`, `FulfilledIsPaid`, under the
  same condition, with every interleaving, failure and webhook. `PaidInv`: the sum a
  handler has read and not written, and the paid amount it got back, have been received
  (`Covered`). They may be stale; the money received only grows, so they are never too much.
- With one client and no failure of a statement: `PaidWasCaptured`, `PaymentsFollowed`,
  `IntentsFollowed`, `CancelledHeldNothing` for the four properties of `checkout_serial`.
  Each invariant says which handler is about to repair what is not right yet: an order
  whose sum is not its paid amount is being refreshed (`SummaryInv`), a payment that does
  not follow its intent is being marked (`FollowInv`), an intent that does not follow its
  provider has the webhook that will tell it on its way (`ProviderInv`), and a cancelled
  order has nothing in `held` because the handler that cancels has let go all it found
  (`StockInv`). `LinkInv` ties payments and handlers to the orders of their intents.

**The till**

- `QueueDelivers`: `Delivered`, that PosQueue implements Delivery, for any number of
  operations, overlapping flushes, abandoned requests and restarts. Every step maps to a
  step of Delivery or to none. `IInv` says that a request anywhere belongs to an operation
  that was handed over (`CallsAreKnown`), that the slot of a write is used only while the
  operation is being sent (`WritesAreSending`), that whatever a flush read or holds was put
  into the queue (`FlushesAreQueued`, `RowsAreQueued`), and that a reply that says yes is
  about an operation the server has done. The last is what makes two flushes of one row
  harmless for this property, and only for it.
- `OneShiftStays`, `DropsStayInOpenShifts`: `OneShiftAtATime` and `DropsWhileOpen`, with
  `MaxHandlers = 1`. `ShiftInv`: at most one request is between its check and its write,
  wherever restarts and timeouts have moved it (`OneChecked`), and its check still passes
  (`CheckHolds`); a shift the server closed had one close, done once (`ClosedOnce`).
- `BackOfficeProofs!SignedOutIsShown`: `SignedOutLeaves`, for any number of overlapping
  runs, but for an error that ended the last one and a configuration that could not be
  saved. Inductive by itself: the cashier goes only in a step that starts a run, sets
  another screen or throws, and a run reads the cashier after its last await.
- `BackOfficeProofs!OrdersArePaid`: `OrdersAddUp`. The cached totals are those of the cart
  (`TotalsRight`), and the form of a single payment shows what is due unless a coupon or an
  item came while it was open, or the order of an earlier submit emptied the cart
  (`FormRight`); several payments are compared with the totals on submit.

**Procurement**

- `SuppliersArePaid`: `PayablesAgree`. What a payment has read are payments of its invoice,
  and, while `apart`, all of them (`DeskKnows`, `DeskIsCurrent`).
- `ReceiptsAreStocked`, `CostsAreShared`, `ReceivedAsShipped`: `StockIsReceived` with any
  overlapping, `LandedWithinTotal` and `ReceiptMatchesShipment` while `serial`. One
  invariant, `ImportsInv`: what a request has read, and the total it is about to write, are
  as the tables are (`CallIsCurrent`); a cleared shipment has one share of its costs on
  every line (`Landed`); the receipt of a received one is alone (`ReceivedOnce`).

**Finance**

- `LockProtects`: `LockHolds`, for any number of handlers and any amounts. `Knows` is about
  what a handler knows where it stands: while no two overlapped, the one that is about to
  issue has seen no lock that still holds, and a payment that is about to write "issued"
  has read a bill that was no draft and of which nothing is paid any more.
- `BooksStayBalanced`: `BooksBalance`. Who posts a bill has marked it as torn and knows
  which entries it has written (`Posts`), a bill that becomes issued by a payment was paid
  before (`paying`); a bill that is not torn has none or the pair.
- `PaidBillsAreBanked`, `ClosesAreComplete`: `PaidIsBanked`, `CloseIsComplete`. `Aware`
  follows a month close from place to place: which companies have their share, their
  live bill, and that the weights it accepted, within the tolerance, are those of the
  allocations. Negative shares, weights and payments are allowed throughout.
- `BackOfficeProofs!PastRatesStay`: `PastRatesKept`. An agreement has the rate it charged a
  day at, or begins after that day (`RatesHold`), and the row an update is about to write
  passes the checks on dates against the agreement as it is (`DraftFits`); that a month
  once over stays over is arithmetic of dates.

**Events, parcels, catalog, service requests** (`BackOfficeProofs`)

- `EventsKept`, `NothingIsLost`: `HandledOnce` and `NothingLost`, for any number of servers
  and copies of messages. A handler which inserted the inbox row is the only one of its
  event and nobody had the effect before (`FreshIsOne`, `FreshIsUnhandled`): that is what
  the inbox's key is for. A server with a channel holds what it works on
  (`ConsumingHolds`); one whose channel closed may work on, but can settle nothing.
- `OneStatus`: `StatusIsReported`. A report on its way is true (`ReportsAreTrue`) and, while
  reports are timely and name their status, the next one of its number (`ReportsTakeTurns`), so that overwriting
  never goes back.
- `FacetsFollow`: `FacetsFollowColumns`. Inductive but for the types: an edit deletes the
  facets of the keys it was sent and inserts those of its columns.
- `FourEyesHolds`: `FourEyes`. One part holds always: who starts a request that requires
  approval read it as approved, or in progress, and it had been approved then
  (`TicketKnown`, `VisitKnown`). The other needs `orderly`: what was read still holds at
  the write (`VisitAlone`), and the approval is in the audit log or its handler is about
  to enter it (`Decided`).

Only model-checked: liveness (`HandlersReturn`, `CaptureIsSeen`, `QueueSettles`), which
rests on fairness and ENABLED, of which the installed provers have no rules; the two
expected violations, which are counterexamples; and Outbox, of which no run has a
property that holds.

## 7. Divergences

Two have a run that TLC finds violated: two flushes of the till's queue that overlap,
the timer's and the button's, send the same operation twice and the server does it twice
(`till_duplicates`); and no event of the outbox is ever published, because a raw query
returns column names and the code reads field names of its rows, before its `try`
(`outbox_stuck`).

The models show more. Each of the following is reached by the modules as they are, or by
giving a configuration a second client, a second clerk or another constant.

Stock, credit and checkout:

- an approval that read pending before the completion overwrites it, and the
  transfer moves its stock again (`StockPlaced` with two clients,
  `inventory.service.ts:268,294`);
- two first movements of a product without variants create two stock rows
  (`OneRowPerLocation`), a transfer takes stock reserved after the check
  (`TransferWithinAvailable`);
- two wholesale orders together exceed the limit (`OrdersWithinLimit` with two clients,
  `credit.service.ts:213`; `docs/reseller-wholesale-mvp-tasks.md:10` wants it enforced);
- overlapping repayments allocate one balance twice (`RepaymentsAddUp`), and because each
  leaves a captured order payment, a capture or webhook that refreshes the order
  afterwards writes more paid than the order's total (`payments.service.ts:156`); a wholesale
  order through POST /orders takes no credit (`DirectOrders = TRUE`, `CreditExact`);
  cancelling a wholesale order gives no credit back;
- a card tender that captures nothing after one that was captured is recorded with
  the captured status and counts as paid (`CapturedIsReceived` without
  `UniformCapture`, `adapters.service.ts:281`);
- a charge that Flutterwave reports as completed and failed is recorded as captured
  (`flutterwave.gateway.ts:139`), so that an order can be paid and fulfilled for which no
  money came; the properties about received money name this exception
  (`MisreadFailure`). A refund whose own status were "successful" would be read as captured
  too; the model takes it not to be;
- a webhook that comes when the provider has the reference and the intent has no row is
  answered with ok and forgotten, and one that is handled between the intent's row and its
  payment marks nothing: in both cases the capture never reaches the order unless somebody
  captures or reports again (`payments.service.ts:94`, `payments.webhook.service.ts:55`;
  `CaptureIsSeen` excludes both);
- a replayed or late webhook undoes a capture (`IntentsFollowProvider` with
  `InOrder = FALSE`, `payments.webhook.service.ts:50`; `docs/security-test-checklist.md:32`);
- two redemptions spend the same points; capturing an intent made by
  POST /payments/intents leaves its order unpaid.

The till:

- with `RepliesLost = TRUE` one flush is enough to repeat an operation, and with two
  handlers at the server two openings or two closes that overlap both succeed;
- `docs/pos-offline-architecture.md:11` wants operations persisted "before attempting
  network calls"; `safeWrite` queues them only after the call has failed, so an operation
  that is being sent when the till dies is lost (`Delivery!Restart` says so);
- a shift operation that was done but not answered is refused when replayed, never with
  409, and stays in the queue as failed;
- in the sale, a queued order leaves the cart filled, so that it can be sold again; items
  added while an order waits for its answer are dropped from the cart with the rest; a
  form can be submitted twice while the first submit waits; a coupon or a product whose
  variants were awaited (`app.js:3067`) that arrives while the form of a single payment is
  open changes what is due and not what the form shows; cash sends no payment, so that
  nothing in the order says it was paid; discount and coupon
  stay for the next sale; a restored draft replaces a cart that is not empty, and drafts
  beyond `MAX_DRAFTS` are dropped without a word;
- only the health check of `evaluateAppState` is inside a `try` (`app.js:864`): a request
  that throws later ends the run, the screen stays as it was, at the start "loading"
  (`SignedOutLeaves` without `failed`), and so does a sign-out whose configuration cannot
  be written (`app.js:414`), with nobody signed in; a refreshed shift, or a device token that expires,
  sets no screen, and the idle timer that fires is not the one a sign-out would have stopped.

Procurement:

- a receipt may leave out lines of the shipment, or name one twice and stock it twice;
- costs added after clearance reach the total and no line's landed cost; writing a draft
  again sets the total without the cost lines that stay;
- two receipts that overlap both stock the shipment, a draft written late deletes lines
  that were costed, two payments that overlap leave a paid invoice partial
  (`ReceiptMatchesShipment`, `LandedWithinTotal`, `PayablesAgree` without their history).

Finance:

- generating again overwrites the amount of an issued or part-paid bill, and even of a
  credit note, and leaves its ledger entries as they were; after the bill is paid it
  writes a second one;
- amounts are not checked (`finance.controller.ts:183,273`): a payment taken back turns a paid
  bill issued again, in a locked period too, and even a draft that was paid first, which
  then is issued and not posted; a payment that stops before the status is written leaves
  the old one;
- weights may add up to a thousandth more or less than the whole
  (`cost-pool.service.ts:59`), and the allocations with them;
- issuing makes a paid bill issued again; credit notes are not capped and look at no
  lock; posting all posts drafts as well;
- every payment of a bill, however small, creates a withholding note for the whole bill;
- the cost pool is written before its weights are checked, and pool, allocation and
  generation by themselves look at no lock;
- two postings of one bill that overlap leave its entries twice (`BooksBalance` without
  `calm`, with two clerks).

Agreements:

- "Rate changes must take effect on Jan 1" (`intercompany-agreements.service.ts:196`)
  is evaded by a second agreement that overlaps, of which an invoice takes either;
- within the current month agreements may still be backdated and repriced; an end may be
  moved later after it has passed, and cannot be taken away;
- an update writes the whole row it has read: of two that overlap one is lost.

Service requests, parcels, events, catalog:

- the author of a request is an audit entry written after the row: until it is there,
  and for ever if it is not, the author may approve (`FourEyes` without `orderly`);
- of two decisions that overlap the later one wins; nothing sets a request on hold;
- a report that comes before its row is answered and lost, one that comes late
  overwrites a later status, and one without a status says in transit
  (`sendbox.gateway.ts:20`); gateways without `verifyWebhook` refuse every report;
- a consumer that dies between the inbox and the effect never handles the event; after
  its connection closes a process consumes nothing until it is started again, and a
  handler that ends after that takes the process down;
- facets sent with an item, an empty list too, drop the ones its columns would give; a
  column that is emptied leaves its old facet; a "concentration" defined by a caller with
  scope variant makes every product that has one refused.

## 8. Not modelled

- Taxes, accounting and consolidated reports: they sum rows over a period and write one
  row for the sum, which is induction over data and no protocol. Read while surveying:
  generating a VAT return again overwrites the amounts of one that was filed
  (`tax.service.ts`), and a provision that was paid becomes provisioned again.
- External invoices of `finance/` and the turnover a variable charge rests on: one
  insert, one sum.
- Purchase requests and purchase orders: inserts no other state depends on.
- Devices, cashiers and PINs of the point of sale; the till's manager session, taxes,
  shipping, points, refund form, lists, receipts and printer: they are shown or passed through.
- Brands, suppliers, categories, price lists, assortments; tenancy, roles, iam, hr,
  compliance, advisory, audit, third parties: rows created and updated by key, with no
  protocol between requests.
- Provider configuration, gateways' signatures and HTTP: I/O and cryptography.
- Reports, analytics, exports: read rows and sum them.
- Authentication: a library verifies the token, a table maps roles to permissions.
- The web clients' screens, scripts, schema, seed data and migrations; unique indexes and
  nullable columns that matter are in the modules that depend on them.

These parts are most of the repository's lines; the modules are about the parts where
two requests, a failure or a repeated message can leave wrong state behind.

## 9. Plan

1. Inventory, Credit, Checkout: done (types, safety, liveness).
2. PosQueue with PosShift over Delivery: done, with the refinement proved.
3. Imports, Payables, Intercompany, Agreements, ServiceRequests, Parcels, Consumer,
   Catalog, Register, Session, composed in BackOffice, and Outbox: done.
4. Proofs of the safety properties: done for every invariant and action property of the
   runs that pass, with the refinement of Delivery.
5. Left to prove: types of PosQueue; what the serial theorems of Checkout say when
   statements fail (there the code keeps less, see section 7, and the weaker statement
   has to be found first).
6. Left to model: section 8, foremost purchase orders, tax returns and devices.
