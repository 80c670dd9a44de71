# A TLA+ model of the Wobee shop

Wobee is an online shop: a TypeScript API (`src/apps/api`) on Postgres and Redis, a worker process for
e-mail, and two Next.js front ends. This directory models the part of it in which independent requests
meet on shared rows - orders, stock, payments, refunds, returns, notifications, bags, coupons, sessions,
the catalogue's cache - and the arithmetic of an order's money. The modules are model-checked with TLC on
small instances, and most of what they promise is proved with TLAPS for instances of any size.

Contents: [1 Inventory](#1-inventory) · [2 What the modules model](#2-what-the-modules-model) ·
[3 What TLC checks](#3-what-tlc-checks) · [4 Fairness](#4-fairness) · [5 What is proved](#5-what-is-proved) ·
[6 What the runs found](#6-what-the-runs-found) · [7 What is left out, and why](#7-what-is-left-out-and-why) ·
[8 Plan](#8-plan)

## 1 Inventory

Every module of the API is layered alike: HTTP controller, use case, domain function, repository.
A use case is a sequence of `await`s. Between two of them any other request may run, in this process or
in another one, and the process may die. What holds the system together is a single pattern: read the row,
decide, and then run `UPDATE ... WHERE id = ? AND status = <what was read>` - if no row matches, somebody
else was faster and the caller has lost.

| Component | State | Operations | Meets | What makes it correct |
|---|---|---|---|---|
| orders (`modules/orders`) | `Order.status` and its timestamps | checkout, confirm, mark payment failed, start processing, pack, ship, deliver, return to origin, cancel | inventory in the same transaction; notifications after the commit | an order only moves along its life cycle; the loser of a race changes nothing and announces nothing |
| inventory (`modules/inventory`) | `quantityAvailable`, `quantityReserved` per row | reserve, finalize, release, restock, adjust | locked by orders' transactions and by staff | reserved = what unpaid orders hold; available = entered - sold; nothing is oversold |
| payments (`modules/payments`) | `Payment`, `WebhookEvent` | create a Razorpay order, confirm COD, webhook, collect cash | Razorpay (calls and webhooks), orders | payment and order tell the same story; only money really captured in full confirms an order; an acknowledged event is applied |
| refunds (`modules/refunds`) | `Refund` | refund a cancelled order, refund a return | Razorpay, payments, called by admin and returns | money goes back at most once and only for what was cancelled or returned; the rows are true |
| admin (`modules/admin`) | none of its own | cancel with refund, deliver and collect | composes orders, refunds, payments | a crash between two of its calls loses nothing |
| returns (`modules/returns`) | `Return`, `ReturnItem`, `Order.hasActiveReturn` | request, approve, reject, issue refund, mark refunded | orders (read), refunds, notifications | not more is returned than was ordered; one decision, one refund, one e-mail |
| notifications (`modules/notifications`, `worker.ts`) | `Notification` rows; BullMQ jobs in Redis | enqueue, process, retry, recover, mark failed | every module enqueues; the mail provider | one worker at a time sends an e-mail; each e-mail is sent once and settles |
| checkout (`orders/.../checkout.use-case.ts`) | writes order, cart, stock and coupon in one transaction | place an order | cart, coupons, pricing, shipping, inventory | one bag is ordered once; totals agree with what is stored |
| cart (`modules/cart`) | `Cart`, `CartItem` | resolve or create, add, change, remove, apply a coupon code, merge a guest's cart, reactivate | checkout locks the cart row | a line stays within the shelf; a bag is ordered once |
| coupons (`modules/coupons`) | `Coupon`, `CouponRedemption` | validate and lock, finalize; edit, switch off, delete | checkout | usage limits hold under concurrency; the discount never exceeds the lines it is for |
| auth (`modules/auth`) | users, refresh tokens, one-time codes | log in, refresh, log out, revoke, verify, reset | every guarded route, both front ends' refresh coordinators, staff management | a chain of refresh tokens has one live end; a lost answer does not end a session; only reuse is taken for theft |
| pricing, offers, shipping, settings | configuration rows | edits, and pure functions of them | cart, checkout | amounts reconcile, are never negative, and do not depend on the order of rows |
| catalogue and its cache | products, categories, collections; Redis keys with a version | edits, cached reads | front ends | a read that overlaps an edit does not leave a stale value under a live key |
| the rest | banners, testimonials, media, wishlist, users, staff, analytics, audit | single-row edits, append-only logs | - | no state machine |

The behaviours that are hard, and hard to test: handlers that decide on stale reads; webhooks that are
duplicated, late or out of order; Razorpay calls whose answer is lost; steps after a commit that a crash
cuts off; e-mail jobs that are lost, redelivered or processed twice; return requests and bags that are not
serialised at all; refreshes of one session that overlap, or whose answer is lost; a cache that is filled
by a slow read after it was invalidated, or by a Redis that fails at any call; roundings that have to add up. Each is listed in `PROJECT.json` under `hazards` at the line where it bites, with the
properties that would catch it - or the reason why none does yet.

## 2 What the modules model

```
StockLedger <--refines-- Orders <--extends-- Payments     Notifications        Returns
                                                |               |                 |
                                          PaymentsProofs  NotificationsProofs  ReturnsProofs

Carts <--extends-- Checkout        Sessions          CatalogCache          Billing
                      |                |                  |                   |
                CheckoutProofs   SessionsProofs   CatalogCacheProofs    BillingProofs -> Sums
```

`PaymentsProofs` has the theorems about Orders as well as those about Payments. `Sums` models nothing: it holds what is
proved about sums over finite sets, for the proofs about money.

`MC*.tla` modules only give the constants values; each `.cfg` is one run.

**StockLedger** is the promise, not the code: an order takes its whole basket off the shelf once, turns
the hold into a sale or gives it back, once. It knows nothing of statuses, counters or handlers.

**Orders** is the order state machine with its stock. A handler is a request that is being served:
`ReadOrder` is the `findById` outside the transaction with the guards of the use case, and the record it
leaves in `request[h]` is what the handler has seen; `ConfirmOrder`, `CancelOrder`, ... are the
transactions - `TransitionStatus` is `OrderRepository.transitionStatus`, and the conjunct next to it the
inventory call in the same commit; `LoseRace` is `count = 0`; `NotifyOrderEvent` is what follows the commit;
`Crash` drops a handler wherever it is. `From` and `To` collect the statuses the use cases accept and
write. Stock is one row per variant, as `InitializeInventoryForVariant` creates it. `entered` is a history
variable: what the books were opened with and adjusted by, so that a property can say what `available`
should be. `PlaceOrder` is the checkout transaction as far as order and stock are concerned.

**Payments** extends Orders with money. The actions of Orders are conjoined with what happens to payments
around them, so no transition of an order exists in Payments that is not one of Orders. The environment is
Razorpay: `gatewayOrder` (its orders), `money` (what was captured, `short` if it was another amount, or
refunded), `failedAttempt`, `shown` (which of its orders the customer can pay). A webhook may be delivered at
any time, any number of times, by several handlers at once, until its row is `processed`. `task[h]`
says what a handler does around its order transaction: creating the Razorpay order, the webhook's
lookup and acknowledgement, the collection of cash, the refund. Orders are paid online, on delivery,
or on delivery with a prepaid delivery fee (`COD_UPFRONT`, the order has `payableOnDeliveryPaise`).

**Returns** is a module of its own: returns of one delivered order and their refunds. Orders share no return
state, so one order is enough. No use case here runs a transaction; each write is an action, and
`handler[h].pc` names what the handler does next. The refund of a return, called
through a port, runs in the same handler. Quantities are kept, because eligibility is about them; the
amount of the refund is abstracted away, because no guard depends on it. The feature switch and the return
window only decide whether a customer may ask; that the customer does not ask is always possible.

**Notifications** is the row, the BullMQ job, and the workers. `job`, `made` and `lock` are BullMQ's, modelled
from how `worker.ts` and `notification.queue.ts` use it: a job id is added once, attempts are counted, failed
jobs stay, a job whose worker lost its lock goes back to waiting. `stale` abstracts the clock: it becomes
true when a claim is older than ten minutes. `Faults` says how often each of five things may go wrong: a lost job
(`redis`), a worker too busy to renew its lock (`stall`), a dead worker (`crash`), a query that throws (`db`), and a mail server
that takes the e-mail although `send` throws, because its answer is lost or late (`answer`); `happened` counts them.

**Carts** is every operation of a bag, none of which runs in a transaction. A user has one `Cart` row for life, which
an order makes CONVERTED and the next visit ACTIVE again (`ActivateCart`); a guest's cart is used once. `handler[h]`
holds what a request has read and still writes, so two tabs of a customer interleave between every two calls. A write of
a row that is gone, or one that the unique key refuses, throws. The shelf is any number up to `Shelf` at each read, which is what
stock that others buy looks like from here.

**Checkout** extends Carts with `CheckoutUseCase` and the coupon. The bag is read first (`ReadBag`), then the
transaction locks the cart row and re-reads its status (`LockCart`), locks and counts the coupon (`ValidateAndLock`), and
commits (`PlaceOrder`). Whatever else writes these rows waits for the locks. `sessions` is a history variable: how often a
cart became ACTIVE. Administrators edit, switch off and delete the coupon. There is one coupon and its limits are set. The stock of the same
transaction is in Orders and its amounts in Billing; here they only decide whether the checkout fails, which it may.

**Sessions** is the `RefreshToken` table, the cookie of each browser, and requests as sequences of database calls: login,
refresh with rotation, the grace window in which a lost answer is recovered, and the detection of reuse. `tabbed` are
browsers that may have several refreshes in flight (the storefront's tabs do, the admin console locks). `aged` is the clock: a valid row has
expired, or the grace of a revoked one is over. An answer may be lost or overtaken, a request may fail at any await,
an account be deactivated or all its sessions revoked at any time. `granted`, `rotated` and `ended` are history:
what clients were given, what they exchanged, and which sessions the server's side cut short.

**CatalogCache** is the read-through cache: every call of Redis and Postgres in a request is an action, and every call of
Redis may fail. A key is a page, a version and a fingerprint of the stock; `INCR` of the version after a commit is the only
invalidation. The home page is built from the cached listing, so a request has two keys. `db` counts the commits, which is all a
page shows. `busted` is history: the newest write that the bumps up to a version stand for. A version that cannot be read is
taken for 0; what is built under that fallback is marked as not sound and is the one thing `FreshPastWrite` excepts.

**Billing** is the money of one order in paise: price by weight or fixed, the choice among offers, the coupon and its split over the lines by
largest remainders, GST by slab, the delivery fee, and what returns are worth. The bag is read, checked and ordered in
three steps, between which administrators edit rate, rule and offers. `Math.round` is `Round`; where the code multiplies by a
binary fraction (`percent / 100`), half a paisa may fall either way (`Taxes`). Rows that are read in no order are sets.

`PROJECT.json` maps every definition to the lines it stands for. Operators whose comment begins with
"Mutant", or with "A bug", are not part of any specification: each is a plausible bug, used in place of the definition next to
it to see that a property notices.

## 3 What TLC checks

| Run | Instance | What it shows |
|---|---|---|
| `orders` | 2 orders of 3 and 1 units, 2 variants with 2 and 1 in stock, 2 handlers, corrections of ±1 up to 3 units | the books balance (`ReservedIsWhatUnpaidOrdersHold`, `AvailableIsWhatWasNotSold`), nothing is oversold, statuses follow the life cycle, e-mails are true, and the whole refines `StockLedger` |
| `payments` | 1 order paid in any of the three ways, 2 handlers, 2 Razorpay orders, 1 crash, fair | payment, order and Razorpay agree at every step; only the recorded Razorpay order can be paid; acknowledged events are applied; refunds are true; a payment never goes back; money captured in full settles its order although a handler crashes anywhere |
| `notifications` | 1 e-mail, 2 callers, 2 workers, 3 attempts, each of the five faults once, fair | two workers never send at the same time; an e-mail is repeated at most once per crash, database error or lost answer of the mail server, and never by a lost job, a sweep or a stall; it is given up only when its attempts are spent or one failed for good; it settles unless a crash or a database error orphans it |
| `returns` | 2 returns of an order of 2 shirts, 1 customer, 2 members of staff, either provider | claims stay within the order, money goes back at most once, decisions exclude each other, every decision is announced once |
| `returns_crash` | 2 returns of that order, 1 customer, 1 member of staff, 2 crashes | when handlers die anywhere and the return is taken up again, money still goes back at most once, and each crash costs the Refund row of at most the return its handler worked on |
| `checkout` | 2 customers, or one who shops as a guest first; 2 variants, 2 requests, 3 lines, 2 orders, 1 coupon of limit 1 | a bag gives one order per time it became active, from an active bag; the coupon keeps its limits while its admin edits it |
| `sessions` | 1 browser with or without tabs, 2 requests at once, 4 tokens of 1 session, 1 token that ages | the chain of tokens never forks; a browser that refreshes one call at a time outlives any number of lost answers |
| `catalog_cache` | 2 requests, 1 write, 2 sets of variants in stock, 2 pages cached at once | nobody is shown a page from before a bumped write |
| `billing` | bags of up to 3 dresses (by weight) and 3 clips (fixed price), 2 rates, 2 rules, 4 offers in any combination, 3 coupons, 2 GST slabs, 1 edit | the total is what the lines come to; no amount is negative or above what it is taken from; the fee is the one shown; one offer wins |
| `checkout_twice`, `sessions_suspect`, `billing_overrefund` | an instance small enough to show it | violated: see [section 6](#6-what-the-runs-found) |

Why the bounds are enough to be interesting. *Orders*: the baskets ask for three units of the first variant
where there are two, so checkouts do compete; two handlers are what a race takes, and each handler is
reused without limit. Orders of different baskets meet only in the counters of a variant. *Payments*: an
order's payment state is its own, and two handlers are two webhooks, two clicks, or a webhook and a
member of staff; two Razorpay orders are what two racing clicks create. One crash is enough to cut every
step; a second crash is only tried by the proofs. *Returns*: quantities 1 and 2 of 2 give the partial, the full
and the excessive claim; two returns are what an overlap of claims takes. `ClaimsWithinOrdered` passes
with one request of the customer at a time and each item named once: there it says that staff's decisions, racing each other and the
request, do not hand out a quantity twice. It fails as soon as either is lifted: `MCReturnsOverclaim.cfg` shows it for two
requests at a time, and a request that names an item twice does it alone (section 6). The member of staff of `returns_crash`
takes up return after return and dies twice; staff at the same time are in `returns`, and crashes while several are at work
in the theorems, which are about any number of both. *Notifications*: e-mails do not interact, so one suffices. Three attempts are
the queue's own number. *Checkout*: two requests are what a double click, a merge against a checkout or the last use of a
coupon takes; the second customer's bag is left from an earlier visit and only checked out (`Returning`), and one of the requests
does not edit (`Editors`), because edits of both meet in Carts' rows in the same way as edits against a checkout. Limit 1 is the
boundary. *Sessions*: four tokens are a login, a rotation, its recovery and one more; two requests are the two tabs, or the
retry and the late original. *CatalogCache*: one write makes two versions, which is what staleness takes, and two pages one
listing and the home page built from it; the proof has no such bounds. *Billing*: amounts of a few paise
bring every tie of every rounding; larger ones only repeat them. Handlers, readers, variants and returns are symmetric
in the runs that check no liveness.

`CHECK_DEADLOCK FALSE` is set where the modelled part really stops: all orders are delivered and all mail is sent, or the
bound on orders, lines or edits is used up. The runs of Sessions and CatalogCache check for deadlock.

Named bounds: `StockCap` (units staff ever enter), `MaxCrashes`, `GatewayOrders` (calls of `orders.create`),
`Returns`, `Faults` (per kind; once each in `notifications`); `MaxRows`, `MaxOrders`, `MaxLimit`, `Shelf`, `Editors`, `Returning` and `Scenes` of
Checkout; `MaxTokens`, `MaxLogins`, `MaxAged`; `MaxWrites`, `MaxPages`; `MaxEdits`. Counters are otherwise unbounded; they stay
finite because the actions that raise them are.

## 4 Fairness

Only runs that check liveness are fair (fairness removes no reachable state, so their invariants lose nothing). The two fair specifications assume only this:

- `FairPaySpec` (run `payments`): weak fairness of `Work(h)`, that is, a handler that is running goes on until it finishes or crashes;
  strong fairness of `ReceiveWebhook` per event, that is, Razorpay redelivers an event until it is acknowledged.
  Strong, because all handlers may be busy again and again. In reality Razorpay gives up after about a day;
  the model has no clock, so an outage that long is not represented. The customer, staff and Razorpay's
  side of a payment are under no fairness.
- `FairSpec` of Notifications (run `notifications`): a worker finishes what it takes unless it dies; an enqueuing
  request goes on; the recovery sweep runs every five minutes and BullMQ hands out waiting jobs (strong: a row
  may leave and re-enter PENDING between two sweeps); the stalled check runs every 30 seconds; time passes, so
  a claim nobody works on grows old. Taking a job away from a worker that is alive is a fault and is
  not fair.

Carts, Checkout, Sessions, CatalogCache and Billing are not fair and have no liveness property: a customer may stop at any step, a
failed request is not repeated by the server, and nothing in the code promises that something eventually happens.

## 5 What is proved

Every theorem holds for all values of the constants that satisfy the named assumptions: any finite set of
orders, baskets of natural numbers, any set of variants, handlers, customers and staff, any bounds.

**PaymentsProofs, about Orders.** `TypeCorrect` is inductive as it stands; its one non-obvious conjunct says that a handler in flight has
`seen` a status its use case accepts. The stock properties are not inductive alone: that `available` is
right after a confirmation needs `reserved` to have been right before it, because the code subtracts
`min(reserved, quantity)` and only a correct `reserved` makes the minimum the quantity. `BooksBalance` joins
the three: `reserved = |held units|`, `available = entered - |sold units|`, `reserved <= available`. Units carry names
(order and number), so that moving one order between sets changes their cardinality by exactly its basket (lemmas
`AddBasket`, `RemoveBasket` and `MoveCounts`, which rest on `FiniteSetTheorems`). `ReservedCorrect`, `AvailableCorrect` and `NothingOversold`
follow. `LifecycleRespected` follows from the type invariant and the condition of the update. `MailCorrect` needs `MailIsSound`:
what a handler in state `committed` is about to announce has happened. `LedgerImplemented` shows by
cases that each action maps to one step of `StockLedger` or to a stutter, given `BooksBalance`.

**PaymentsProofs, about Payments.** `PaymentsImplementOrders`: every step of Payments is a step of Orders or leaves its variables alone
(a crash of a handler between transactions is the stutter). All theorems about Orders therefore hold of Payments;
two of them are restated (`PaymentsImplementLedger`, `PaymentsRespectLifecycle`).

The money is `MoneyInv`, which TLC agrees with on the instance of `payments`. None of the properties is inductive alone,
because each rests on what a handler read some steps ago: `Served` says what a handler in each step of its task may rely on (a
webhook's event was emitted, and applied once there is nothing left but the acknowledgement; a refund's order is cancelled,
has no Refund row until it is written, and money that went back before `record`), `OneRefunder` that an order has one refund at
work, since it is cancelled once, `Recorded` that a row's Razorpay order was created for its order - hence that one event finds one order
at most - and `WorldIsShown` that Razorpay only has something to tell about a Razorpay order some customer was shown, so
that the row a racing handler inserts cannot be one an event was already handled for. `Grows` collects what no
step takes back; lemma `HandlerUnmoved` concludes from it that a handler keeps what it relies on while the others
move, and each action has a lemma of its own. `ConfirmedMeansPaid`, `RecordedOrderIsShown`, `PaymentAgrees`,
`NoAcknowledgedCaptureIsLost`, `RefundsAreTrue`, `PayTypesCorrect` and `PaymentsAdvance` follow, for any number of orders,
handlers, Razorpay orders and crashes. The one assumption beyond the types is that the mark of a row without a Razorpay
order is neither an order nor a Razorpay order (`PaymentsAssumption`).

**NotificationsProofs.** `ClaimExclusive`, under any number of each of the five faults: that no two workers are at work on one row is strengthened to
`Exclusive` and `ClaimIsHeld` - a worker between claim and release implies a `SENDING` row that is not stale, so nobody
else's conditional update can match. This rests on the one assumption about time the model makes: a claim does
not become ten minutes old while its worker is still sending (`ClaimGrowsOld`). `TypeCorrect` needs `AttemptsLeft`: the
count of attempts of a job in work is below the limit. `EmailOncePerFault` keeps account of where faults strike, `PaidFor`: every
delivery but the last is paid for by a fault, and the last one too whenever another may follow (`Unsettled`: the row can be claimed, its
claim is orphaned, or a worker is at it).
An answer that is lost pays for its delivery at once, a crash or a failed `markSent` when it happens. `NoEarlyGivingUp` rests on `SpentWhenFailed`: a worker
about to write FAILED has seen its job's last attempt or a permanent error, and no retry resets the count of a job that failed.

**ReturnsProofs.** `TypeCorrect` (with `PastInitiation`), `LifecycleRespected`. `RefundedOnce` rests on `MoneyInv`: at most one handler is
between the transition to `REFUND_INITIATED` and the end of a return's refund (`OneIssuer`), and while it has not
asked Razorpay yet, nothing has moved (`NotYetMoved`). `MailCorrect` rests on `Truthful` (what a handler owes has happened) and `MailInv`
(`OneSender`, `NotYetSent`). Crashes are unlimited there: `MaxCrashes` is any natural number. `OrphansBounded` says what they cost: a return in `REFUND_INITIATED` has
a Refund row or a handler on the way to writing it, but for at most one return for each handler that died. A step of a living handler orphans nothing
(`NoneOrphaned`), and a crash at most the return that handler worked on, since a handler works on one. Nothing is proved about `ClaimsWithinOrdered`:
it is true only if requests are served one by one and name no item twice, neither of which the code sees to.

**CheckoutProofs.** `TypeCorrect` needs that no bag ever holds two lines of one variant, and that a merge's sum is cut to the shelf.
`InvariantHolds` proves `IInv`: what a transaction read under a lock is still true at its commit (`Locked` - the row locks
exclude every other writer), and an ACTIVE cart has fewer orders than sessions (`Sessions`). `OneOrder`, `OrderedWhileActive` and
`CouponLimitsKept` follow; the counts of redemptions rest on `FiniteSetTheorems`. This holds for any number of users, guests,
requests, lines and orders, and any limits.

**SessionsProofs.** `InvariantHolds`: links stay within a session and lead to tokens that somebody was given (`Linked`); what a request holds is of
one session (`Holds`); and `Retired`: whoever claimed a session's last live token (`reload`, `reissue`) is the only one, and the
session has no live token. A token is granted in three places, and each leaves it alone: a rotation revokes the live token in the same
update, a recovery has retired it before, a login starts a session no row has. `ChainNeverForks` and `TypeCorrect`
follow, for any number of users, browsers, requests and tokens.
`RecoveryHolds` proves `RecoveryInv` on top of it. Its first part, `Apart`, says whose a session is: its tokens are one browser's (`Owned`), and if the
tabs of that browser are kept apart it has one live request in the session (`Alone`), which presents the cookie itself (`Current`).
The second follows that request: where it may stop without the server's having cut the session short, the token it presents is `Recoverable` -
it has no replacement, or one that no cookie and no request has been shown (`Unshown`) and that is either unrevoked or, after the
grace, not exchanged (`OnCourse`) - and what it is about to answer is `Fresh`. A step on another session is harmless
because it is `GentleWith` this one; a logout is because the token it revokes was shown. When an answer arrives, its token has no replacement (`Unlinked`),
and all else in its session is the same browser's. `LostAnswersRecovered` follows.

**CatalogCacheProofs.** `TypeCorrect` needs `Bumped` (each version is the bump of one commit, so the version stays below the bound) and
`Shape` (a request has its key before it looks up). `InvariantHolds` adds `CacheSound` and `ReaderSound`: a page that is
cached, or about to be, shows the writes of the version in its key, because the version is read before the page is loaded, and
what a version stands for no longer changes once it is reached. `NothingStale` is the action property itself.

**BillingProofs.** `FeeIsAsShown`: the fee of a cart stays that of the rule and subtotal it was read with, and the order's is evaluated from
the same subtotal. `WholeLineIsPaidBack`: a line returned at once is worth exactly what was paid, for any amounts.
`BillCorrect` proves `BillInv`, what every amount is made of, whatever administrators edit between the three steps: the cart's subtotals are
unit prices times quantities (`CartInv`), the order's lines carry these, shares of the discount that add up to it and are at most
the line, and a tax (`OrderInv`), and what was returned of a line so far is worth the price of its pieces less its part of the
discount plus its part of the tax, each off by at most half a paisa per return (`ReturnsInv`, with `Near`). From it:
`AmountsCorrect`, no amount is negative; `MoneyReconciles`, the order's total, which the code takes from the sums, is what its lines come to;
`RefundsReconcile`, the returns of a line add up to what was paid for it up to a paisa for each return but one - the exact
extent of what the run `billing_overrefund` shows. The crux is `SharesSplit`: the floors of the proportional shares leave less than one paisa per line with a rest, so handing one paisa each to
the largest rests gives shares that add up to the discount and never exceed their line - although the line that gets a paisa
may have no room for it unless it has a rest (`RoundedUpHaveRest`).
`OfferIsUnique`: the order of offers is total and antisymmetric because ids are distinct (`RanksTotal`, `RanksAntisymmetric`, `RanksTransitive`), so a finite set of them
has a first. `BillingAssumption` says what the schemas of `packages/validation` let administrators enter (amounts, weights and
percentages are non-negative integers; nothing bounds a percentage there, and nothing needs it, since discounts are cut to what they are
taken from), that ids are distinct, that no bag is empty, and that the table of GST slabs has a last row.

**Sums.** `SumFunctionOnSet` takes the members of a set in an order of `CHOOSE`'s. Induction theorems of the library are out of the
provers' reach, but induction with the property given as a *set* is not: `SubsetInduction` and `NaturalInduction` are
stated so, from the well-foundedness of strict inclusion and from the least element. That the fold exists is proved once (`FoldExists`), then that any member may be
taken first (`SumRemove`), and that sums are typed, linear, monotone and masked (`SumInt`, `SumNat`, `SumLinear`, `SumMonotone`, `SumMasked`).

**Model-checked only.** All liveness (`CaptureIsApplied`, `SettlesUnlessOrphaned`): the prover has no support for it. `ClaimsWithinOrdered`, for the
reason above.

## 6 What the runs found

Three runs end in a counterexample, and are rows of `findings` in `PROJECT.json` with the line each contradicts.

1. `checkout_twice` - a checkout reads the bag; another one orders it; any request of the customer reactivates the cart; the first one
   locks it, sees ACTIVE and orders the same lines again. `checkout.use-case.ts:153-161` says that the lock excludes it.
2. `sessions_suspect` - a recovery relinks two rows in two writes; a retry that reads between them takes the retired replacement
   for a used one and revokes every session of the user, which `refresh-token.use-case.ts:70-72` reserves for proven reuse.
3. `billing_overrefund` - a line of two pieces with one paisa of tax, returned piece by piece: each return rounds half a paisa up, and together they
   pay back a paisa more than was paid. `calculate-return-refund-amount.ts:22-23` and `checkout.use-case.ts:308-309` say that a refund never exceeds it.

Seven further configurations end in a counterexample, too; `tlc -config <cfg> <module>` reproduces each.

| Configuration | Property | What happens |
|---|---|---|
| `MCPaymentsRepaid.cfg` | `CancelledIsRepaid` | a crash between a cancellation's commit and its refund: nothing ever repays the order |
| `MCPaymentsUnpaid.cfg` | `UnpaidHoldsAreSettled` | plan.md speaks of a timeout that releases an unpaid reservation; the code has no such timer, and journal.md:265 says so |
| `MCNotificationsStuck.cfg` | `EveryEmailSettles` | after a worker dies, its job is redelivered before the claim is stale, does nothing, and is removed as complete; the sweep looks for PENDING rows only, the row stays SENDING, which `notification-repository.port.ts:28-31` says the reclaim prevents |
| `MCNotificationsTwice.cfg` | `AtMostOneEmail` | a worker dies between the mail server's acceptance and `markSent`; if the job comes back only once the claim is ten minutes old, the e-mail goes out again, which `schema.prisma:162-164` rules out. A failing `markSent` or a lost answer does the same at once |
| `MCReturnsOverclaim.cfg` | `ClaimsWithinOrdered` | two concurrent requests of a customer each find nothing claimed and are both accepted for the whole quantity; `resolve-return-eligibility.ts:39-44` says that what is pending is accounted for |
| `MCReturnsSecond.cfg` | `OnlyCashWaitsForStaff` | after the refund of a first partial return the payment is REFUNDED as a whole, so a second return of the same order paid by card is filed as a manual refund |
| `MCBillingFree.cfg` | `FreeOnlyIfEarned` | the rule's minimum is raised between the check and the transaction: the order is below it and pays no fee, which `resolve-shipping.ts:15` calls impossible |

Seen while modelling, without a run of their own: a request that names one order item on two lines passes eligibility
although the lines together exceed what was ordered (`resolve-return-eligibility.ts:90`), which takes a single
call; `hasActiveReturn` stays set if a rejection comes between a return's row and its flag, and only a filter of the
admin list reads it; a crash after `REFUND_INITIATED` leaves a return with no refund row, which nobody can issue
again (`OrphansPerCrash` counts them; `MarkReturnRefunded` completes such a return all the same).
The repository promises nothing about these:
a capture that follows a failed attempt is acknowledged as stale and its money kept; a crash between delivery and
collection leaves a COD payment PENDING; a gateway answer that is lost records FAILED for money that did go back
(`issue-refund-for-cancelled-order.use-case.ts:89-91`, `issue-refund-for-return.use-case.ts:77-86`); the customer
may get two REFUND_COMPLETED e-mails when staff complete a refund by hand while the gateway is at work; the edge
PAYMENT_FAILED -> PENDING_PAYMENT of plan.md:162 has no code; the comment at
`mark-order-returned-to-origin.use-case.ts:27-30` speaks of a refund path for parcels that came back, which does not exist.

In the newer modules: of two concurrent changes of a
bag's line the later one wins, so one of two `add` calls may be lost (`add-item.use-case.ts:39`); two patches of a
coupon, each validated against the row as it was read, can leave a per-user limit above the global one; a refresh that has passed the check of the
user inserts its row after all sessions of the user were revoked; a failed `INCR`, or a version that cannot be read, leaves
a page stale until its TTL, where `catalog-cache.ts` says that nothing can ever be; edits of offers and testimonials bump no
version at all, so the pages that show them live as long as their TTL.

## 7 What is left out, and why

- Addresses, names, audit entries, and the wording of e-mails: no guard of the modelled part depends on them. Amounts are in Billing
  only; elsewhere they are abstracted to what a guard asks (Payments keeps whether a captured amount is `short`).
- Several warehouse rows per variant, and the order in which their locks are taken. The code that would
  spread a variant over rows is there, but nothing creates a second row today.
- The HTTP layer: authentication, validation and rate limits decide who may call; every call that may
  happen is in the model.
- Database faults inside a transaction: a transaction commits or it does not, and the latter is `Crash`. In
  Payments and Returns, the writes whose failure the code catches may fail.
- In Notifications: BullMQ's limit on how often a job may stall (a second stall goes back to waiting here); the trimming of
  old failed jobs (`removeOnFail`), so that a failed job blocks re-adding its id for good, as it does for the last thousand;
  sends that last longer than the ten-minute threshold.
- Restocking of returned goods: the code does none, staff enter them as an adjustment.
- In Carts and Checkout: the dates and the targets of a coupon, its creation, and limits that are null (a refusal is always possible, and a
  limit that is not set refuses nothing); several coupons, which meet in nothing.
- In Sessions: one-time codes and the reset of a password, each a conditional update of one row; hashing, JWTs and cookies' attributes.
- In CatalogCache: the category, banner and product pages, which are cached as the listing is, and the contents of a page.
- In Billing: schedules of offers (an offer that is not in its time is not active), settings other than the rate. A variant may carry a
  rate of its own, but `resolve-effective-rate.ts` ignores it on purpose, and so does the model. The reads of
  `GetCartUseCase` are one step (`GetCart`), so an edit that falls between two of them is not represented; and the bag that `FeeAsShown` compares an
  order with is the one its own checkout read, not a page the customer opened before.
- UpdateTracking, NotifyOutForDelivery, ClaimGuestOrder: one write of one row that no guard reads.
- Checkout, Orders and Billing are not composed in one state: each keeps of the others whether they succeed. The product of their
  states is out of reach, and their variables are disjoint.
- The components with status `not_modelled` in `PROJECT.json`, each with its reason there. They are the larger part of the
  repository by lines: pages and forms of the front ends, list queries, single-row edits, validation schemas, analytics,
  seed data. They hold no state machine, so a model of them would repeat their assignments.

## 8 Plan

Done, in the order of what a customer would lose most by: (1) StockLedger, Orders, their proofs; (2) Payments with the
refund of cancelled orders, that it implements Orders, and its money invariant; (3) Notifications, with proofs; (4) Returns, with proofs;
(5) Carts and Checkout with the coupon, with proofs; (6) Sessions, with proofs; (7) CatalogCache, with proofs; (8) Billing, with proofs; the theory of sums these need.

To come:

9. **Inventory rows**: the allocation over several rows of a variant and its lock order, refining the single row of Orders;
   absence of deadlock. Worth its while once something creates a second row.
10. **One-time codes and password reset**: attempts, expiry and single use.
