# Burgonomics: a TLA+ verification project

Burgonomics is the ordering platform of a burger chain. Customers order from an
app, pay through Razorpay, the kitchen gets its ticket through the Petpooja POS,
a courier (Shadowfax, Borzo, Porter) or branch staff deliver, and the branch is
paid its share by a Razorpay Route transfer. The server side is a set of
TypeScript Cloud Functions over Firestore (`src/functions/src`, 28 000 lines):
HTTP handlers, provider webhooks and scheduled jobs. All of them write the same
few documents, above all `orders/{id}`, and none of them ever holds a
transaction while it talks to a provider. What goes wrong in such a system goes
wrong between two handlers; that is what this project models.

Names of files are relative to `src/functions/src/` unless they begin with `src/`.

## 1. Inventory

| Component | Code | State it keeps | Operations | Modelled by |
|---|---|---|---|---|
| Scheduler guard | `core/schedulerLock.ts`, `index.ts` 1515-1700 | `scheduler_locks/{name}` | acquire or skip a tick | `SchedulerLock`, with a job under it in `Tickets` |
| Route payout | `modules/payments/razorpay.service.ts` 1486-1830, `routeTransfers.ts` | `routeTransferStatus`, its lease, receipt, retry count, `unmatched_payments` | split, retry job, refuse, reconcile | `RouteTransfer` over `Payout` |
| Payment confirmation | `razorpay.service.ts` 1076-2240 | `paymentStatus`, `payment`, `status`, OTP hash | `verifyPayment` | `PaymentConfirm` |
| Payment webhook | `modules/payments/webhookHandler.ts` | event claims, the same order fields | captured, order.paid, failed, refund.processed | `PaymentConfirm`, `Refund` |
| Refunds | `razorpay.service.ts` 2240-2972 | ledger, claim, `payment_refund_requests` | `autoRefund` | `Refund`; rejection in `PosCallback` |
| Kitchen ticket | `modules/petpooja/orderPush.ts`, `petpooja.scheduler.ts` | `petpoojaStatus`, two leases, retry count | push, retry, park, give up | `KotPush` |
| Order status | `modules/orders/orderStatus.ts` | `status` | bump | an action of `PaymentConfirm` |
| Coins | `modules/customers/customerCoins.ts` | `loyaltyPoints`, `coin_transactions` | debit, credit, adjust | `Checkout` (the wallet), `PaymentConfirm` (what a debit follows), `Tickets` (the credit) |
| Checkout | `razorpay.service.ts` 301-1042 | `payment_intents`, the pricing stamp | create the gateway order | `Checkout` |
| Pricing | `modules/payments/pricing.engine.ts` | none | price and split a basket | `Pricing` |
| Dispatch | `modules/dispatch/dispatch.router.ts` | `dispatchStatus`, lease, bindings, correlation rows | claim, book, park, rebook, sweep, cancel | `Dispatch` |
| Courier callbacks | `modules/dispatch/dispatch.webhooks.ts` | `deliveryStatus`, the delivery mirror, `dispatch_order_map` | bind, track, cancel | `Dispatch` |
| Porter lane | `modules/porter/porter.service.ts` | `porterOrderId`, its own claim, `porter_order_map`, OTP attempts | book, cancel, callback, poll, OTP, own rider | `PorterLane`; the manual rider also in `Dispatch` |
| POS callbacks | `modules/petpooja/item86ingSync.ts` 800-1562 | `status`, `petpoojaOrderId`, `refunds`, `unmatched_petpooja_orders` | callback, refund request | `PosCallback` |
| Stock and menu | `item86ingSync.ts` 1-746, `menuSyncWebhook.ts` | `products`, `petpoojaItemCount`, `unmatched_petpooja_stock` | sync, toggle in, toggle out | `Catalogue` |
| Tickets | `modules/tickets/*` | `support_tickets`, resolution lease | resolve, message, escalate, remind | `Tickets` |
| Accounts | `modules/auth/*`, `core/deviceTokenRegister.ts`, `modules/notifications/unregisterToken.ts` | claims, `users`, `admins`, `device_tokens`, guest carts | assign, invite, erase, migrate a guest, (un)register | `Accounts` |
| Notifications, rules, tooling, UI | `modules/notifications/*`, `src/firestore.rules`, `src/scripts`, `src/packages` | none that decides anything | | not modelled |

`PROJECT.json` lists every component with its status and, under `hazards`, each
place where the code can go wrong in a way a test would hardly reach.

**How they interact.** Nothing calls another component's memory; everything
goes through documents. Verify and the payment webhook confirm an order and both
call the payout; the confirmation pushes the kitchen ticket; the retry jobs pick
up what those left behind; a refund runs from staff, a ticket or a POS
cancellation, and its webhook writes the same ledger. Every handler follows one
pattern: *read, claim in a transaction, call the provider with nothing held,
write*. The hard behaviours are therefore always the same:

- the claim's owner dies, and somebody takes its lease over;
- the provider did it, but the answer is lost;
- the last write is a plain `set` and the document has moved on;
- an event arrives twice, late, out of order, or never;
- two jobs run at once, because the guard's lease is shorter than the run.

**What makes each part correct.** *Guard*: admitted ticks are a TTL apart and no
tick is skipped without a lease. *Payout*: one transfer per payment, never
settled without one, a refusal is never silent. *Confirmation*: every captured
payment ends bound or parked, the first capture stays, nothing already recorded
is taken back. *Refund*: no more is promised or recorded than was captured; one
open decision at a time. *Kitchen*: the kitchen rings once and a ticket that rang
is never unknown. *Dispatch*: one paid rider at a time, and none the order
has lost track of, unless a callback or a refusal went astray. *Porter
lane*: one booking until a courier is known, the branch's own rider only without
one, delivered stays delivered except under a writer that had read the order
before. *Checkout*: one
payable gateway order per key and lapse, handed to its own order. *Coins*: the
balance is the sum of its ledger. *POS callbacks*: an end is applied or shown to
a person, once, and to the right outlet's order. *Catalogue*: what the POS lists
is on sale as the POS has it, and a truncated feed retires nothing. *Tickets*:
one resolution per opening, one credit per ticket. *Accounts*: the registry says
what the claims say, a token's owner gets its messages, a guest is moved whole and
rewarded once.

## 2. Modules

Firestore transactions are single steps (optimistic concurrency makes them
serializable); every provider call and every plain write is a step of its own.
An execution is an element of a set (`Caller`, `Worker`, ...) with a program
counter; its locals are functions on that set. An action carries the name of the
function or branch it translates, and `PROJECT.json` maps each to its lines. A
definition named `X_What` is a mutant of `X`: with `X` replaced by it, the property
that `PROJECT.json` lists with it fails. Every module models one order (or
one job, one ticket, one branch's menu, one customer): handlers of different
ones share no document. `MC*` modules give the constants that a configuration
cannot write down and the symmetry of a run.

### SchedulerLock
`clock` is the wall clock, `claimedAtMs` the lease document, `nowMs[r]` the value
a tick read before its transaction. `Fire` is Cloud Scheduler (at least once per
slot), `Acquire`/`Refuse` the transaction, `FailOpen` its failure, `Finish` the
end of a run however it comes; `Tick` lets time pass up to the age at which the
platform kills a run.

### Payout and RouteTransfer
`Payout` is the promise: each payment is paid out at most once by an execution that
was still waiting, the payouts nobody waited for any more are known as `late` ones,
and an order is settled once, by a payout that happened. `RouteTransfer` is the
code: callers of `executeRouteSplit` (`Enter`, the early returns, the claim with its
five outcomes, the four final writes), `attemptRouteTransfer` (local refusals, the
reconcile lookup, the POST) shared by the retry job (claim of a tick, second read,
four final writes). `landed` is the gateway's truth and `orphans` the POSTs whose
callers gave up; `SlowGateway` says whether such a POST may still land after
somebody looked, and `late` is a history variable that counts those. The refinement
maps `paid` to `landed`, `late` to `late` and `settled` to the receipt of a
transferred order.

### PaymentConfirm
One order, its payments and their gateway events. A `Verifier` is an execution
of `verifyPayment`: live fetch, the truth check, the payout, the confirmation,
the debit. A `Delivery` is one HTTP delivery of an event: claim or takeover,
binding, confirmation transaction, payout, debit, completion. `Bump` is the
kitchen or the payer moving the order. The payout appears by its outcomes only:
done, flagged, refused and parked, in conflict, busy; `RouteTransfer` has the
inside. `parked` is the union of the lists staff review (`unmatched_payments`,
`payment_discrepancies`).

### Refund
A `Worker` is an execution of `autoRefund` for a request id and an amount, and
one id may come back with another amount. `Claim` is the transaction with the
ledger folding, the cap, the idempotency replay and the takeover; `PostAnswers`
and `PostFails` the gateway call; `Complete` the second transaction.
The gateway dedupes by key, and `inFlight`
holds POSTs nobody waits for. `Init` includes orders refunded before there was a
ledger, once or several times, in each of the shapes the code still reads: the
order names its last receipt, and a total may be absent, the last amount or the sum.

`RefundProcessed` is the webhook's transaction, and `notice[x]` what has become of
the event of refund `x`. `webhookHandler.ts` 161-266 refuses every delivery that
comes more than 15 minutes after the event was created, redeliveries included
(`NoticeExpires`: from `fresh` to `late`), unless it repeats an event whose claim is
already there, left by a delivery that died or by a failed delete (`NoticeTaken`:
`claimed`, from `late` too). So an event may be lost for good, and
`RefundsAreRecorded` names what that costs (`Missed`): a refund of the dashboard
whose event comes late is never recorded, and one of `autoRefund` whose execution
died as well stays the order's claim, held by its pending request, until somebody
asks for the same refund again. No job does: `autoRefund` is called from the refund
route (`index.ts` 414) and from tickets (`tickets.service.ts` 736) only.

### Dispatch
`order` holds the fields of `orders/{id}` that dispatch decides on, `stamped` the
carrier in the correlation row of the last claim, `live` the riders on the way
that the branch has not let go. A booking is named by the generation of its claim
and its carrier. A `Walker` is an execution of `dispatchBook`: the read before
the claim (`Tap`, `WorkerCalls`), `claimDispatch` by its outcomes, the walk
(`Stamp` before each POST, then refused, booked or unknown) and the five settling
writes, which are plain writes and carry what was read first. The worker of the
rebook job scans, decides on its scan and counts what failed. `LeaseExpires` and
`Sweep` are the lease and its job, `Paste`, `Cancel` and `AssignInHouse` the
staff's transactions. A callback is read (`CallbackRead`: ownership, terminal and
containment guards) and written (`CallbackWrite`) in two steps, or binds a parked
booking in one (`CallbackBinds`). The lanes of the walk may come in any order:
quotes and fares only rank them.

`slips` is a history variable. No guard reads it; it records when one of four things
happens that the code leaves open:

- `moved_on`: a callback is written over an order that belongs to another
  booking by then. The write at `dispatch.webhooks.ts` 1738 is an unconditional
  merge, and the comment above it (1700-1705) says that the last write wins.
- `revived`: a late `DRIVER_ALLOCATED` or `STARTED_DELIVERY` puts a ride back on its
  way that had been called off.
- `under_review`: the arrival at the store, as the first event of a booking, binds it
  to an order that it leaves in `needs_review`.
- `left_behind`: a POST that counts as refused has left a booking. A reset connection
  and an HTTP 5xx are a `ProviderDispatchError` (`providers/shared.ts` 41-76), and
  the router walks on to the next carrier (`dispatch.router.ts` 912-948).

Each of them alone leads to a second rider (section 6, finding 3). `OneRider` and
`LiveIsTraceable` say that nothing else does: in a history without a slip there is
one rider and none is lost. The two liveness properties hold through all four.

### KotPush
`Caller` is a webhook delivery or a tap on the staff button, `Worker` an instance
of the retry job. `pushLease` and `retryLease` are the two claims of the code;
`tickets` counts what the kitchen heard. `Kill` ends an execution anywhere,
`ParkStale` is the crash lane, `GiveBack` and `GiveUp` the rest of the job.

### PorterLane
Porter's direct lane, which predates the dispatch router and is still wired.
A `Call` is a tap or a callback: `Book`/`Rebook` claim in a transaction, `Post`
ends in one of four outcomes, and the settling write (`WriteBooked`,
`WriteFailed`, `WriteMap`) is a plain merge; `CancelRead`/`CancelWrite`,
`VerifyRead`/`VerifyWrong`/`VerifyRight` and `HookRead`/`HookWrite`/`HookMark`
are the pairs of a read and a later write. `PollRead`, `PollAnswer`,
`PollVerdict`, `PollWrite` are one run of the poller. Porter itself is `porter`,
how far each booking is. `ManualDispatch` is `manualBranchDispatch` on this side
(`AssignInHouse` of `Dispatch`, with this lane's guards).

Every local carries the `deliveryStatus` its execution read: `run[c].status` is that of
the claim, the cancellation or the callback, `poll.status` that of the poller's query.
`RewindIsStale` says that whoever takes an order back from delivered had read
it before it was delivered; a claim, a cancellation, a callback or a poll that began on
a delivered order must leave it alone. The stale rewinds themselves are what the
code allows, since none of these writes looks again. Of a POST without an answer only
a 2xx without an order id is ambiguous (`porter.service.ts` 763-770). One that times
out or ends in an HTTP 5xx is stored `dispatch_failed` (801-803) like a refusal, and
may be booked again with its booking on the way.

### Checkout and Pricing
`Pricing` is arithmetic in paise. `Checkout` is one customer: `Begin` (the order
is payable, the wallet has the coins), `Lookup` of the key, `Stamp` (price and
write it on the order), `Mint` at the gateway, `Claim` by `create()`, and what
follows a lost claim (`ResolveLost`, `Supersede` in a transaction). `handed` is a
history variable: the answers the app was given. `Confirm` is what
`PaymentConfirm` does with a capture, reduced to the amount check and the one
binding. The wallet has its redemptions (one ledger row per gateway order), staff
adjustments and a ticket's credit.

### Catalogue
A `Sync` is an execution of `syncPetpoojaMenu`: `ReadBranch`, `Fetch` (or a short
or refused feed), `WriteBatch` until nothing is left, `ScanCatalogue` for what the feed
does not list, then `Restore`, `Retire` (or not: `TooMuch`), and `Stamp`. The
hourly one runs one at a time; those the POS and staff ask for run under no lock.
A `Toggle` is a stock callback (`ReceiveStock`, then `ApplyStock` or `Overtake`, as its
precondition says) or `pushStock` (`PushStart`, `PushCall`, `PushCommit`). A
callback stays in `callbacks` until it is answered 2XX.

### Tickets
Extends `SchedulerLock`: a run of that module is a tick of
`checkTicketInactivityReminders`, whose steps (`Scan`, `Flush`, `Remind`,
`FlagSent`) lie between the acquisition and the end of the run. `desk` holds the
resolutions: `ClaimResolution` and `Commit` are transactions, between them the
refund or `Credit`. `Message`, `Escalate` and `Flush` write a status without
looking.

### PosCallback
Extends `KotPush`: the callbacks of the POS about the ticket which that module
pushes, and the refund request a cancellation makes. `Receive` resolves the
references of a callback (`Contradicts`, `FoundByPos`, `By`), `Takes` and `MaySteer`
decide whether it may act at all (else `ReceiveAndPark`), and the transaction
applies it (`Plan`, `Apply`), refuses it (`Refuse`) or ignores it.
`ReadRequest`/`RejectRequest` are the two halves of `disposeRefundRequest`. The
transaction also looks for another `PENDING` row of the order in `refunds`
(`item86ingSync.ts` 1424-1432) before it asks for a refund; the repository creates
no row there but the one this transaction names by the order, so that query finds
none and `AsksRefund` leaves it out.

### Accounts
A `Call` is one execution of a route. A role is three writes (`StampClaims`,
`WriteProfile`, `WriteRegistry`) and an invitation one more; `DeleteAccount` is
followed by its trigger (`CleanUp`). `clean` is a history variable: the last change
of the account's role ran alone to its end. One device token has an `owner` and
the accounts that list it (`listed`): `Register` and `Unregister` are transactions,
the pruning (`FindHolders`, `Prune`) and the scrubs come after. One guest session
is read in two steps (`Migrate`, `ReadGuest`), written in batches (`CommitChunk`),
and rewarded in a last transaction (`Award`).

## 3. Runs

| Run | Instance | Question |
|---|---|---|
| `route` | 2 callers, 2 ticks, 2 payments, 1 crash, a gateway that may be slow | Exclusion, refinement of `Payout`; does every claimed payout settle? |
| `confirm_safety` | 2 payments, 1 verify, 2 deliveries, three kinds of event | Accounting, coins, regressions, with late deliveries |
| `confirm_liveness` | 2 payments, 1 crash | Is every captured payment accounted for, through a takeover? |
| `refund` | 2 executions, 2 ids, 2 legacy and 1 dashboard refund, capture 3, events in time or late | Cap and ledger; is every refund recorded, or still the claim of its request? |
| `kot` | 2 callers, 1 worker, 1 retry | One ticket; does a started push end recorded or flagged? |
| `pos_callback` | 1 pusher, 1 worker, 3 orders at 2 outlets, 1 callback at a time, 4 kinds of event in 10 shapes | Outlets apart, no lost end, ends are final, one refund request, an accepted ticket stays so |
| `dispatch` | 1 tap or paste, 1 worker with 1 rebooking, 1 carrier and the lane by hand, 1 fault | One rider and traceable riders until a slip; do stranded claims and rebook flags end? |
| `porter_lane` | 2 overlapping executions (3 in all), 1 booking, 1 fault, the poller | One booking, the branch's rider alone, only stale rewinds, the lockout; does a delivery go dark? |
| `checkout` | 2 orders, 1 key with coins and a coupon, 2 calls, 3 gateway orders, 1 lapse | One order per key, right order, the wallet |
| `catalogue` | 3 items (1 new), batches of 2, an hourly and an asked sync, 1 toggle, 2 acts, 1 trouble | Truncated feeds, answered toggles; does the store follow the POS? |
| `ticket_desk` | 2 ticks under the lock, 2 staff, 2 acts, 1 death | Whole-run exclusion, resolutions, reopening, one credit |
| `accounts` | 2 accounts of one phone, 3 calls (2 at once), 2 orders, batches of 2, 1 fault | Registry and claims, the owner's list, the guest moved whole, one bonus |

A property that a theorem states for all constants and that adds nothing to the
ones above is not run again: the type invariants, `TransferredIsTrue`,
`RefusedPaymentIsParked`, `FirstCaptureStays`, `LiveBindingStands`, `EndedStays`,
`OnePayoutPerPayment`, `RefusalEndsAttempts`, `BoundIsCaptured`, `BoundNeverFails`,
`OtpNeverReplaced`, `PendingIsClaimed`, `OneRequestAtATime`, `SameBodyPerKey`,
`CompletedIsRecorded`, `RungIsKnown`, `ClaimIsHeld` and `LeasesApart` are proved in
section 4.

**Why the bounds suffice.** The races of this code are between an owner, one that
takes over and one that comes late, so two or three executions of a kind reach every
pair of steps, and a second payment, request or retry tick is what each guard
distinguishes. `MaxCrashes` 1 gives each takeover its dead owner. `AutoRebookMax`,
`MaxRetry` and `RetryLimit` stand for the code's limits (2, 5 and 3): 1 reaches
"another try" and "the last try". Refunds of 1 and of everything (`Full`) in a
capture of 3 make partial, exact and exceeding sums. `MaxTime` 3 in `ticket_desk`,
with a slot at every unit and a TTL of 2, holds a tick that is refused and one that
takes a lapsed lease over; the theorems of `PeopleProofs` have no such bound.
Executions, payments, orders, staff and request ids are symmetric where the run has
no liveness property. In `Dispatch`, `MaxTaps` counts bookings that staff ask for or
paste, `MaxFaults` instances killed and writes failed; `MaxGen`, the bound on
claims, is 6 in `dispatch` and 5 is the most that is reached. With one execution of
staff and one of the job every pair of a walk with a walk, a callback, a cancel, a
paste or an assignment occurs; a third claim is the one that meets both a dead one
and a parked one. Without guards against the slips the callbacks reach far more
states, so there is one tap: two taps, a second carrier or a second rebooking exceed
what TLC can do in five minutes. With one tap `moved_on`, `revived` and
`left_behind` go on to a second rider; `under_review` occurs and takes another tap
to get there. The theorems of `DeliveryProofs` have none of these bounds. In
`porter_lane` one booking is enough for each lane to meet the others; with two, the
callbacks of a replaced booking come in, which the code misapplies (section 6).
`OtpMax` 2 and `MaxPolls` 2 stand for 3 and 12: "one more" and "the last". In
`checkout` two orders fight for one key, and three gateway orders are the winner,
the loser and the one after a lapse; the key asks for 8 coins of a wallet with 10,
so an adjustment of -5 makes it short. In `catalogue` a batch of 2 out of 3 items
leaves a remainder, and one of 3 is less than half. The ten shapes of `pos_callback`
are every combination of references that the code distinguishes, and with one
callback at a time it still meets a push, the retry job, a rider, a refund and a
rejection between its reads and its transaction. In `accounts` two calls at once and
one before or after them are the races of the routes (a refresh, a logout and the
next account's registration are three); five writes in batches of two put a boundary
between the two writes of the cart. `CHECK_DEADLOCK FALSE` is in the runs where
everything may end: a settled, refused or closed order, or ticket, whose executions
have returned and whose bounds are used up has nothing left to do.

**Fairness.** Assumed only where the platform gives it. `RouteTransfer`: an
invocation of the job goes on, the scheduler fires again, leases grow old, a POST
nobody waits for is decided; the second read of the job gets strong fairness because
a cancellation or binding can disable each of its outcomes in turn.
`PaymentConfirm`: a running delivery goes on, the gateway repeats what was not
acked, ten minutes pass; nothing is assumed of the app, the kitchen or the payer.
`Refund`: time passes, so that an event which is not accepted becomes late, and the
gateway repeats an event until it is answered, so that one that was claimed is
applied in the end; strong fairness on `Complete` says that not every execution that
holds the answer dies before it writes. No event is assumed to come in time.
`KotPush`: executions run until killed, leases expire, the job is scheduled every
five minutes; strong fairness on its entry steps says that it is not killed at the
same place for ever. `Dispatch`: executions run until killed, the clock and the two
five-minute jobs run; nothing is assumed of staff or carriers. `PorterLane`:
executions run until killed, the poller runs every five minutes and time passes;
nothing is assumed of Porter's callbacks. `Catalogue`: the hourly sync comes again,
what began goes on until it ends or dies, and the POS repeats what was not answered
2XX; nothing is assumed of the syncs somebody asks for. `Checkout`, `Tickets`,
`PosCallback` and `Accounts` are checked without fairness.

## 4. Proofs

Every safety property of the runs, invariant or action property, is a theorem:
for every number of executions, payments, requests, accounts, items, retries and
crashes that the assumptions allow. Each proof has the same outline: an inductive
invariant, preserved by every action, implies the property; a run's action
property follows from the invariant and the step. Two components that share
nothing but a subject share a module.

| Module | Proves about | Inductive invariants |
|---|---|---|
| `Sums` | the folds that totals are written with | |
| `RouteTransferProofs` | `RouteTransfer`, its refinement of `Payout` | `IInv` |
| `PaymentConfirmProofs` | `PaymentConfirm` | `IInv` |
| `RefundProofs` | `Refund` | `IInv` (protocol), `AInv` (amounts) |
| `CheckoutProofs` | `Checkout`, `Pricing` | `IInv` (keys), `WInv` (types, wallet) |
| `DeliveryProofs` | `Dispatch`, `PorterLane` | `ClaimInv`, `RiderInv`, `LaneInv` |
| `PetpoojaProofs` | `KotPush`, `PosCallback`, `Catalogue` | `IInv`, `CallbackInv`, `CatalogueInv` |
| `PeopleProofs` | `SchedulerLock`, `Tickets`, `Accounts` | `IInv`, `TicketInv`, `AccountsInv` |

**Sums.** A total is a fold over a finite set, and a fold is a recursive function
chosen by `CHOOSE`. Induction over the finite subsets is done by a minimal
counterexample: among the subsets at which two tables of sums differ (or no table
exists) the library's well-founded minimum of the strict subset relation gives a
smallest one, and taking one element from it contradicts that. This needs no
operator parameter. What the other modules cite is: a sum of naturals is a natural, a
sum splits at an index, it changes by the difference at the index that changed, and
it grows with its terms.

**Payout.** `ClaimOwned` (whoever is at work holds the live lease)
makes the final writes safe although they are unfenced. `LocalsKnown` ties what
an execution remembers to the gateway, `SettledOnce` the receipt to a landed
transfer, `RefusalStands` the refusal to an absent claim, and
`LookupIsConclusive` bounds what landed beside the late ones while nobody waits
for a POST. `Implementation` holds for every gateway, since `Payout` knows late
transfers; `PaidOutOnce` needs `~SlowGateway`: a POST that lands after somebody
looked is one the lookup cannot see.

**Confirmation.** `VerifierKnows` and `DeliveryKnows` say at each
program point what the execution has established about its payment;
`NoSilentMoney` follows because a completing delivery has bound or parked. The
action properties come from `StepKept`, proved action by action.

**Refund.** The protocol first: the claim, the open request and what the gateway saw
under its key agree (`ActiveIsWanted`, `BodyIsWanted`, `LedgerIsTrue`), so fetching the
same refund twice cannot write two amounts. This does not depend on amounts. The
amounts then: the total never exceeds what was returned (`TotalIsReturned`), no more
is returned than was captured, a refund of "everything" took the rest
(`FullTookTheRest`), and a refund from before the ledger is seen by the cap: a full
one lets no request in (`LegacyFullIsFinal`), a single partial one is in the ledger
or named by the order (`LegacyIsSeen`). `RecordIsHonest` holds for any legacy
receipts; `AskFits` needs the claim to have seen all that was returned, hence its two
hypotheses; `StampIsFull` is proved per writer of the stamp.

**Checkout.** `PairsFit` says that what a call, an intent and an answer
carry was minted for the order they carry, `WinnersAnswered` that a call that
lost has a winner and every binding was handed out, and `KeysCounted` that the
answers of a key number at most its lapses plus one while the intent is live:
the invariant `OneOrderPerKey` needs, since a lapse allows one more answer and a
live binding has used it. `WInv` adds the types, which carry what the keys' argument
does without (a priced amount is a natural number because `Quote` is one), and the
wallet: of its four writers each changes the balance and one term of the ledger by
the same number, so `WalletIsItsLedger` is the sum's change at one index.
`QuoteIsSound` says of the pricing engine, for every basket, coupon, wallet and
royalty, that coins stay within the request, the fees are charged, and the charge
differs from the two payout legs by at most the half rupee it is rounded by.

**Delivery.** `ClaimInv`: whoever walks the carriers holds the fresh claim, nobody
else does, and while a claim is pending no booking of the order is active, so
nothing that acts on an active booking can end it. From it `ClaimHeld`, until a
callback is written over an order that moved on or revives a ride (`Faithful`; slips
only accumulate, `SlipsStay`). `RiderInv` adds what ties riders to the order: a
claim is made when no rider is on the way (`NothingYet`), the row names the lane
posted to (`Evidence`), a pending or parked claim has no other rider than that one
(`OpenIsDown`, `OpenIsKnown`), a booking on the way is active (`BoundIsActive`),
generations only grow (`OldRides`). It is preserved as long as no slip has happened,
and from it follow `RidersAreTraceable` and `NeverTwoRiders`, which say of every
behaviour, slips included, that a second or a lost rider takes one. Porter's own
lane needs less: `FirstBookingIsAlone` is inductive with the types and `LaneReads`,
which says what an execution saw before it went to work (a booking, like a callback
that is applied, found the order not yet delivered, a cancellation found one with a
courier as well, and the poller one not delivered). The same facts make the step
properties true: whoever takes a delivered order back, the poller included, read it
before it was delivered (`OnlyStaleRewinds`), and a wrong code that writes a stale
counter finds the lockout standing (`LockoutHolds`).

**Petpooja.** *Ticket*: `WorkingHolds` (a push in progress has the live lease),
`AnswerFits`, `CallingIsYoung`. The first three results assume clean answers
(`~LostAnswers`): a connection that breaks after the POS registered is recorded
as a refusal and tried again. *Callbacks*: a callback in hand was resolved in its own
outlet, an end event that the order remembers has ended it (`MarkedEnds`), an end that
was answered was applied or parked, and a cancelled order has its request; `Ended`
is closed under every step, those of `KotPush` included. For any shapes, outlets,
orders and number of callbacks, pushers and workers. *Catalogue*: while nothing was
`halved`, a sync that has a feed has the whole menu or less than half of what is stored
(`FeedIsWholeOrShort`). That survives the other syncs because documents are added and
never taken away; of the whole menu nothing is absent, and with less than half the
guard of `retireAbsentProducts`, whose larger count is at least the stored one, refuses.
So no sync ever has a set to retire (`NothingToRetire`), from which `ShortFeedIsSafe`.
`AnswersAreKept` needs the types only, with the product a toggle at work has.

**People.** *Lock*: an admitted run's stamp is not later
than the lease and a run is younger than the limit. From it: admitted
runs are a TTL apart, every skip is justified, exclusion when `RunLimit < TTL`,
stamps only advance. `JobKeepsTheLock` carries these to the lock with the ticket
job under it. *Ticket*: a resolved ticket has no lease
(`ResolvedIsFree`), the ledger's row comes with the first credit
(`RowTellsCredit`) and a run about to escalate saw the ticket unattended
(`PlansAreSeen`): enough for `CreditedOnce`, `ResolutionIsNotOverwritten` (who
commits holds the lease, so the ticket is not resolved) and `ReopeningIsAsked`.
*Roles*: while a change is under way its account is not `clean` (`ChangeIsSeen`), one
that is marked alone is the only one (`AloneIsAlone`), and then the account is live
and each of the three places it has passed says its role (`AloneIsInStep`); an account
that does not exist yet has no role in its claims, and only an erased one waits for
its trigger (`LifeOfAccount`). *Bonus*: a flag
has its row (`ClaimedHasRow`), and an award adds one term to the sum of its key in the
step that adds the row. *Guest*: what a migration has seen, or has still to write,
includes whatever the guest still has, and the cart is put in before it is taken out
(`ScanIsWhole`, `TodoIsWhole`); so a migration that ends leaves nothing
(`NothingLeft`), whatever the others did, and its key has its bonus
(`MigratedHasRow`). *Devices*: `OwnerIsNotDetached` is proved step by step from the
types: `Register` and `Unregister` decide on the token in the transaction that writes.

Assumptions: each module's `ConstantsAssumption` (or `LaneAssumption`,
`CatalogueAssumption` and the like): disjoint sets, naturals, a distinct absent
value, and finite sets of refund ids, items, accounts and orders where something is
summed or counted. Every run evaluates them. Some theorems carry a further
hypothesis on the constants, each named above: `~SlowGateway` (`PaidOutOnce`),
`~LostAnswers` (the first three of the ticket). `AskFits` has its two, no dashboard
refund and one legacy refund, and what is proved of riders is conditional on `slips`
within the property.

**Model-checked only.** Liveness (`SplitSettles`, `CapturedIsAccounted`,
`RefundsAreRecorded`, `KotIsResolved`, `StrandedClaimEnds`, `FlagIsResolved`,
`NoDeliveryGoesDark`, `StoreFollowsPos`): it needs fairness and `ENABLED`, which are
out of the prover's reach.

## 5. What the models leave out

- Signatures, schemas, authorization and rate limits: a request that is refused
  changes nothing.
- Contents of documents nobody decides on: labels, timestamps other than lease
  stamps, error snapshots, audit rows, notifications.
- Time is abstract. Leases outlive executions because `timeoutSeconds` (60 for
  HTTP, 540 for jobs) is below their 10 minutes; a lease expires in a model only
  when its owner is gone, except in `Refund`, where it may expire under a live
  owner as well.
- Firestore's own failures appear as crashes at the step before the write, and
  where the code catches them as a branch of the action.
- The branches for a data store without transactions, which only tests use.

Where a property says less than the hazard it belongs to:

- `OneTicketUnlessTakenOver` and the runs of the kitchen's ticket assume clean
  answers (`LostAnswers = FALSE`). A connection that breaks, or an answer that cannot be
  read, after the POS registered is stored `pending_retry` (`orderPush.ts` 828 and 901)
  and pushed again; with `LostAnswers = TRUE` the ticket rings twice.
- `PaidOrderNeverRegresses` is about the webhook; verify's side is finding 7.
- `CapturedIsAccounted` and `RefundsAreRecorded` name an event that came too late as
  an outcome of its own.
- `LockoutStands` protects a lockout that stands. It does not say that enough wrong
  codes lead to one.
- `OneOrderPerKey` counts the answers whose intent was stored. Calls without an
  `orderId` are not modelled.
- `ReopeningIsAsked` allows a stale batch of the job to reopen a ticket that was just
  resolved, when the job's scan had seen it unattended.
- `OutletsApart` takes the links of the outlets as fixed: a lookup may fail or find
  nothing, but an outlet does not change its restaurant id in between.
- `CancelAsksOnce` says nothing of two rejections of one request that overlap.
- `RolesInStep` is about a last change that ran alone to its end; a registry delete
  that fails ends it without that claim.
- `WholeRunExclusion` needs a run shorter than the lease.

## 6. Findings

Where the code and its comments disagree, what the comment says is stated as a
property of the module, and TLC finds it violated with the constants named; no run
lists them.

1. *Second transfer for a second capture* (`RouteTransfer`,
   `PayoutNeverFiresTwice`; two payments): the reconcile lookup is per payment, the
   claim per order, so an unresolved POST for the first payment is invisible to the
   second. `razorpay.service.ts` 1490-1492 says it "can never fire twice for one
   order".
2. *A dead push is repeated* (`KotPush`, `OneTicket`; two callers): a direct caller
   takes over the lease of a push that died after its POST; `petpooja.scheduler.ts`
   82-85 says that such a state gets "NO new provider POST".
3. *A second rider* (`Dispatch`, `OneRider` without its premise on `slips`). Each of
   the four slips of section 2 leads to two riders. A cancellation or a stale event
   written over the next booking, or a ride revived by a late event, makes the order
   look free while one is on its way. A booking left behind a refusal is no longer
   named by anything, and the walk goes on to the next carrier. For `under_review`
   (`MaxTaps = 2`) staff rebook an order under review, the answer is lost, and the
   first event of the new rider is the arrival at the store: the transaction binds
   the booking but ignores the event, the order stays `needs_review`, and the next
   claim takes the booking for a dead one (`dispatch.webhooks.ts` 1301,
   `dispatch/types.ts` 152-156).
4. *A replaced booking's event lands* (`PorterLane`, `ForeignEventIsParked`;
   `MaxBookings = 2`): `handlePorterWebhook` compares an event with the map of its
   own booking, never with the booking on the order; `porter.service.ts` 1001 says
   that such an event is parked.
5. *A reminder nobody got* (`Tickets`, `FlagMeansSent`): `publishTicketAlert`
   fulfils when every send was refused, and the flag is written; the comment at
   `ticketReminder.scheduler.ts` 153 says it must only land when the alert went out.
6. *The stamp moves under a payable order* (`Checkout`, `CaptureMatchesStamp`): a
   second checkout restamps an order whose earlier gateway order stays payable (and
   is even handed out again for its key, without a stamp), and a capture of that one
   is refused as a mismatch and parked; `razorpay.service.ts` 906 calls the stamp
   "always trustworthy".
7. *Verify takes a ready order back* (`PaymentConfirm`, `ConfirmNeverRegresses`;
   `Event <- OnePayment`, `BumpCode <- Kitchen`): `finishVerifiedPayment`'s list of
   later statuses (`razorpay.service.ts` 1989) names `READY`, which nobody writes, and
   neither `READY_FOR_PICKUP` nor `READY_TO_SERVE`, so verifying a payment of an order
   the kitchen marked ready writes CONFIRMED over it; `webhookHandler.ts` 560-563 says
   that "a retried verify" must not regress a later status.
8. *A kitchen's refusal is not heard* (`PosCallback`, `RefusalIsHeard`): the POS's
   `reject` is normalised to `unknown`, ignored and answered with success, where
   `references/petpooja_save_order_api.md` counts it among the events the webhook
   maps.

Seen while modelling:

- *Payout and dispatch.* The lease of `retryRouteTransfers` (4 minutes, `index.ts`
  1572) is shorter than its run (540 s), so a slow tick does not make the next one
  skip as `index.ts` 1521 says, and the payout relies on its own leases. The rebook
  job may book an order whose staff rebooked and cancelled since the scan, which
  `dispatch.router.ts` 1807 rules out. `savePorterManualBooking` does not look at a
  parked or expired claim as `manualBranchDispatch` does. An order flagged for a
  rebook whose old ride a late event revives keeps the flag while the ride is on its
  way; `FlagIsResolved` counts it as resolved, since the job takes its word.
- *Porter.* A staff cancel sets `rider_cancelled`, and a callback that follows may
  arm the automatic rebooking the cancel had cleared. Wrong delivery codes that
  overlap are counted once, so the lockout may come late or never.
- *Checkout.* When the intent cannot be stored, the gateway order is handed out
  without it: its coins are never debited, and the key can yield another one. A
  superseded intent no longer names the older gateway order, so its coins are not
  debited either. Two orders can be priced with the same coins; the second debit
  takes what is left.
- *Refund.* The 15 minutes of the webhook and the missing retry job together leave a
  refund whose execution died, and whose event came late, as the order's claim:
  staff have to ask for it again. A dashboard refund whose event comes late is known
  to the gateway only, and the cap does not count it. An order that was refunded
  twice before there was a ledger names its last receipt only, and unless its total
  was kept as the sum (the writers of that time are not in the repository) the cap
  does not know the first: a request may then ask the gateway for more than the
  capture has left, which the gateway refuses. `AskWithinCapture` is stated for at
  most one such refund (`OneLegacyRefund`); a `Legacy` set of two without that
  hypothesis violates it.
- *POS callbacks.* Only the last event is remembered against replays, so A, B, A
  within the window applies A twice; the terminal guard is what keeps that
  harmless. A parked entry is best effort: the callback is answered with success
  when it cannot be written (`unparked`). `payment.refundStatus` is written with a
  dotted key through `set(merge)`, which makes a field of that literal name.
  `disposeRefundRequest` reads and writes apart: of two rejections the second
  overwrites the first's reason.
- *Catalogue.* A refused retirement keeps ghosts on sale, as documented; a toggle
  of a retired product puts it back on sale; a stale feed overwrites a toggle that
  landed during the sync, until the next hourly one.
- *Accounts.* Two role changes of one account that overlap, or one that overlaps its
  erasure, can leave claims, profile and registry apart, and so can a registry delete
  that fails: the error is taken for a document that was not there. A prune writes
  over what it read, so a token that changed hands since is taken off its new owner's
  list, until the next refresh; a late logout does the same to the account that just
  registered. The token of an erased account keeps its owner, so another account on
  that device is refused. A migration that is under way at an erasure writes name and
  phone back. An award that finds the row already there still answers
  `welcomeBonusAwarded` with 50 coins. Two migrations of one session write over each
  other, batch by batch.

## 7. Not modelled

- **Around the accounts**: the proof of a guest session, the addresses, the daily
  purge of guest carts older than a week, and the pages of 20 holders and 400 orders
  a query is cut into.
- **Dispute and transfer events** of the payment webhook: they append to lists
  staff review.
- **Adapters of the carriers and readiness**: their outcomes are in `Dispatch`,
  their payloads decide nothing.
- **Notifications, audit, certification tooling, Firestore rules, design system,
  scripts**: no state that another component decides on.
- **Two lanes on one order.** `Dispatch` and `PorterLane` model the same order from
  the two sides of `porterOrderId`; their composition is beyond TLC with the
  bounds at which either is interesting.

Theorems to follow: the safety part of the liveness runs (a stranded claim is always
visible to the job that ends it, an overtaken sync leaves what the next one repairs),
and a refinement of the refund protocol to an abstract cap.
