# TLA+ models of egofi

egofi is a non-custodial payment gateway: a customer pays an invoice with some
token, the merchant receives a stablecoin in a wallet of their own. These
modules model the backend (`apps/backend`, NestJS on PostgreSQL, Redis and
BullMQ): what an invoice goes through while HTTP requests, webhooks, pollers and
delayed jobs act on it at the same time, how a deposit is told apart by its
amount, how a swap provider is chosen and replaced, how the merchant gets to
hear of a payment, how subscriptions are billed, and what guards the merchant's
own requests: idempotency keys, tenant isolation, sessions, document review.

The deployment starts three containers from the same application module, and
each of them serves HTTP *and* runs the workers. So every handler below may run
several times at once, in different processes, and interleaves with every other
at each `await`. Nothing but PostgreSQL, Redis and BullMQ job ids keeps them
apart.

## Inventory

| Part | State it keeps | Operations | Who it talks to |
| --- | --- | --- | --- |
| Invoices (`invoices/`) | `Invoice` row, `PaymentEvent` rows `state.*` | `create`, `transition`, `recordEvent`, reads | writes `OutboxEvent` in the same transaction |
| Checkout (`checkout/`) | none of its own | `createSession`, lazy issue in `getSession`, `issueInvoice` | pricing, router, rail, invoices, jobs |
| Webhook ingest (`webhooks/`) | `PaymentEvent` rows, `ProviderTransaction.status`, `UnmatchedPayment` | `processTatumWebhook`, `processProviderWebhook` | amount pool, invoices |
| Detection sweeper (job, every minute) | none | poll open swap invoices, apply the diverged action | swap rail, invoices |
| Rate-lock expiry (delayed job) | one BullMQ job per invoice | expire | invoices |
| Amount pool (`rails/direct-transfer`) | `AmountReservation` rows, a Redis lock per address | `allocate`, `matchDeposit`, `release` (no caller) | called by the direct rail and the webhooks |
| Swap rail (`rails/swap-provider`) | `ProviderTransaction`, `Quote` rows | `createPayment` with failover, `getStatus` | providers, provider health |
| Rail router | none | `route` | called at issue |
| Provider health | snapshots | `computeHealth`, `rankProviders`, `snapshot` | reads `ProviderTransaction` |
| Outbox (`core/outbox.service.ts`) | `OutboxEvent` rows: status, attempts, nextAttempt | `emit`, `fetchDue`, `markDelivered`, `markFailed` | written by invoices, KYB, subscriptions |
| Outbox dispatch (job, every 5 s) | none | due rows to the merchant-webhook queue, then mark | outbox, BullMQ |
| Merchant webhook (job, 5 tries) | `WebhookDelivery` rows | POST | the merchant's server |
| Operator API (`admin-api/`) | `AuditLog`, `Merchant.status` | `retryOutbox`, approve, suspend, reactivate, fee policy, reports | outbox, audit |
| Subscriptions | `Subscription`, `SubscriptionPlan` | `subscribe`, `update`, `remove`, `cancelSubscription`, hourly `billDueSubscriptions` | invoices, outbox |
| Idempotency interceptor | a Redis value per request key | claim, look up, store, delete | around every mutating endpoint |
| Auth | `RefreshToken` rows in families | register, login, refresh | merchant status |
| KYB | `KybDocument` rows, `Merchant.kybStatus` | upload, delete, submit, approve, reject | Cloudinary, outbox |
| Tenant guard | `app.current_merchant_id` of a connection | scope every batch of queries | row-level security |
| SDK | none | a request with an Idempotency-Key | the API |
| Pricing, chain access, XPUB derivation, ledger, compliance, notifications, monitoring | caches, counters | remote calls, pure functions, log lines | |
| Web applications, UI, shared types | state of React components | clients of the API | |

**What is hard here, and what makes each part correct.**

* *Invoices.* `transition` reads the row, decides, and updates by id: two
  handlers that overlap both commit. Correct: row, audit trail and outbox never
  disagree; no state that presupposes money without a deposit; nothing the
  provider did not report; settled invoices rest.
* *Webhook ingest.* Duplicates, losses, reordering, a crash between recording a
  deposit and crediting it. Correct: money that arrived is on record before the
  sender is told so, and what is on record gets credited.
* *Sweeper and expiry.* They work on old reads and swallow errors. Correct: a
  lost webhook is made up for; a wait for payment ends.
* *Amount pool.* A lock with a time to live guards a read and an insert.
  Correct: open amounts at an address are distinct, the lock is always freed.
* *Swap rail.* Four calls per provider, each of which may fail, in a loop that
  keeps what an earlier turn has left in its variables. Correct: what the
  customer is shown is of one piece, and a failed provider does not end the loop.
* *Outbox.* Dispatch ticks overlap, work on old attempts, crash between handing
  over and marking; BullMQ deduplicates by job id. Correct: every row ends
  delivered or dead, a delivered row reaches the merchant, nothing is skipped in
  silence.
* *Subscriptions.* The period's invoice and the cursor are separate writes from
  a row read before the loop; runs overlap each other, an edit, a cancellation;
  month ends. Correct: no period is left out, none is billed twice unless
  something failed, a canceled subscription is soon left alone.
* *Idempotency and tenants.* A key outlives a crash, is deleted after errors,
  and expires; pooled connections carry a setting. Correct: an effect that is
  remembered is not repeated; a query sees its caller's tenant.
* *Sessions and KYB.* A check and the write it guards are separate calls.
  Correct: an exchanged token is dead, a revoked family and a suspended merchant
  are shut out; documents under review stand still, up to calls under way.

The hazards, each at its line with the properties that watch it, are listed in
`PROJECT.json`.

## Modules

| Module | What it is |
| --- | --- |
| `InvoiceStates` | the transition table, the notifying states, and the three mappings from provider statuses to actions (pushed status, rail status, sweeper) as operators |
| `InvoiceLifecycle` | one invoice and all handlers that move it |
| `InvoicePromise` | the abstract specification of `transition`: `KeptSpec`, and the stronger step `SerialNext` |
| `InvoiceCorrectness` | properties, fairness and the refinement of `InvoiceLifecycle` |
| `InvoiceOverlap` | `InvoiceLifecycle` with a history of which handlers have been overtaken by another's commit, and what holds for the rest |
| `AmountPool` | `allocate` and `matchDeposit` at one address |
| `OutboxDispatch` | outbox rows, dispatch ticks, merchant jobs, the operator's retry |
| `SwapFailover` | the loop of `createPayment` over the providers, call by call, with `ProviderHealthService`'s ranking |
| `RailRouting` | `RailRouter.route` as an operator |
| `BillingCalendar` | `addPeriod` on dates, as operators |
| `SubscriptionBilling` | a plan, its subscriptions, requests, the merchant and the billing runs |
| `OnceOnly` | the abstract specification of an idempotency key |
| `RequestPipeline` | a request from the SDK through the interceptor and the tenant guard to the database and back |
| `Sessions` | refresh tokens, the status of the merchant, the operators' changes of it and the audit log |
| `KybReview` | documents, submissions and verdicts of one merchant |
| `*_proofs` | theorems about the module they are named after |
| `MC*` | instances for TLC |

### How the models correspond to the code

Every action is one call to the database, Redis or a remote service, since that
is where the code awaits and where handlers interleave. A handler's `pc` is the
call it makes next; its other fields are the local variables that later calls
use. What fails or dies leaves what it has written. Variables marked *history*
in a module are read by properties only.

`InvoiceLifecycle`: `handler[w]` is the local state of worker `w`: `act` is the
action it will apply, `read` the state it has read, `tx`, `exchange` and `status`
what it was called with. The chains are

    issue      OpenCheckout -> CreateDirect | CreateSwap | NoProvider -> ReadState -> CommitTransition -> ScheduleExpiry
    deposit    ReceiveDeposit -> MatchDeposit -> RecordDeposit -> CreditDeposit -> ReadState -> CommitTransition
    provider   ReceiveStatus -> RecordStatus -> ChooseAction -> ReadState -> CommitTransition
    sweeper    SweepSelect -> SweepPoll -> ReadState -> CommitTransition
    expiry     StartExpiry -> ReadState -> CommitTransition

`ReadState` is `findOrThrow`, the terminal check and `applyTransition`;
`CommitTransition` is the transaction, with the early parts of the caller that
follow it. `Return` and `Throw` are how a handler ends: what its caller (Tatum,
BullMQ) sees of it is whether a webhook was answered 200 and whether the expiry
job is complete.

The log keeps `[action, from, to]` of each `state.*` event: `from` is the state
that was *read*, as in the code's `rawPayload`. A webhook that throws is
redelivered; a provider's posted status may be delivered any number of times, in
any order, or never. The environment (`Mine`, `ProviderMoves`, `TimePasses`) is
external: the payer, the provider and the clock. `phase` is the invoice's window
("open"), the time in which the sweeper and the amount's cooldown still look at
it ("grace") and what comes after; the 30 minutes of the one and twice the
window of the other are not told apart.

What the data abstracts: one invoice; amounts and addresses (they are the
subject of `AmountPool`); the token, decimals and reverted-transaction guards of
the Tatum handler, whose deposits end in an `UnmatchedPayment` like one that
matches nothing; signatures; payloads. `reserved` is `"dead"` when the
reservation was made after `expiresAt`: its window and its cooldown are over
from the start. `CreateSwap` may leave the exchange without its mirror row: the
provider is asked, the insert fails, no other provider takes over, and the
exchange is used all the same. (`SwapFailover` has the loop that leads there.)
A poll of the sweeper may go unanswered: `getStatus` reports an outage as
"awaiting", and the sweeper does nothing (counted as a fault, `MaxFaults`).

`InvoiceOverlap` adds `overtaken`: the handlers that wait for their commit while
another has committed since they read the row.

`AmountPool` counts amounts in steps of `STEP_UNITS` and time in ticks. The
value of the Redis lock is the same for every holder, so `Release` clears it
whoever holds it; `lock` records the holder only for the reader. `Lapse` is the
time to live running out: always possible when the holder is gone, and, bounded
by `MaxLapses`, while it still works. The cooldown is computed as the rail
computes it, from what is left of the window.

`OutboxDispatch` starts where `CommitTransition` ends: `Emit` is the row's
insert. A key is (invoice, event type), which is what the BullMQ job id is made
of; a key may be emitted `MaxRepeats` times. A tick holds the rows it fetched
*with the attempts they had*. A tick that takes longer than the 5 s interval, or
one of a stalled job, overlaps the next: hence several dispatchers. A POST ends
in one of four ways: `"ok"`; `"lost"`, the merchant has it but the job does not
know; `"error"`; and `"skipped"`, when the merchant has no URL or `safeFetch`
refuses it, and the job completes without having told anybody. The histories
`handed`, `dropped`, `received` and `skipped` say what became of an event: its job
was added, its add met the kept job of another event of its key, the merchant
has it, its job told nobody. Only rows of
the `invoice` aggregate are modelled; rows of `merchant` and `subscription` are
marked delivered with no job at all.

`SwapFailover`: one call of `createPayment` while other payments add rows and
their exchanges settle, are frozen, resumed or get older than a day
(`tally`, the rows `computeHealth` counts). `call.exchange` and `call.min` are
`exchange` and `selectedMinAmount`, which live across turns of the loop;
`NextProvider` is its `catch` clause and its end. `rankProviders` asks for the
health of all providers at once (`Promise.all`): `ComputeHealth` is one of these
queries, taken in any order, and other payments go on between them. One that is
rejected rejects them all, and the payment is refused before any provider is
asked. The rate of
`IsDegraded` is compared in integers (`10 * finished < 9 * settled`). `call.left`
and `call.degraded` are the rest of the ranked list and its second half;
`Provider` is the head of `[...healthy, ...degraded]`.

`SubscriptionBilling`: `run[r].todo` holds the rows as `findMany` returned them,
with their plan, and `run[r].row` the one in hand; `BillRow` is the invoice,
`AnnounceRow` the transaction with its link and outbox event, `AdvanceCursor`
the update by id. `issueInvoiceFor` is used by `subscribe` as well. A row whose
plan was removed is gone by cascade, and a write to it throws. Dates are a month
and a day; time jumps to the next day on which a period ends. Two hourly runs
overlap when one takes more than an hour, or when BullMQ restarts a stalled job.
Amounts, names and the invoice's own life (`InvoiceLifecycle`) are left out.

`RequestPipeline`: `stored[k]` is the Redis value of a key, which consists of the
principal, the method, the url and the client's key, hence `owner`. `Claim` is
`SET NX`, `ClaimTwice` the same command repeated by the Redis client after its
answer was lost. `Begin` and `Commit` are the tenant guard's batch: `set_config`
local to the transaction, then the query; the handler's effect is the commit.
`Store`, `Undo` and `UndoFails` are the `tap` and the `catchError`. `Send` is
`EgofiClient.request`: the same key again, as long as there is no answer.
`PlainQuery` is every query without a tenant: workers, webhooks, operators.

`Sessions`: tokens are numbered in the order of their rows, `parent` is the token
a refresh presented, `family` the login's. The client may present any token it
has been given, at any time. `ReadBefore`, `UpdateStatus` and `Record` are the
three calls of `approveMerchant`, `suspendMerchant` and `reactivateMerchant`;
neither asks anything of the status it read. `UpdateStatus` shares `status` with
the refreshes: this is where the two components meet.

`KybReview`: a document has the number of its upload as row and as file.
`BeginUpload`, `CheckDelete` and `BeginSubmit` read the status; everything after
them is done whatever has become of it. `FindPrevious` chooses any of the
documents `findFirst` may return. `Judge` is the transaction of `approve` and
`reject`.

## Runs

`tlc -workers 2 -config <run>.cfg <module>`.

| Run | Module | Instance | Result |
| --- | --- | --- | --- |
| `invoice_direct` | `MCInvoice` | 2 workers, 2 transfers, direct rail, 2 faults, 4 log entries, fairness | pass, 34 thousand states |
| `invoice_swap` | `MCOverlap` | 2 workers, 1 exchange, every stage but exchanging and failed, 4 log entries | pass, 340 thousand states |
| `invoice_polling` | `MCInvoice` | 1 worker, 1 exchange, every stage but verifying, 6 log entries, 1 fault, fairness | pass, 130 thousand states |
| `invoice_race_terminal` | `MCInvoice` | 2 workers, 1 exchange, no fault | `TerminalStatesRest` is violated |
| `invoice_crash_credit` | `MCInvoice` | 2 workers, 1 transfer, 1 fault, fairness of all jobs and of Tatum | `AbandonedDepositCredited` is violated |
| `pool` | `MCAmountPool` | 2 workers, 3 invoices, one quote, 3 ticks, 1 crash, fairness | pass, 230 thousand states |
| `outbox` | `MCOutbox` | 1 key, its second event, 2 dispatchers, 2 attempts, 2 tries, all outcomes of a POST, 3 faults, 1 retry, fairness | pass, 29 thousand states |
| `failover` | `MCFailover` | 2 providers, a sample of 3 rows, 3 rows each, 2 failed queries or inserts | pass, 830 thousand states |
| `billing` | `MCBilling` | 2 requests, 2 billing runs, 2 subscriptions of 1 customer, a monthly plan from 31 January 2028 to 31 March, 1 failure, fairness | pass, 300 thousand states |
| `requests` | `MCRequests` | 2 keys, 2 merchants, 2 handlers, 1 connection, 2 faults, fairness | pass, 110 thousand states |
| `sessions` | `MCSessions` | 2 requests, 2 operators, 3 tokens, 2 changes of status, 1 fault | pass, 1.9 million states |
| `kyb` | `MCKyb` | 2 requests, 2 reviewers, 2 required types, 3 uploads, 2 documents, 2 submissions, 2 failures | pass, 2.4 million states |

`MCFailover` also states, as an `ASSUME` that TLC evaluates, the cases of
`rail.router.spec.ts` for the operators of `RailRouting`.

### What the passing runs show

* **`invoice_direct`**: with crashes and database errors at any call,
  `DepositsAccounted` holds (Tatum gets its 200 only for a transfer that is on
  record), and `KeepsPromise`: the invoice row, the audit trail and the outbox
  move together, along an edge of the table out of a state the invoice has been
  in. That is no more than it says: the edge may have been taken before, so that
  log and outbox tell of a change that was none (`invoice_double_commit` below).
  `Grounded` is the part of the inductive invariant of the proofs that is about
  the handlers' locals. Three properties are about the executions in which nothing
  has failed: `CalmDepositCredited`, a recorded deposit is credited or in the
  hands of a handler; `ExpirySkipsOnlyResolved`, the expiry job, which takes any
  error for "already resolved", meets only that one; `WaitEnds`, the wait for
  payment ends. Each is false after one fault: for the first that is the run
  `invoice_crash_credit`, for the second `invoice_expiry_error` below, and a
  crash before `scheduleRateLockExpiry` breaks the third.
* **`invoice_swap`**: two handlers issue, push and poll at once, statuses are
  repeated and reordered. `DepositBeforeProgress` and `TransitionsHaveCause`
  hold although the guards are evaluated on reads that may be old.
  `SerialUnlessOvertaken`: a commit leaves the state the invoice is *in*, by an
  edge of the table, unless another handler has committed since this one read
  the row. So a settled invoice is reopened, or a change notified that was none,
  only by a handler that was overtaken; that such a one does is
  `invoice_race_terminal`.
* **`invoice_polling`**: `SweeperAdvances`: the sweeper alone moves an invoice
  whenever the provider is one step ahead of it, with every webhook lost.
* **`pool`**: `OpenAmountsDistinct`, `SurchargeBounded` (an amount exceeds its
  quote by no more steps than there are competitors), `LockIsFreed`. No lock
  lapses under a holder that still works (`MaxLapses` is 0); see `pool_lapse`.
* **`outbox`**: starts where an earlier event of the key has been dealt with, its
  job still kept, completed or failed, under the id the next will have; once a
  completed job is forgotten all is as for a first event.
  `GapsAreRepeats`: a row marked delivered has had a job of its own, or its add
  met that kept job - the only gap there is. `DeadOnlyAfterFailures` in spite of
  old attempts, `EveryRowSettles`, and `MerchantIsTold`, which names the ways a
  delivered row does not reach the merchant: it was dropped for another's job,
  there was no URL to post to, every try failed.
* **`failover`**: `ShownIsWhole`, across failovers the exchange that is shown
  pays the merchant, has its row and its quote unless the insert of that very
  exchange failed, and goes with its provider's minimum unless, after that
  failure, a later provider named one and then gave no exchange; `FailsOver`, a
  payment is refused only when all providers have failed or a health query was
  rejected, and a provider is passed over only for one that its record of settled
  swaps ranks in front or after it has failed itself. The freeze rate plays no
  part in that: see `failover_frozen`.
* **`billing`**: `NoPeriodSkipped` and `NoMonthSkipped` through every failure,
  overlap, edit, cancellation and removal and over the end of February;
  `OncePerPeriod` and `NoSecondSubscription` say what it takes for a
  period to be billed twice or a customer to be subscribed twice: a failure or
  two runs that overlap, and two calls of `subscribe` that overlap.
  `CanceledIsLeftAlone`: a canceled subscription gets at most one invoice more,
  and another for each overlap of runs. `CursorCatchesUp` is liveness. The plan
  of the run has one possible period, so an edit changes nothing there; the
  theorems are for any set of them.
* **`requests`**: `KeepsPromise`, the pipeline implements `OnceOnly`: an effect
  is repeated only after the server has forgotten the key, and the response given
  is the last effect's. `QueriesSeeTheirTenant` over a connection that both
  merchants and plain queries share. `RetryIsAnswered`: a client that keeps
  trying is answered, because keys expire.
* **`sessions`**: `OneSessionPerBranch`, `RevokedFamilyEnds`,
  `SuspendedGetsNothing`; each allows what was under way at that moment, and
  nothing else. `AuditTrailReplays`: without overlap and fault the log tells the
  history of the account.
* **`kyb`**: `FrozenUnderReview`, a change of documents under review was admitted
  before the submission; `SubmittedIsComplete`; `LatestOfEachKind` and
  `FilesMatchRows`, which name the calls and lost races by which rows of a type
  multiply and rows and files differ.

### What the violated runs show

Each is a statement of a comment, a document or a test that the code does not
keep; `findings` in `PROJECT.json` quotes it.

* `invoice_race_terminal`. `transition` checks the terminal states on the row it
  read; another handler settles the invoice before the update by id. The test
  "never reverts a confirmed invoice" looks at the pure table.
* `invoice_crash_credit`. After a crash between `recordEvent` and `transition`
  the redelivery finds the event, is answered 200 and ignored. The property is a
  leads-to from that answer on: although Tatum, the expiry job, the sweeper and
  time all go on, nobody ever credits the deposit, since the sweeper looks only at
  swap invoices.

### Other counterexamples

The passing properties above name their exceptions. Each exception has a
configuration in which TLC exhibits it; all end in a violation, and are kept to
be run again when the code changes.

| Configuration | Module | Violated | What happens |
| --- | --- | --- | --- |
| `invoice_double_commit` | `MCInvoice` | `NotifiedIffChanged` | two handlers commit the same transition: a second log row and a second outbox row for no change, against "iff the state actually changed" (`src/README.md:51`, `invoices.service.ts:10-12`) and "every transition is idempotent" (`webhooks.service.ts:234-235`) |
| `invoice_missed_webhook` | `MCInvoice` | `DepositsGetRecorded` | a direct payment whose Tatum webhook is lost is never put on record, all jobs running, against `docs/runbooks/missed-webhook.md:8-10` |
| `invoice_behind` | `MCInvoice` | `SweeperCatchesUp` | `divergedAction` has no entry for a provider more than one step ahead (`detection-sweeper.processor.ts:67-83`): after two lost webhooks the invoice stays open |
| `invoice_expiry_error` | `MCInvoice` | `SkippedIsResolved` | the expiry job takes a database error for "already resolved" and completes |
| `pool_lapse` | `MCAmountPool` | `SlotsNotShared` | a lock lapses under a slow holder, and two open reservations get one amount |
| `pool_straggler` | `MCAmountPool` | `StragglersAttribute` | the amount of an expired invoice is given out again during its cooldown (`amount-pool.service.ts:41` and 75-80): a late payment matches two invoices |
| `outbox_repeat` | `MCOutbox` | `NoSilentGap` | the second event of a type is marked delivered while its job is dropped (`jobs.service.ts:144`), against "no silent gaps" (`outbox.service.ts:17-19`) |
| `billing_twice` | `MCBilling` | `PeriodInvoicedOnce` | an error between the invoice and the cursor bills the period again, against "Idempotent per period" (`subscriptions.service.ts:255-256`) |
| `requests_duplicate` | `MCRequests` | `TakesEffectOnce` | an error after the commit deletes the key: the retry takes effect again within the day |
| `sessions_reuse` | `MCSessions` | `ReuseEndsAll` | a refresh in flight survives "all sessions revoked" (`auth.service.ts:85`) |
| `kyb_latest` | `MCKyb` | `QueueShowsOneOfAKind` | two overlapping uploads of a type leave two documents in the queue (`kyb.service.ts:106-107`) |
| `failover_frozen` | `MCFailover` | `FrozenIsDemoted` | a provider that froze every swap of the day keeps its place, against `swap-provider.rail.ts:50-51` |
| `failover_unstored` | `MCFailover` | `ShownIsStored` | an exchange whose insert failed is shown all the same: its webhooks are for an unknown exchange |

### What else the models brought to light

No configuration states these; they were met while reading the code for the
models, and most are reachable in them.

* *Invoices.* After two overlapping issues a late `issue` commit takes a credited
  invoice back to `AWAITING_PAYMENT`. A direct invoice has no way from `RECEIVED`
  to `PAID_CONFIRMED`: the confirmation watch is a stub. The action `cooldown` is
  in the table, but its only source state is terminal for `transition`.
* *Amount pool.* With `MaxLapses` above 0 `DEL` removes a lock that is not one's
  own, so that the overlap goes on.
* *Swap rail.* One health query that is rejected refuses the payment with no
  provider asked (`provider-health.service.ts:97`): the ranking is outside the
  loop that fails over. A failed insert may leave an exchange at the provider that
  nobody uses. `getStatus` asks all providers and reports an outage as "awaiting".
* *Outbox.* Rows of subscriptions and merchants are marked delivered with no job
  at all. A job whose merchant has no URL, or one that `safeFetch` refuses,
  completes (`merchant-webhook.processor.ts:39`, 89-95) and is not tried again
  when the URL is set.
* *Billing.* A month's clamp is kept: 31 January, 29 February, 29 March. A crash
  in `subscribe` leaves an active subscription whose first period is never
  invoiced. `remove` may delete, by cascade, a subscription that was inserted
  after it had counted none.
* *SDK.* `request` accepts an idempotency key, but no public method passes one
  (`client.ts:124-127`), so two calls of a method are two keys.
* *Sessions.* A client that loses the answer of a refresh and tries again is
  logged out; suspension does not revoke tokens, it makes refreshes fail. The
  audit row is written after the status and apart from it. The create branch of
  `updateFeePolicy` ignores the data it is given.
* *KYB.* Two overlapping uploads may leave a file without a row. `approve` marks
  all pending documents, those the reviewer has not seen included; after a
  `reject` it verifies a merchant who has only rejected ones. An approved document
  can be deleted by an upload that read it as pending.
* *Checkout page.* The poll loop (`CheckoutPageClient.tsx:62-78`) ends for good
  with the first failed poll, and arms itself again when a poll is in flight at
  unmount; the text for an expired invoice says that no funds were taken,
  whatever was mined. The merchant's invoice page (115-130, 488-503) and
  `lib/OrderDetails.tsx:83-98` have loops of the same kind.

### Bounds and why they are enough

* Two workers, requests, runs or handlers: every property is about a pair (a read
  and the commit that made it old, a delivery and its duplicate, a check and a
  competitor's write). The proofs lift the safety properties to any number.
* `MaxEvents` bounds the log, which only a commit extends; 4 entries reach
  `PAID_CONFIRMED` through receive and payout, 6 every path of one exchange with
  the entries that a repeated status adds. A commit that would exceed the bound
  is not taken, so the swap runs, where a handler may be left there, do not
  check for deadlock. `invoice_direct` never reaches the bound and does check.
* `Reports` restricts the stages of the provider to keep `invoice_swap` small;
  `invoice_polling` has others.
* `MaxFaults`, `MaxTrouble`: one crash per hazard is enough to break a property;
  two allow a crash while recovering from a crash. `failover` has two, so that
  an insert of each provider may fail in one call.
* `pool`: three invoices make two competitors for the third one's amount; three
  ticks let one reservation expire while another is open.
* `outbox`: `MAX_ATTEMPTS` is 2 instead of 10 and the five tries of BullMQ are 2,
  so that dead letters and failed jobs are reached with few faults; one row is
  contended for by two dispatchers and an operator, since rows share nothing but
  the tick that holds them and, if they are of one key, the id of their job.
  That is why the run is about the second event of a key (`FirstIsSent`, a state
  that a run without faults reaches): the job of the first is kept, and may meet
  the add of the second. The run stops once the row has settled and its job is
  done; it does not check for deadlock.
* `failover`: two providers make one failover and one last resort; the sample of
  `computeHealth` is 3 rows instead of 5, so that a provider becomes degraded
  and recovers; a third turn of the loop would meet the same leftovers.
* `billing`: the days from 31 January to 31 March hold two clamps, and two
  periods to bill late; a batch of one row makes the second row wait for the next
  hour.
* `requests`: one connection is the hardest pool, since every transaction follows
  on another's; two keys, one of each merchant, share it.
* `sessions`: three tokens are a login and two exchanges, or two branches of one
  family; two changes suspend and reactivate.
* `kyb`: three uploads replace one document of two required types; two
  submissions allow a review, a rejection and another review.
* Symmetry is used in `invoice_swap`, `sessions`, `kyb` and the runs that end in
  a violation of a safety property of invoices and pool, which have no liveness
  property.

### Fairness

* `HandlersFinish`: a handler that has started goes on, unless it crashes, which
  is an action (weak fairness per worker).
* The delayed expiry job gets a worker when it is due (strong fairness), and time
  passes.
* The sweeper is a repeatable job (strong fairness on selecting the invoice).
* `Step` of `allocate` and the expiry of Redis keys; a running tick, the 5 s
  scheduler, the end of a backoff and the workers of BullMQ.
* Billing: the hourly scheduler starts a run, and some run goes on (weak fairness
  on a fetch or a step of any run).
* Requests: a handler that has been started gets the connection now and then
  (strong fairness, as the pool is shared), Redis expires keys (weak), and
  `RetryIsAnswered` assumes a client that sends again while it waits (strong).
* Stronger assumptions are made only where the property is violated in spite of
  them: `AllJobsFairSpec` (`invoice_missed_webhook`: expiry, sweeper and time all
  go on), `ResentFairSpec` (`invoice_crash_credit`: Tatum also repeats every
  event until it is answered), `SameDaySpec` (`requests_duplicate`: no key
  expires).

Nobody has to open the checkout, to pay, to subscribe, to retry by hand, and no
webhook has to arrive in any passing run: those actions are not fair.

## Proofs

`tlapm <module>_proofs.tla`. The theorems hold for all values of the constants:
any sets of workers, transfers, requests, merchants, providers, any bounds. The
assumptions are the named `ASSUME`s of the component's module: bounds are natural
numbers, a null is no member of the set it stands beside, reports are statuses,
every period has a length, no provider is configured twice. TLC evaluates them
for the instances. What a theorem assumes beyond that is said here and stands in
its statement.

* `InvoiceLifecycle`: `TypeCorrect`, `NoProgressWithoutDeposit`,
  `EveryTransitionHasItsCause`, `NoDepositAnsweredAndLost` and `PromiseKept`.
  None of these invariants is inductive: whether a commit is legal depends on
  what the handler holds. `IInv` adds `Grounded`: `Holds` says for every program
  point what the handler may hold - the deposit it is about to credit is on
  record, the status it works on was posted and, later, recorded, the action it
  is about to apply has its cause and is legal from a state the invoice *has
  been* in. That part is stable: the sets it mentions and the log only grow
  (`Grows`, `CauseStable`, `HoldsStable`), so one handler's step cannot take it
  from another. Then one step per action (`NextIInv`), with the commit in a lemma
  of its own (`CommitStep`). `HandlersAreGrounded` states that part by itself.
  `PromiseKept` is the refinement: `CommitTransition`
  takes the edge of the promise, every other action stutters.

  `SerialWhenNotOvertaken`, about `InvoiceOverlap` and for any number of
  overlapping handlers: what a handler has read is what it writes over as long as
  no other has committed in between (`ReadIsFresh`, an invariant over handlers
  that are not overtaken), so its commit is a step of `SerialNext`.

  `CalmDepositsAreCredited` and `ExpiryGivesUpOnResolvedOnly` assume the direct
  rail alone (`"SWAP_PROVIDER" \notin Rails`), with any number of handlers and
  transfers. `DirectInv` says that before the invoice is issued nothing else is
  under way (`BeforeIssue`); that one handler issues it, since the reservation is
  unique (`OneIssue`); and that a deposit on record is in the hands of a handler
  past the match, which may still give its transfer up (`OnItsWay`). With both
  rails the argument fails at `OneIssue`: a second checkout that took the other
  rail may commit `issue` on a draft it read earlier, and the invoice waits again
  with its deposits.
* `AmountPool`: `DepositsAreDistinguishable`. `PoolInv` adds that a call under way
  holds the lock and that the candidate of a call about to insert is not the
  amount of an open reservation; the second needs the first, since only the
  holder inserts. Reservations that expire only make it weaker. The property
  itself is about executions in which no lock has lapsed under its holder. `SurchargeIsBounded` does not, and
  needs no lock: a call that inserts has stepped over amounts that are in use,
  never more than there are rows, and rows are only added before it inserts
  (`SurchargeInv`). The loop ends at the first free amount (`FirstFree`): all
  amounts below are in use, which bounds it without induction.
* `OutboxDispatch`: `DeadLettersHaveFailed`. `AttemptsCounted` says that the
  attempts a row carries, in the table or in the hands of a tick, are at most the
  dispatches that failed. `markFailed` writes the attempts it read plus one, so a
  tick with an old row can set the count back; it can never count a failure that
  did not happen. `OnlyRepeatsLeaveGaps`, for any number of repeated events:
  `HandedOver` follows the add of a job, or its loss to the kept job of another
  event, from the queue to the tick to the row.
* `SwapFailover`: `ShownInstructionsAreWhole`. `LoopInvariant` says what the
  variables that outlive a turn may hold at each point of the loop: left over
  from a provider that failed (`LeftOver`: an exchange only from one whose insert
  failed, with what had been stored by then; a minimum from one that named it and
  failed after it, `MinimumOf`), or of the provider in hand (`InHand`). No provider
  is excused for what another's insert did. `FailoverIsInOrder`, health queries
  that are rejected included: who has had its turn has failed (`AskedInOrder`),
  and the one whose turn it is comes before all that are left (`TurnIsPreferred`), so whoever comes before the one in hand has had its turn.
  That some provider is first rests on the least of a set of naturals, and that
  the loop judges a provider degraded exactly when it is unreliable on
  arithmetic (`DegradedIsUnreliable`).
* `BillingCalendar` (in `SubscriptionBilling_proofs`): `PeriodsGoForward`, a
  period of any length but zero leads from a date of the calendar to a later one,
  and `DaysAddUp`, periods of days and weeks do not drift. `Roll` carries days
  over into months, as `setUTCDate` does, and is a recursive function; that it has
  a value at all is a lemma. `RollsExist` finds a function that rolls up to any
  number of days, `RollsAgree` shows that two of them agree, and both are
  inductions over a set of naturals (`AllNaturals`, from the well-founded order
  of the library), which needs no operator for a parameter.
* `SubscriptionBilling`: `BillingTypes`, `NoPeriodIsSkipped`, `NoMonthIsSkipped`,
  `PeriodsAreBilledOnce`, `SecondSubscriptionsRaced`, `CancellationTakesEffect`.
  A run works on rows as they were fetched, so the cursor it writes is computed
  from an old one. The invariant says that such a write is harmless: whatever
  cursor a run holds follows on a billed period of its subscription (`Chained`,
  `RunsAgree`), and goes on to do so, since billed periods are never taken back
  (`Keeps`). The months
  follow because `addPeriod` never takes the day of the month up (`NoLaterDay`)
  and moves on by the months of its period (`MonthsOn`).
  `PeriodsAreBilledOnce`: as long as nothing has failed and no runs have
  overlapped there is one run at work (`OneRun`), and days are in order
  (`InOrder`): the row in hand ends after all that was invoiced until it is
  invoiced and is the last of it from then on, and the cursor of a row nobody
  holds lies after all of it. `SecondSubscriptionsRaced` and
  `CancellationTakesEffect` count with finite sets: the calls that have found no
  subscription and the active subscriptions there are (`RacesCounted`), or the
  late invoices of a canceled subscription and the runs that still hold its row
  (`LateCounted`), are together at most one more than the overlaps.
* `RequestPipeline`: `PipelineSafe` is the inductive invariant: a key that is in
  flight has one handler, a connection in use carries the tenant of its
  transaction, an idle one none. From it `TenantsStayApart`, and
  `PipelineKeepsPromise`, the refinement of `OnceOnly`, for each key: a commit is
  an effect, a lost or deleted key is forgetting, a stored answer is a response,
  all else stutters.
* `Sessions`: `ExchangedTokensAreDead` needs that a refresh about to issue has
  revoked the token it was given (`Exchanged`); `RevocationEndsTheFamily` that one
  which may still issue into a revoked family was served at that moment
  (`LateRefreshesRace`); `SuspensionShutsOut` that one which began after the
  suspension has not got past the status (`ShutOut`); `AuditReplaysHistory` that
  operators one at a time read what the log ends with (`OneAtATime`).
* `KybReview`: `ReviewFreezesDocuments`, `SubmissionsAreComplete`,
  `FilesKeepTheirRows`, `QueueShowsLatest`. `ReadEarlier`
  says that a request past its check was admitted before the submission;
  `NumbersAreFresh` that rows and files get new numbers, so `FoundComplete`, what
  a submission found, stays true but for what others remove. `FilesInv` says of
  the requests under way that an upload holds a new number until its row is in
  (`NumbersHeld`), that nobody removes a document being uploaded (`DocsApart`),
  and that a file is stored before its row and deleted before it (`FilesHeld`);
  `KindInv` that one request at a time uploads a type unless uploads of it have
  overlapped (`OneUpload`), and that what it replaces is gone before it inserts
  (`PlaceIsFree`).

Only model-checked: liveness (`WaitEnds`, `LockIsFreed`, `EveryRowSettles`,
`MerchantIsTold`, `CursorCatchesUp`, `RetryIsAnswered`, `SweeperAdvances`) and the
counterexamples. Every invariant and every safety property of the passing runs is
a theorem, `CalmDepositCredited` and `ExpirySkipsOnlyResolved` under the hypothesis
named above (the direct rail alone). `RailRouting` and the
mappings of `InvoiceStates` are tables; TLC evaluates the cases of the router's
test, and the proofs expand the tables where they need them.

## Plan

What could come next, in this order:

1. Proofs: `CalmDepositCredited` on both rails, with a second issue as its
   exception; `RailRouting` (what it promises of the route it returns).
2. The sweeper's batch (200 rows in no order) and the outbox's (50 rows), with
   more invoices than fit.
3. The checkout page's poll loop over `InvoicePromise`.

## Not modelled

* *Pricing, provider adapters, chain access, XPUB derivation.* Remote calls and
  conversions; where they matter (a failed call, a status, a derived address) the
  component that calls them has a choice for the outcome.
* *Row-level security policies.* The tenant setting of a connection is modelled,
  what each table's policy makes of it is SQL.
* *Ledger, compliance, notifications, metrics, analytics.* Log lines, counters,
  read-only reports, and checks that nothing calls (`enforceVolumeLimit`) or that
  pass everything (the denylist is empty).
* *Job stubs* (deposit watch, confirmation watch, swap status poll): processors
  that log and return.
* *Configuration, error formatting, request validation, address checks.* Pure and
  stateless; a request that they refuse changes nothing.
* *Web applications, UI, shared types.* More than half of the repository's code, most
  of it layout; their state is what one page shows. They change the system through
  the API only, which the models call in any order and at any time.
