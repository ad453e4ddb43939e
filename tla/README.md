# FloweyPay in TLA+

FloweyPay lets a merchant share payment links. A payer opens a link and gets an
invoice: an amount of bitcoin at a locked rate, an address and a deadline. A
worker watches the bitcoin network, accumulates what arrives at the addresses,
counts confirmations, expires what was not paid and mails the merchant. Around
it stand a Next.js web API (sessions, products, links, payments, statistics), a
new non-custodial plane (wallets, durable address allocation, recovery
packages) and PowerShell scripts for the operator.

This directory models those parts, checks them with TLC and proves theorems
about them with TLAPS. Paths below are relative to the repository's root.

## 1. Inventory

| Component | State | Operations | Hard behaviour | What makes it correct |
|---|---|---|---|---|
| Payment worker (`apps/worker/src`: `handlers`, `btc`, `jobs/expirePayments.ts`, `watchlist.ts`, `index.ts`) | tables `payments`, `payment_btc_txs`; in memory: the watchlist, `lastBestHash`, the handlers' locals | a rawtx message, a rawblock message, expire, refresh, boot | two message loops and a timer interleave at every await; statuses are read before they are acted on; messages are lost and repeated; crashes; reorganisations | paid means covered in time; the sums and counts are right; stages only advance; nothing is forgotten |
| Payment statuses (`apps/web/app/api/payments`, `.../public/payments`) | none (views of a row) | show a row, filter a list | a row is shown as expired before it is swept | filter and view agree |
| Invoice start (`apps/web/app/api/public/payment-links/[token]/start`) | table `payments`, advisory locks | POST | check-then-act, retries, lost acknowledgements, a lock keyed by a time bucket | one payable invoice per link and window, never three at once |
| Notifications (`apps/worker/src/notifications`) | table `payment_notifications` | schedule, dispatch | fire and forget, overlapping ticks, crash between mail and update | each event once, three attempts at most |
| Worker supervision (`index.ts`, `api/worker/status`) | subscribers, counters, heartbeat file | connect, fail, back off, exit | two loops share a process | no topic is given up while the process goes on; a dead worker is reported |
| Address allocation (`api/_lib/addressAllocation.ts`, `hwm`) | high-water mark, `wallet_address_allocations`, `payments` | allocate | an external counter consumed before the transaction; ambiguous answers; unique conflicts | an index is used once; an operation gets one address |
| Wallet onboarding (`api/wallet`) | challenges, wallets, versions | validate, confirm, configure | attempts race with the single use | one wallet per merchant, bounded guesses |
| Login codes and sessions (`api/auth`, `app/login`) | `login_codes`, `sessions`, the page's step | request, verify, me, logout | unlocked check-then-act, a mail that is out although sending failed | one session for a code, bounded guesses, dead codes stay dead |
| Request limiter (`lib/security/rateLimit.ts`) | buckets in memory | check, collect | the window's edges, restarts, requests without headers | twice the limit takes a window |
| Rate cache (`api/_lib/btcRateService.ts`, `btc.ts`) | one entry per currency | quote | overlapping requests to the provider | no rate older than it says |
| Descriptor (`api/_lib/descriptor.ts`) | none | parse, normalize | a long list of checks whose order names the answer | exactly the receive chains are accepted; a supplied checksum is never dropped |
| Recovery package (`packages/recovery`) | none | build, sign, verify | canonical form | what was signed is what is verified |
| Payer page (`app/pay`) | the view it polls | poll, retry, regenerate | fetches fail and overtake each other; it stops at EXPIRED | until it stops it catches up |
| Dashboard (`api/dashboard`, `api/payments`, `app/(dashboard)`) | the figures and the list on the page | statistics, chart, list, load more | six statements without a transaction; pages read at different times | the error is bounded by the moves; no gaps |
| Products and links, user interface, operations scripts | rows; nothing; nothing | insert; render; run | none that interleaves | |

The parts meet in the tables. The start route creates `payments` rows that the
worker moves along; the worker and the web app never call each other. The
worker's handlers call `scheduleNotification` and do not wait for it; the timer
runs expiry, the watchlist refresh, the dispatch of notifications and the
heartbeat, in this order; the web app's status route reads the heartbeat's file.
The payer's page and the dashboard poll. The login, invoice and onboarding routes
ask the limiter first. The non-custodial plane stands apart so far:
`allocateReceivingAddress` has no caller in the repository yet, and no adapter of
its high-water mark exists, so that it fails closed.

`PROJECT.json` lists every component with its status and every hazard at its line.

## 2. Modules

| Module | Models |
|---|---|
| `PaymentStatus` | the `payment_status` enum, the sets the routes and the worker query by, `computeEffectiveStatus`, `buildStatusWhereClause` |
| `PaymentLifecycle` | the worker with its tables, the invoices that appear and the chain, mempool and ZMQ around it |
| `MCPaymentLifecycle` | its smallest world for TLC: one invoice, one transaction |
| `MCPaymentLifecycleBatch` | a larger one: two invoices, three transactions with four outputs, paid in parts or in one batch |
| `PaymentLifecycleProofs` | theorems about it |
| `InvoiceStart` | the start route for the payers of one link |
| `MCInvoiceStart` | its symmetry for TLC |
| `InvoiceStartProofs` | theorems about it |
| `Notifications` | `scheduleNotification` and `sendPendingNotifications`, called by overlapping timer callbacks |
| `MCNotifications` | its instance for TLC |
| `NotificationsProofs` | theorems about it |
| `AllocationLedger` | the abstract specification: what the allocation of addresses promises |
| `AddressAllocation` | `allocateReceivingAddress` with the high-water mark and the wallet's life around it; implements `AllocationLedger` |
| `MCAddressAllocation` | its instance for TLC |
| `AddressAllocationProofs` | theorems about it, the refinement among them |
| `RateLimit` | `checkRateLimit` and `getClientIp` as operators, used by the next ones |
| `LoginCodes` | the login page and the routes `request-code`, `verify-code`, `me`, `logout`, behind the limiter |
| `MCLoginCodes` | its instance for TLC |
| `LoginCodesProofs` | theorems about it |
| `Descriptor` | `normalizeOnboardingInput`: what wallet material is accepted and how a refusal is named |
| `WalletOnboarding` | `validate`, `confirm` and `config`, over `Descriptor` |
| `MCWalletOnboarding` | its instance for TLC |
| `WalletOnboardingProofs` | theorems about it |
| `DescriptorProofs` | the theorem about what the descriptor checks accept, over the instance's `judged` |
| `PaymentTable` | the payments as readers see them: they appear, move and get due |
| `Dashboard` | the figures and the paged list, over `PaymentTable` |
| `PayPage` | the payer's page and the public payment route, over `PaymentTable` |
| `RateLimiter` | the limiter as a process of its own: requests, collector, restarts |
| `RateCache` | `getRateWithFallback` |
| `Supervisor` | the worker's process: boot, subscribers, rounds, heartbeat, and the status route |
| `RecoveryPackage` | `packages/recovery`: validate, canonicalise, sign, verify |
| `MCServices` | `Dashboard`, `PayPage`, `RateLimiter`, `RateCache`, `Supervisor` and `RecoveryPackage` side by side, for TLC |
| `ServicesProofs` | theorems about `RateLimiter`, `RateCache`, `RecoveryPackage` and `Dashboard` |

### PaymentLifecycle

State. `status`, `expires`, `received`, `detected` and `confs` are the columns of
`payments` (`ABSENT` before the row exists); `recorded`, `at` and `conf` the
rows of `payment_btc_txs` by output (a pair of txid and vout); `watched` and
`lastBest` the worker's memory; `rx`, `bx` and `job` the calls under way, each
with the locals it holds across its awaits; `calls` the notifications asked for.
`chain`, `published`, `zmqTx` and `zmqBlock` are the environment: the best chain
as blocks of transactions, the transactions broadcast, and the messages on
their way.

Actions. An action is the code between two awaits at which another activity may
run; a database transaction is one action, since no other connection sees its
parts and the rows it writes are locked.

| Code | Actions |
|---|---|
| `handleRawTxMessage` | `RawTxReceive` (decode, filter, group), `RawTxLookup` (findFirst), `RawTxCommit` (accumulate, transition, notify); `RawTxFails` |
| `handleRawBlockMessage` | `BlockMessage` (getbestblockhash), `BlockReadPayments`, `BlockReadChildren` (findMany's two queries), `BlockChild` (one row), `BlockPayment`; `BlockFails` |
| boot and `setInterval` callback | `TickStart`, `ExpireFind`, `ExpireUpdate`, `WatchlistRead` (findMany), `WatchlistAssign` (the new set); `JobFails` |
| process | `Crash`: memory and sockets are lost, the boot sequence starts again |
| outside | `AdvanceClock`, `CreateInvoice`, `Broadcast`, `MineBlock`, `Reorg`, `LoseMessage` |

Abstractions. An address is identified with its payment. Amounts are numbers of
satoshis; the sum over a set of rows is the number of coins in them (`Total`), so
that no recursion is needed. Two messages that add rows are never handled
within one unit of the clock, so `detected_at` orders rows of different
transactions as in the code; rows of one transaction share it, and the
completing subset may break the tie either way. The order in which a handler
goes through payments, addresses and rows is arbitrary. `ZMQ` is a set of
transactions and a count of block messages: a rawblock message's content is
never read, only the tip. The limit of 5000 rows is not modelled.

### InvoiceStart

State. `req` holds, for each request, its place in the handler, its time stamp,
its attempt and its answer; `invoice` the row a request created; `holders` the
requests inside a transaction that holds its window's advisory lock.

Actions, in the order of the handler: `Arrive` (now), `Refuse` or `FindActive`,
`GetRateAndAddress`, `TakeLock`, `Recheck`, `Create`; `TransactionFails` rolls back
and retries or answers with an error, `CommitUnheard` commits and answers with
an error, `Restart` drops the requests under way. `WorkerMoves` is what the worker
does to a row meanwhile. The rate and the address are left out: they succeed or
fail.

### Notifications

State. `row` and `created` are the table `payment_notifications` by its key, a
pair of payment and event, and the order of creation; `scheduling` the calls of
`scheduleNotification` under way; `dispatch[k]` the locals of the k-th callback's
`sendPendingNotifications`: the rows still to be sent, the attempts each was
read with, the row it is at. `mails` and `failures` count what really happened
to each notification, for the properties.

| Code | Actions |
|---|---|
| `scheduleNotification` | `Call` (a handler calls and goes on), `Schedule` (the upsert), `ScheduleFails` (logged and forgotten) |
| `sendPendingNotifications` | `DispatchStart` (findMany), `Deliver`, `SendFails` or `DeliveredUnheard` (sendEmail), `MarkSent` (update to SENT), `MarkFails` (it throws into the catch), `CountAttempt` (the catch's update), `CountFails` (it throws out of the loop) |
| process | `Crash` |

An update that fails leaves the row as it was. The payment is always there: the
row refers to it. A query that finds nothing, or fails, changes nothing and is no
action. The module stands beside `PaymentLifecycle`, whose `calls` say which
notifications are asked for; here `Call` asks for any, also twice, as overlapping
expiry jobs do.

What is not claimed: with overlapping dispatches a mail may be delivered once per
dispatch, and a dispatch that fails to send may put a row another one marked SENT
back to PENDING. `MailedOnce` is about runs without overlap; `RecordIsTruthful`,
`PendingIsSelectable` and `EachIsSettled` hold with it. A notification whose call
is lost before its upsert is lost for good: `EachIsSettled` is about rows.

### AllocationLedger and AddressAllocation

State. `wallet` holds the lifecycle and recovery state of each version; `consumed`
and `hwm` are the external authority's; `allocations` and `payments` the tables;
`call` the calls under way; `answers` what callers were given.

| Code | Actions |
|---|---|
| `allocateReceivingAddress`, its unlocked read | `Start` |
| `hwm.consumeNext` and `mapHwmError` | `Consume`, `ConsumeUnheard` (ambiguous: it did happen), `ConsumeFails` (unavailable, or ambiguous where it did not) |
| the idempotent replay, the derivation | `Lookup`, `Derive` |
| the transaction | `PersistRefused`, `PersistFound`, `PersistNew`, `PersistConflicts` |
| the catch of a unique conflict | `Reread` |
| the answer, anything else that fails | `Return`, `Fail` |
| outside | `Retire`, `ChangeRecovery`, `Burn` |

A caller may call again with the same operation, after any end and with any
intent. The transaction is one step: it runs under the version's advisory lock
with both rows locked; between versions the unique index on the address decides,
which is why two versions with one account key are in the instance.
`AllocationLedger` knows no calls: an operation takes an index for ever, a
booking is made once at that index, an answer names a booking. `Ledger` maps
the payments to the bookings.

### RateLimit and LoginCodes

State. `codes` and `sessions` are the tables; `buckets` the limiter's store;
`handler[p]` the handler page `p` has called, with its locals; `step` what the page
shows; `mailed` the codes that reached the mailbox.

| Code | Actions |
|---|---|
| `LoginPage` and the limiter in front of the routes | `RequestCode`, `VerifyCode` (the call passes, or the page shows the refusal), `ChangeEmail` |
| `request-code` | `CheckCooldown`, `ReplacePrevious`, `CreateCode`, `SendCode`, `SendFails`, `UndoCode` |
| `verify-code` | `FindCode`, `CountMiss`, `ConsumeCode`, `CleanUp`, `CreateSession` |
| `me`, `logout` | `Me`, `Logout` |
| limiter's collector | `Purge` |
| failures | `HandlerFails` (a query throws: 500), `Restart` |

One e-mail address behind one client address: others share no row with it but the
limiter's bucket. A code is its row's number; a wrong attempt is one number that is
no code's. What is not claimed: that one code is active at a time. Two requests that
pass the cooldown together leave two, and `GuessesAreBounded` and
`OneSessionPerCode` are stated of each.

### Descriptor and WalletOnboarding

`Descriptor` takes a material as a record of the features the checks look at, and
states the checks as tables in the code's order; the first that fails names the
answer. base58check, the hashes and the checksum's polynomial are features
(`encoding`, `checksum`), not arithmetic.

State of `WalletOnboarding`. `challenges`, `wallets` and `audit` are the tables,
`call` the calls under way with their locals.

| Code | Actions |
|---|---|
| `validate` | `Validate` (existing wallet, normalize), `AskNode` (network, descriptor, first address), `ReadStale`, `DeleteStale`, `IssueChallenge` |
| `confirm` | `Confirm` (read and `evaluateConfirm`), `CountMismatch`, `ConsumeChallenge`, `ConfirmRefused` |
| any await that throws, `ConsumeRaceError` | `CallFails` |
| `config` | `ConfigData`, an operator the properties use: a merchant without a wallet is not configured; of the one active version the number, network, lifecycle, recovery and monitoring states and whether it is ready, never the descriptor |

### The readers, the limiter, the cache, the process and the packages

`PaymentTable` moves rows as `PaymentLifecycle`'s worker does, its stale writes among
them (`Moves`), so that what reads them need not carry the worker along.

| Code | Actions |
|---|---|
| dashboard `page.tsx`, `stats`, `chart/daily` | `AskFigures`, `RunQuery` (six, in any order), `ShowFigures` |
| `PaymentsPage`, `PaymentList.loadMore`, `payments` route | `OpenList`, `LoadMore` |
| `usePaymentLinkVm`, public payment route | `Poll`, `Retry`, `Serve`, `Arrive`, `FetchFails` |
| `useRegenerateInvoice`, `useNowMs` | `Regenerate`, `RegenerateFails`, `Leave`; `TimerExpired`, `ShowsExpired` |
| `checkRateLimit`, `purgeExpiredBuckets` | `Request`, `Collect`, `Restarts` |
| `getRateWithFallback` | `AskRate`, `ProviderReads`, `FreshRate`, `ServeCached`, `NoRate`; `LoseCache` |
| `main`, `runWithReconnect`, `writeHeartbeat`, worker status route | `Boots`, `BootEnds`, `BecomesStable`, `AttemptEnds`, `Reconnects`, `RoundStarts`, `RoundEnds`, `DiesWriting`, `Dies`; `FileAges`, `StatusOk` |
| `signRecoveryPackage`, `verifyRecoveryPackage` | `SignPackage`; `Verifies`, over `AlterPayload`, `AlterSignature`, `SwapSignature`, `AddProperty` |

Abstractions. The rate cache holds one currency; a rate is the time at which the
provider read its market, since its age is what the property is about. The
heartbeat file's content is missing, torn or whole, and its age. A signature is
the key and the bytes it was made from, a JSON text a record with the order of its
keys as a field of its own; the texts of a wallet version are one field, as
validation treats them alike. The checks that refuse unknown keys inside the nested
objects of a package are left out; those of the package itself are there.

What the models record without a property, since it always happens: the comment
`apps/web/lib/security/rateLimit.ts:133` says that "unknown" keeps requests without
headers from sharing one bucket, while it makes them share one (`ClientIp`); a
payment that is confirmed is shown as expired once the countdown is over
(`ShowsExpired`); the page stops polling at EXPIRED, which the worker may still leave;
the status route ignores the flags of the sockets that the heartbeat writes, and a
socket that hears nothing from a silent node counts as connected; the status file is written in place,
so that a killed process leaves a torn one; and a filtered list whose cursor row
has left the filter skips a row (`Taken`), for which `ListHasNoGaps` claims
completeness of the unfiltered list only.

## 3. Runs

| Run | Shows |
|---|---|
| `lifecycle_batch` (`MCPaymentLifecycleBatch.cfg`): `TypeOK`, `FundedBeforeDeadline`, `LedgerConsistent`, `MailIsTruthful`, `ConfirmationsNeverDecrease` | Two invoices paid in parts over three blocks, in time, late and over, or both in one batch with a mishap, against the expiry job: the ledger adds up, nothing is paid that was not covered in time, the merchant is told the truth and no later row takes confirmations back. |
| `lifecycle_faults` (`MCPaymentLifecycleSingle.cfg`): `NoOvercount`, `ConfirmedIsBuried`, `FilterAgreesWithView`, `NoDemotion` | One invoice that needs two confirmations, with every combination of two mishaps (lost messages, failing queries, crashes, a reorganisation): confirmations are never overcounted and stages are never left backwards. |
| `lifecycle_live` (`MCPaymentLifecycleLive.cfg`): `DeadlineIsEnforced`, `LivePaymentsAreWatched` | Under the fairness of the event loop and of the timer, with two callbacks that may overlap, an overdue invoice leaves AWAITING_PAYMENT, and a creditable one gets on the watchlist and stays there while it is creditable, whatever two mishaps do. |
| `expiry` (`MCPaymentLifecycleExpiry.cfg`), violation expected: `ExpiryOnlyTouchesAwaiting` | A payment seen between the expiry job's query and its update is overwritten with EXPIRED. |
| `coalesced` (`MCPaymentLifecycleCoalesced.cfg`), violation expected: `BuriedPaymentsAreConfirmed` | A payment whose row is committed after the block handler read the rows of the tip that contains it is never confirmed by that block, although nothing failed. |
| `notifications` (`MCNotifications.cfg`): `TypeOK`, `RecordIsTruthful`, `PendingIsSelectable`, `MailedOnce`, `EachIsSettled` | Two notifications, two dispatches that may overlap, a mail server that may always refuse, and one lost answer, failed update or crash: what the table says happened did happen, nothing is mailed twice without a reason, and every row is sent or given up in the end. |
| `invoice` (`MCInvoiceStart.cfg`): `TypeOK`, `OnePayablePerWindow`, `AtMostTwoPayable` | Three payers of one link over three windows, with failing transactions, lost acknowledgements and restarts: one payable invoice per window, and never three at once. |
| `duplicates` (`MCInvoiceStartDuplicates.cfg`), violation expected: `NoDuplicateInvoices` | Two requests on both sides of a window's boundary take different locks and both create. |
| `allocation` (`MCAddressAllocation.cfg`): `TypeOK`, `OneOperationOneAddress`, `BurnedIsNobodys`, `WithdrawnTakesNoMore`, `Implements` | Two overlapping calls for three operations, retried without end, of two wallet versions that derive the same addresses, with ambiguous answers of the authority, retirement, recovery that burns indexes, failures and crashes: no operation gets two addresses and no address two operations. |
| `login` (`MCLoginCodes.cfg`): `TypeOK`, `OneSessionPerCode`, `GuessesAreBounded`, `DeadCodesStayDead` | Two pages that ask for codes, try them and sign in to one account behind the limiter, with an unreliable mail server, failing queries and restarts: a code opens one session, a code used, replaced or expired opens none, and overlapping guesses exceed the attempts by no more than the calls that overlap. |
| `onboarding` (`MCWalletOnboarding.cfg`): `TypeOK`, `WalletsAreConfirmed`, `AcceptsReceiveChains`, `DeadChallengesMakeNothing` | Two merchants with two overlapping calls validate and confirm materials of one key, with expiry, wrong addresses, clean-up and failures: a wallet is one consumed, live challenge, as the configuration route shows it; and of six thousand materials exactly the receive chains are accepted. |
| `services` (`MCServices.cfg`): `FiguresErrOnlyByMoves`, `ListHasNoGaps`, `TwiceTheLimitTakesAWindow`, `RateIsNoOlderThanItSays`, `PackagesAreAuthentic`, `OpenPageCatchesUp`, `SubscribersAreNotGivenUp` | The parts that share no state, one of them at a time: the dashboard's figures and its paged list while payments move, the payer's page with failing and overtaking fetches, the limiter with its collector, overlapping rate quotes, the worker's process with its subscribers and heartbeat, and recovery packages altered on their way. |

The three runs whose expectation is a violation document disagreements between
the repository's own words and its code; `PROJECT.json` quotes the lines under
"findings".

Bounds, and why they are enough.

- `Batch`: payments for 2 and 1 satoshis, in two ways that `BatchNext` keeps apart,
  since their product only multiplies the states. In parts: one transaction pays half
  of the first, another all of it, in either order, so that two partial rows complete
  it together or the second is an overpayment the completing subset leaves out; a part
  may also come at the deadline, too late. `Required` is 3 with three blocks, so that
  a later row entering the subset would lower a count that is still CONFIRMING; two
  clock steps (`Lock` 2), so that both parts fit before the deadline. Of three blocks and
  the passing of the deadline the world has one or the other: once the deadline has
  passed there is one block. In one batch: one
  transaction pays both payments with two outputs, with one mishap, so that a failure
  or a crash falls between its two addresses, and one block.
- `Single` under faults: two mishaps in every combination of loss, failure,
  crash and reorganisation, three blocks, two clock steps, `Required` 2.
- Liveness: two mishaps, one block, two clock steps, two callbacks beside boot, so that
  expiry jobs and refreshes of the watchlist overlap.
- `InvoiceStart`: three requests (two that race and one that comes later or in
  the next window), windows of two clock units, a clock up to 4, so that two
  boundaries fall inside the run and a third window begins, two failures, two attempts instead of three.
  Requests are interchangeable, hence the symmetry; its runs state no liveness.
- `Notifications`: two rows and batches of one instead of 50, so that one waits
  behind the other; two dispatches, so that they overlap; two attempts instead
  of three, so that both the retry and the giving up occur with both rows; three
  calls, so that one event is called for twice; one mishap beside the mail
  server's refusals, which are not bounded.
- `AddressAllocation`: two versions with one account key, so that their addresses
  collide; two operations of the first and one of the second, so that
  operations of a version compete for indexes; two overlapping calls; two
  indexes, so that the mark runs out; an invalid, two valid and a foreign intent.
  Calls and the first version's operations are interchangeable. The system may
  stop: every version retired and every call over.
- `LoginCodes`: two pages, so that each handler is overtaken by the other's; two
  codes, so that one replaces the other; a cooldown of 1 and a life of 2 within
  two clock steps, so that a second code comes before and after the first has
  expired; one attempt, one failure or restart. The limits are above what two
  pages need at once and below what they can send in a window.
- `WalletOnboarding`: two merchants who offer one key's material (twice in different
  form) and one the node's chain refuses; two calls, two challenges, one attempt,
  a life of 1 within two clock steps, clean-up of one row at a time.
  Beside the merchants one material is judged, any that differs from an acceptable
  one in at most three of its fifteen features; only next to the acceptable one do
  the merchants move.
- `services`: `Dashboard` three rows and pages of one, two moves between queries;
  `PayPage` two fetches, so that answers overtake; `RateLimiter` a limit of 2, a
  window of 2 and four ticks, so that two windows meet and a third begins; two
  askers and a rate's life of 1 in two minutes; two subscribers, two short
  attempts, two rounds, restarts without end; two packages signed and one change on the way.
  These parts share no state, so their product would only multiply the states: a
  variable `subject` chosen at the start says which of them moves. The others rest
  in a state in which nothing of theirs is enabled or asked for (the page is
  gone, the worker is down), so that their fairness holds trivially and the
  liveness properties are decided in the runs of their own subject.

`CHECK_DEADLOCK FALSE` only where every request is answered, the clock is at its
bound and there is nothing left to do.

Fairness (`FairSpec`). Weak fairness of the clock, of each loop's next step
(`RxStep`, `BxStep`), of each callback's next step and of the timer that starts a
callback (`DispatchStep` in `Notifications`): a Node event loop runs every continuation that is ready, `setInterval`
fires for ever, and every query ends (or fails: `JobFails`, bounded). That the
process is started again after a crash is an assumption about its supervision
(`docs/ops/node-operations.md` describes the scheduled task); without it nothing
that must eventually happen does. Nothing is assumed of payers, miners and
message delivery.

`PageFairness`: the interval polls as long as the page asks it to, every fetch ends,
and a fetch that is made again and again is served and answered now and then
(strong fairness of `Serve` and `Arrive`, each per fetch): with a network that
never answers no page catches up. `SupervisorFairness`: time passes, so that
attempts get old, back-offs end and the file ages; nothing is assumed of the
node, the jobs and the operator, who may never start the worker again.

Every checked property has a mutant: an operator marked "Mutant:" next to the
definition it replaces, with which TLC finds the property violated.

## 4. Proofs

| Theorem | Establishes |
|---|---|
| `PaymentLifecycleProofs!TypeCorrect` (`Spec => []TypeOK`) | Every reachable state of the worker, its tables and the environment is well typed, for every set of payments, transactions and outputs, and every number of mishaps. |
| `PaymentLifecycleProofs!PaidMeansFunded` (`Spec => []FundedBeforeDeadline`) | A payment shown as seen, confirming or confirmed was covered in full by outputs detected before its deadline, whatever the interleaving of the handlers, the expiry job, failures and crashes. |
| `PaymentLifecycleProofs!FilterAgrees` (`Spec => []FilterAgreesWithView`) | The list filter selects exactly the rows shown with the wanted status. |
| `InvoiceStartProofs!TypeCorrect` (`Spec => []TypeOK`) | Every reachable state of the start route is well typed; a request makes at most MaxRetries attempts. |
| `InvoiceStartProofs!OneInvoicePerWindow` (`Spec => []OnePayablePerWindow`) | Requests of one window never leave a link with two payable invoices, for any number of requests, failures and restarts. |
| `InvoiceStartProofs!LocksAreReleased` (`Spec => []NoOrphanLock`) | An advisory lock is held only by a request inside its transaction, and by one per window. |
| `NotificationsProofs!TypeCorrect` (`Spec => []TypeOK`) | Attempts stay within MAX_ATTEMPTS, for any number of overlapping dispatches, any batch size and any number of failures. |
| `NotificationsProofs!RecordsAreTruthful` (`Spec => []RecordIsTruthful`) | A row is SENT only after a delivery and FAILED only after MAX_ATTEMPTS errors of its own, although dispatches overlap, write back stale counts, fail and crash. |
| `NotificationsProofs!PendingRowsAreSelectable` (`Spec => []PendingIsSelectable`) | No PENDING row is left with its attempts used up, where no dispatch would ever select it. |
| `AddressAllocationProofs!TypeCorrect` (`Spec => []TypeOK`) | Every reachable state of the allocation is well typed, a stored index is one that can be derived, for any number of versions, operations and overlapping calls. |
| `AddressAllocationProofs!OneAddressForOneOperation` (`Spec => []OneOperationOneAddress`) | Whatever is retried, lost, raced or burned, no operation is given two addresses or payments and no address or payment two operations. |
| `AddressAllocationProofs!BurnedBelongsToNobody` (`Spec => []BurnedIsNobodys`) | A burned index is never the address of a payment, although versions share keys. |
| `AddressAllocationProofs!WithdrawnStaysClosed` (`Spec => WithdrawnTakesNoMore`) | No step creates a payment for a version that is retired or not ready, however old the call's read. |
| `AddressAllocationProofs!AllocationIsALedger` (`Spec => Implements`) | The service with its authority, retries, races and crashes implements AllocationLedger: every step books, consumes or answers as the ledger allows, or changes nothing of it. |
| `LoginCodesProofs!TypeCorrect` (`Spec => []TypeOK`) | The login tables and handlers are well typed and no bucket counts beyond its limit, for any number of pages. |
| `LoginCodesProofs!OneSessionForACode` (`Spec => []OneSessionPerCode`) | A code opens one session at most, whichever handlers overlap, fail or restart, and only a mailed, consumed code opens one. |
| `LoginCodesProofs!AttemptsAreBounded` (`Spec => []GuessesAreBounded`) | The attempts at a code stay below the cap plus the number of pages, although the cap is checked on a row read earlier. |
| `LoginCodesProofs!DeadStayDead` (`Spec => DeadCodesStayDead`) | A used, replaced or withdrawn code is never good again, and no verification takes it or one that had expired when the call came in, whatever happened since the handler read it. |
| `ServicesProofs!LimiterBound` (`SpecLimiter => []TwiceTheLimitTakesAWindow`) | Twice the limit of admissions of a key takes at least a window, for every limit and window, every sequence of requests, collections and restarts. |
| `ServicesProofs!RateIsAsYoungAsItSays` (`SpecCache => []RateIsNoOlderThanItSays`) | A served rate is no older than its time says and that time is within the entry's life when the call began, for any number of overlapping calls. |
| `InvoiceStartProofs!AtMostTwoInvoices` (`Spec => []AtMostTwoPayable`) | A link and payer never have three payable invoices at once, for any number of overlapping requests. |
| `PaymentLifecycleProofs!NoWayBack` (`Spec => NoDemotion`) | No handler takes a payment back to an earlier stage, although each writes by a status it read before an await. |
| `PaymentLifecycleProofs!MailsAreTrue` (`Spec => []MailIsTruthful`) | The merchant is told only what happened and stays so: covered in time, confirmed as often as required, past the deadline. |
| `PaymentLifecycleProofs!LedgerIsConsistent` (`Spec => []LedgerConsistent`) | Received satoshis are the rows' sum and detected_at the first row's, whatever failed or was delivered twice. |
| `PaymentLifecycleProofs!CountsAreNotInflated` (`Spec => []NoOvercount`) | Without reorganisations no row counts more confirmations than its transaction has, but for one for each restart. |
| `PaymentLifecycleProofs!ConfirmedMeansBuried` (`Spec => []ConfirmedIsBuried`) | Without reorganisations and restarts a CONFIRMED payment is covered by outputs in time that are as deep as required. |
| `PaymentLifecycleProofs!CountsNeverGoDown` (`ASSUME OneOutputEach PROVE Spec => ConfirmationsNeverDecrease`) | Where no transaction pays one payment twice, the confirmations shown for a payment never go down. |
| `NotificationsProofs!EachIsMailedOnce` (`Spec => []MailedOnce`) | As long as dispatches do not overlap a mail is delivered once, and once more for each mishap. |
| `WalletOnboardingProofs!TypeCorrect` (`Spec => []TypeOK`) | The onboarding tables and calls are well typed and no challenge counts more attempts than the cap, for any number of merchants and calls. |
| `WalletOnboardingProofs!DeadStayDead` (`Spec => DeadChallengesMakeNothing`) | No step makes a wallet of a challenge that expired, ran out of attempts or was deleted after the call had read it. |
| `WalletOnboardingProofs!WalletsHaveTheirChallenge` (`Spec => []WalletsAreConfirmed`) | Each consumed challenge made its merchant's only wallet, with the validated descriptor and network and one audit event, whatever overlaps, is refused or fails; the configuration route shows that network, a wallet yet to be recovered and not ready, and no wallet to other merchants. |
| `ServicesProofs!PackagesSayWhatWasSigned` (`SpecRecovery => []PackagesAreAuthentic`) | A package that verifies says what was signed with the key it names, up to the order of the JSON keys, whatever was changed or swapped on its way, and a package nobody touched verifies: for any keys and any number of signatures and changes. |
| `ServicesProofs!FiguresAreRightButForMoves` (`SpecDashboard => []FiguresErrOnlyByMoves`) | The sum of the dashboard's figures, read by separate queries, differs from the number of payments in its span by at most the moves in between; without a move each figure is what the list shows. |
| `ServicesProofs!ListsAreComplete` (`SpecDashboard => []ListHasNoGaps`) | The pages of a list, put together, show no payment twice, the newest first, and without a filter leave none out, whatever appears and moves between two pages. |
| `DescriptorProofs!OnlyReceiveChains` (`MCSpec => []AcceptsReceiveChains`) | The tables of checks accept the receive chains of a network and nothing else; the lemmas say it of every material, the theorem of those the run judges. |


Assumptions: those on the constants, each a named ASSUME of its module: finitely many outputs, requests
and pages, amounts in Nat, a positive expected amount (`validateSats`), positive
limits, lives and windows, markers (`NoDeadline`, `NoBucket`, `NoEntry`) that are no
values. TLC evaluates them in the runs.

`PaidMeansFunded`. "Paid payments were covered before their deadline" is not
inductive: the handlers act on what they read earlier. `Funding` adds what their
locals promise. `LateRowsAreExtra`: as long as a payment has not
been covered, every row it has was detected before its deadline. `LookupHolds`: what a
rawtx call read as AWAITING_PAYMENT was read at a time before the deadline, so
the rows it is about to insert are in time. `SnapshotHolds`: what the block
handler holds as seen or confirming is covered already, and the rows it holds are
recorded. Rows are never removed and `at` and `expires` never change, so
what is covered stays covered (`FundedStays`), whatever the expiry job writes over
the status. TLC checked `Funding` before it was proved.

`TypeCorrect` (worker) rests on `Shape` (a block message implies a block, a commit has
a payment to commit to), on the finiteness of sums and on the existence of a least confirmation count in the completing
subset, which needs well-foundedness of the naturals.

`OneInvoicePerWindow`. `IInv` says that a lock is held by one request per window
(`Exclusion`), that a request between its query under the lock and its insertion
has no payable invoice of its window beside it (`RecheckHolds`), and that every
invoice's deadline is its request's time stamp plus the lock.

Notifications. `Carried` says what a dispatch's locals promise, however stale: the
rows it holds exist, their attempts as read are not more than the errors so far,
the row it is about to mark was delivered, the row it is about to count failed
once more than was read. It is needed because the record is written from those
locals and not from the table.

Address allocation. `IInv` says that the authority gives every index of a version
once (`IndexesAreDistinct`), that the index a call works at is its operation's for ever
and the payment it is about to return is its operation's and of its intent
(`CallHolds`), that a payment is at its operation's index and in the ledger
(`PaymentHolds`), that addresses are unique (`AllocationsHold`) and that payments
differ in operation and address. It is needed because a call acts on an index
and on rows it read several awaits ago. From it follow the three invariants, and,
per action, the step of `AllocationLedger` it maps to: `Consume` and `ConsumeUnheard`
to `Consume` (or a stutter, when the operation has its index), `PersistNew` to `Book`, `Return`
to `Answer`, everything else to a stutter.

Login codes. That a code opens one session needs that handlers which have
consumed a code and not yet stored the session differ in their codes
(`OpeningsDiffer`) and that the code is consumed and has no session (`Fits`). The bound on
guesses counts the handlers that found a wrong attempt and have yet to count it
as if they had counted it (`AttemptsFit`): each of them saw the counter below the cap. That a
dead code stays dead is proved per action: rows are kept and only ever consumed or
withdrawn (`RowsAreKept`), only `ConsumeCode` comes to open a session, and it rests on the
where clause of its update for the code being alive and on the handler's own read for
its not having expired.

Rate limiter. The bound is about any 2 * Limit consecutive admissions, which no bucket
knows. The invariant says there is a set of the admissions that opened a window
(`Opened`): between two of them are at most `Limit` admissions, a window lies between
their times, and the bucket at hand is the last one's. 2 * Limit admissions
reach over two openings, hence over a window.

Rate cache. Entries say the truth (`Entries`): their time is that of the request, before
the provider read its market, so a slow answer that overwrites a newer entry is
still not younger than it says; a call carries the entry it began with.

Worker, beyond `Funding`. Each theorem adds the promises it needs to `Core` (types,
`Shape`, `Funding` and `Stages`). TLC checked every one of them on small worlds before
it was proved.

- `NoWayBack`: `Stages` says what a status can have become since a handler read it. A
  payment the block handler read as seen and has yet to decide about is not
  confirmed; a payment the message handler read as awaiting still is, or was
  expired, and the block handler did not read it as seen.

- `MailsAreTrue`: `MailsHold` says of each mail, and of each handler about to send one,
  that its cause is recorded.
- `LedgerIsConsistent` is about sums and a minimum that the message handler writes from
  its lookup. `Order` says that the lookup is up to date when the handler
  commits (no other activity writes `btc_detected_at`) and that the message under way is no
  older than any row if it has rows to insert, so the first row stays the first.
- `CountsAreNotInflated`: `CopiesHold` (the rows being counted are as the block handler
  read them, or as it left them), `OneChain` (without reorganisations a block's identity is
  its height and a transaction is in one block), and `CountsHold`: a row counted `c` times
  is in a block `i` with `c + i` at most `CountedTo`, the tip examined last plus the
  restarts, one less while the row is still to be counted.
- `ConfirmedMeansBuried`: `Covers` says that the rows the block handler holds cover the
  amount in time when it decides, so the earliest that cover it are all in time;
  with `CountsHold` they are as deep as they are counted, and depth only grows.
- `CountsNeverGoDown`: `SeenFirst` (what the block handler has not read is later than what
  it has) makes its decision one about the completing subset of the table as it is
  now; `Backed` says that each row of that subset has the confirmations shown.
  The hypothesis `OneOutputEach`, no transaction pays one payment by two outputs, is
  needed: such rows have one `detected_at`, and `completingSubset.ts` and the query before it
  order by nothing else, so whichever comes first completes. If the two updates are
  separated by a failure the rows count differently and the figure can go down:
  TLC finds it in a world of one payment with two outputs in one transaction. In
  the two worlds of the runs no transaction pays a payment twice.

Start route. `LivesOneWindow` says that an invoice ends one lock's length after its request
came in, however long the request waited before it created it. It gives `AtMostTwoInvoices`:
a payable invoice's request came less than a window ago, so it is of the current window or
the one before, and `IInv` leaves each of them one.

`EachIsMailedOnce`. As long as dispatches have not overlapped there is one of them at most
(`Alone`), what it has yet to do is PENDING (`HoldsPending`), and a delivered mail's row is
SENT or about to be marked, unless one of the mishaps accounts for it (`MailsExplained`).

Wallet onboarding. `Types` says what a call carries. `Bound` says which wallet each consumed
challenge made and that every wallet has one, that the wallets are as many as the consumed
challenges and the audit events, and that they differ in merchant and descriptor; what the
configuration route shows follows from the one wallet there is. That only a live
challenge is consumed rests on the where clause of the update, not on what
`evaluateConfirm` read before.

Descriptor. The verdict is the first failing check of a table, a least number that
exists because the naturals are well-founded, so it is "OK" exactly if no check fails
(`FirstFailureIs`), and two tables one after the other pass if both do (`BothPass`).
That makes `DescriptorChecks` and `BareKeyChecks` conjunctions, which are
compared with `IsReceiveChain`. The lemmas `AcceptedIsReceiveChain` and
`ReceiveChainIsAccepted` are about any material with a script, origin and encoding of those there
are and an account in Nat; the theorem applies them to the materials TLC judges.

Recovery packages. A payload is a function of its properties (`IsPayload`), and the canonical
form replaces one of them, the order of the keys: two payloads with one canonical
form differ in that order only. `PackageInv` says that the signature at hand is of
something that was signed (`Sealed`), whatever was changed, added or swapped, and
that a package nobody touched is as it was signed (`Fresh`). That an ideal signature
is of one key and one message is an assumption of the model.

Figures. A figure that has yet to be read has a value already, the size of its class now.
The five classes are disjoint and cover the span, so the sum of the values is right when the
request begins; a query turns a value into a figure and leaves the sum; a payment that
moves takes one row from one class to another and shifts it by one at most (`Shifted`).

List. `Descending` lists a finite set of numbers by choosing an order; that it names
each member once at the place that its rank says follows from the rank being injective and from a pigeonhole argument
on cardinalities, without induction. A page begins after its cursor, which is the
last row shown, and rows are never removed nor added behind it (`ItemsHold`).

Only model-checked: the liveness properties, since the prover does not reason about
ENABLED and the temporal steps need it: `OpenPageCatchesUp`, `SubscribersAreNotGivenUp` and the
ones of the worker and the notifications. Every invariant and action property of a passing run
that is not one of those, and the refinement, is stated by a theorem. What a recursive
definition computes for every input is out of the prover's reach; no module declares a recursive
operator. `NoOrphanLock` is proved (`LocksAreReleased`) and not repeated by a run.

## 5. Plan

1. Done: the worker, the statuses, the start route, the notifications, the address
   allocation with its abstract ledger, the login, the onboarding, and the smaller parts.
2. Proofs. Done: the safety of the worker, the start route, the notifications, the
   allocation, the login, the onboarding, the descriptors, the limiter, the cache, recovery
   packages and the dashboard. Left: the safety of the payer page and of the
   supervision beside their liveness, should a run come to state any.

Not modelled: rendering and wording (React components, mail templates),
the RPC and SMTP clients, the raw transaction parser, the operator's scripts.
They are I/O or libraries; what the rest relies on of them appears as choices of
the environment. The routes for products and links insert and
read single rows; the node health route asks the node three questions and keeps
nothing; `btc.ts` converts amounts in decimal arithmetic; the origin check is a filter
without state. None of them meets another activity, which is what a model of
them could be about. The database's triggers on the non-custodial tables forbid
updates no code in the repository attempts.
