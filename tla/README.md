# A verification model of jsyxi-shipping

jsyxi-shipping is a Shopify shipping application: merchants import orders, route
each parcel to a courier, book it, track it, settle its cash and its freight,
and pay for the air waybills (AWBs) they use. It is one NestJS process image
that runs as API processes and as BullMQ workers around one PostgreSQL database
and one Redis. What makes it hard is not any one handler: it is that almost every
handler reads rows, waits for a courier or for Shopify, and then writes what it
decided, while another process does the same.

This directory holds TLA+ models of that machinery, the TLC configurations that
check them, and the proofs TLAPS checks. Paths below are relative to
`src/src/modules/` unless they start with `src/`.

## 1. The system

### 1.1 Components

The parts of the shipping core, the state each keeps, what changes it, whom it
talks to, what is hard about it, and what must hold of it.

**Booking** (`booking/booking.service.ts`, `booking-worker.service.ts`,
`booking-queue.ts`). State: the rows `shipment` (booking state, custody state,
AWB, collectible, `is_test`) and `booking_intent` (outcome of one attempt), the
BullMQ queue `booking`. Operations: `queueBooking` (one transaction: eligibility,
collectible claim, entitlement, snapshot, new intent, DRAFT -> QUEUED; then the
enqueue, after COMMIT); `processBooking` (claim in one transaction, the courier
call outside any transaction, settle in another, then debit and hooks after its
COMMIT); `resolveOutcomeUnknown` and `resolveOutcomeUnknownByOperator` (a member
settles an unknown outcome). Talks to: the courier adapters, the entitlement
ledger, rules, order derivation, the hooks of overage, GST, sync-back and
notifications. Hard: duplicate delivery, lost answers, crashes between the
commits, two siblings at once, members racing each other. Correct when: no two
live shipments share an AWB (INV-6), one shipment per order collects its cash
(INV-9), an unknown outcome is never retried before it is resolved (INV-5), a
confirmed live AWB is debited exactly once (INV-12), every attempt ends.

**Cancellation** (`booking/cancellation.service.ts`). State: custody state,
`awb_reversal` and the intent's outcome. Operations: the cancel request (commit
CANCEL_REQUESTED, call the courier, settle CANCELLED or CANCEL_REJECTED), the
unknown cancellation. Talks to: the ledger (reversal), order derivation, the
courier. Hard: the courier picks the parcel up while the answer is under way.
Correct when: nothing is reversed twice or after the pickup, and a parcel in
custody is never CANCELLED.

**Pickups and manifests** (`booking-ops/pickup.service.ts`). State: custody
PICKUP_PENDING -> PICKUP_SCHEDULED, manifest numbers per shop and day. Hard: the
number is a count taken under an advisory lock that COMMIT releases before the
document row exists. Correct when: the flip never overwrites a cancellation or a
scan, and a number names one manifest.

**Bulk booking and auto-ship** (`booking-ops/bulk-booking.service.ts`,
`auto-ship.service.ts`). State: `booking_batch` with per-order results, a Redis
count of concurrent batches, the daily cap. Operations: enqueue, process, retry,
sweep. Talks to: `queueBooking`. Hard: a batch redelivered half way, the
concurrency counter lost on a crash. Correct when: every order has exactly one
result, a terminal batch is consistent with its results.

**Entitlement ledger** (`platform/ledger/entitlement-ledger.service.ts`). State:
append-only DEBIT and REVERSAL entries under unique indexes. Correct when: at
most one of each per shipment, a reversal only with its debit.

**Courier framework** (`courier-framework/`). State: accounts with test and live
credentials and a health state, a Redis token bucket, a circuit breaker and a
concurrency count per account. Operations: `AdapterCallerService.call`,
`switchMode`, connect, disable. Hard: shared counters without a lock, half-open
probes. Correct when: quotes cannot starve bookings, the breaker lets one probe
through, health follows the calls.

**Courier adapters** (`delhivery/`, `shiprocket/`, `amazon_shipping/`,
`bluedart/`, `xpressbees/`, `dtdc/`, `shadowfax/`). State: tokens and, for
`createShipment`, a per-process memory of intents. Each translates one courier's
wire format. Correct when: an answer is classified as confirmed, failed or
unknown and never guessed.

**Ship modal and quote cache** (`booking/ship-modal.service.ts`,
`quote-cache.service.ts`). State: `quote` rows by parcel, account and weight band.
Operations: find a fresh quote, fetch and store one, show the candidates of a
shipment, freeze an estimate in the booking's transaction. Hard: the modal, the
rules and the booking ask through one cache with different clocks, while the
order is derived again. Correct when: a price that is frozen was given for the weight
that is frozen and still lives, and what a member was shown is frozen as long as
neither has changed.

**Rules** (`rules/`). State: rules, conditions, zones, traces. Operations:
evaluate in priority order, route a shipment, simulate. Correct when: routing is
deterministic, and ends in a service or in NEEDS_MANUAL_ASSIGNMENT with a reason.

**Rate engine** (`rate-engine/`). State: rate cards, zone maps. Pure pricing.
Correct when: the total is the sum of its parts to the paisa, slabs have no gap.

**Order derivation** (`order-derivation/`). State: `order_state`,
`cod_assignment_state`, payment mode, working values. Operations: derive on
ingest, recompute after a booking or a cancellation. Hard: the recompute reads
siblings and writes the order in separate statements. Correct when: the stored
state equals the one its shipments imply once all is quiet.

**Order sync** (`order-sync/`). State: orders, lines, allocations, draft
shipments. Operations: webhook upsert, hourly sweep, rebuild of allocations
while unbooked. Hard: webhooks late, duplicated and reordered. Correct when: the
newest payload wins and a booked shipment is never rebuilt.

**Tracking** (`tracking/`). State: raw events, normalized events, movement
state. Operations: ingest, normalize, reduce, poll, replay. Hard: scans late,
twice and out of order; the seams to NDR, COD, sync-back run after the update
commits. Correct when: a terminal movement state never regresses, one scan counts
once, every NDR has its case.

**NDR** (`ndr/`). State: cases, actions, buyer responses. Operations: the seams of
an undelivered attempt and of an ending, `submit` (read the case, ask the courier
outside any transaction, mark, record, move), the buyer's response, the automatic
reattempt. Hard: member, buyer, auto-reattempt, the next scan and the ending act
on one case, each in single statements under a version check. Correct when: a
case follows machine F, a closed one stays closed, an acknowledgement on the case
is one the courier gave, an ending closes the case.

**Sync-back** (`sync-back/`). State: the outbox with attempts and leases, a DLQ.
Hard: a worker dies with a row in flight; a write is repeated. Correct when: every
row ends SUCCEEDED or DEAD, nothing for a test shipment, replays are idempotent.

**COD reconciliation** (`recon-cod/`) and **freight reconciliation**
(`recon-freight/`). State: expectations, remittance rows and allocations;
invoice batches, rows, disputes. Correct when: allocations never exceed what was
paid, a state is what the amounts imply, a batch resolves only with its rows.

**Billing** (`billing/`). State: subscriptions, usage records, credits, the
account state. Hard: overage charging across a crash and a cancellation. Correct
when: one charge per overage AWB, a credit consumed once.

**GST invoices** (`gst/`). State: invoices and the number sequence. Correct when:
numbers are gapless and the tax is the sum of its lines.

**Labels and reports** (`labels/`, `reports/`). State: `document`, `document_job`,
`report_job`, `report_schedule`, objects in the store. Hard: bytes, row, queue and
mail are four places and a process may die between any two. Correct when: a link
that was sent works, a job that succeeded has its document, an occurrence of a
schedule is claimed once.

**Notifications** (`notifications/`). State: `message_log`, suppressions, throttle
and digest keys in Redis, COD confirmations, the links buyers get. Hard: the row,
the queue and the mail server disagree after a death; a buyer answers while the
sweep settles. Correct when: an alert comes once in a cycle, nothing goes to an
address that bounced, a confirmation is settled once, a used link is dead.

**Shopify and intake** (`shopify/`). State: shops, nonces, entry tokens, webhook
subscriptions, `webhook_inbox`. Hard: the install is a series of statements that
may stop anywhere and be repeated; a webhook is delivered again while its first
copy runs. Correct when: an install ends in one session, a webhook that succeeded
ran its handler once.

**Team, native auth, admin** (`team/`, `native-auth/`, `admin/`). State: members,
roles, access requests, sessions in the database and in Redis, invites, magic
links, credentials with lockout, administrators with their support contexts.
Hard: a revocation while a login is under way, parallel guesses. Correct when: one
Owner who is a staff user of the shop, access taken away reaches every session,
a token is spent once.

**Support** (`support/`): tickets, announcements. **Track page** (`track-page/`):
public look-ups with throttles. **Dashboard** (`dashboard/`): hourly figures.
**Health and maintenance** (`health/`, `maintenance/`): redaction, purge of tests,
retention and partitions. **Settings and API keys** (`platform/`, and the settings
services of the other components): versioned rows edited in forms.

**Order read model, user interface, operations, scripts, deployment**: no state that
a property of the system depends on; not modelled.

### 1.2 How they interact

    Shopify --webhooks--> order sync --> order derivation --> (shipment DRAFT)
                                                                  |
       rules, rate engine --> queueBooking --> queue "booking" --> worker --> courier
                                  ^                                  |
                    bulk, auto-ship                    ledger, overage, GST, sync-back
                                                                  |
       courier scans --> tracking ingest --> movement reducer --> NDR, COD, sync-back
                                                  |
               cancellation, pickups <--- custody state

The shared state is the `shipment` row. Six writers change it (booking worker,
resolvers, cancellation, pickup, tracking, order sync) and each writes with a
guard on the state it expects; the guards, not locks held across a wait, are what
keeps the machine right. That is why the models keep every guard, every COMMIT
and every wait as it is in the code.

## 2. Plan

In order of importance; a step is a module or several, checked in an instance for
TLC. Components that share no state share an instance (section 4).

| # | modules | models | state |
|---|---------|--------|-------|
| 1 | `Booking` | queueing, worker, resolvers, debit, siblings | checked, proved |
| 2 | `ShipmentMachines`, `Transit` | cancellation, pickups, scans; implements the machines of the row | checked, proved |
| 3 | `Ndr`, `NdrCases` | undelivered parcels; implements machine F | checked, proved |
| 4 | `OrderSync` | upsert, allocation, evaluation and derivation of an order | checked, proved |
| 5 | `RuleEngine`, `RuleBook` | routing as operators; rules as rows | checked, proved |
| 6 | `GstInvoices` | invoices and their numbers | checked, proved |
| 7 | `Billing`, `CodRecon`, `FreightRecon` | money | checked, proved |
| 8 | `FreightRecon` (its prices), `MCMoney`, `Ship` | prices, from the card to the booking and the bill | checked, proved |
| 9 | `Transport`, `Couriers`, `Catalogue`, `BulkBooking` | between a shipment and its courier | checked, proved |
| 10 | `SyncBack`, `Intake` | what goes to Shopify and comes from it | checked, proved |
| 11 | `Access`, `NativeAuth`, `Console`, `Settings` | people, their access, their forms | checked, proved |
| 12 | `Notices`, `Announcements`, `Helpdesk`, `CodConfirm`, `BuyerLinks`, `TrackLookup` | messages | checked, proved |
| 13 | `Reports`, `Labels`, `Rollup`, `Upkeep`, `Erasure` | papers, figures, keeping and erasing | checked, proved |

"Proved" means that every invariant and every action property a run checks of the
module is a theorem, for any values of the constants; liveness is checked only
(section 5.9). What would be worth adding next: the property of `Billing` that every
reversed charge is credited in the end, which the code does not give (section 6), and
the front ends' use of the versions the forms return.

## 3. The models

In every module an action is one database statement or transaction, one external
call, or one death, so TLC interleaves exactly where the code lets go. A process
keeps in its record what the code keeps in local variables, and acts on it later
even when the rows have moved. Names that begin with `Max` and the records
`bounds`, `budget` or `faults` are bounds, not code. An operator that no
definition uses and that stands before one like it, mostly named `...Bug`, is a
plausible mistake in the code: it serves to see that the property would notice.

### 3.1 `Booking`: from the member's "book" to a debited AWB

`Booking` is the booking machine of the sibling shipments of one order. Its
parameters are the sets of shipments, workers, resolving members and AWBs, the
bounds, and the settings of the order and of the plan.

| model | code |
|-------|------|
| `booking`, `custody`, `collectible`, `awb`, `isTest` | columns of `shipment` (`src/migrations/0003`) |
| `attempts`, `outcome` | the `booking_intent` rows of a shipment: how many, the outcome of each |
| `ledger` | `awb_entitlement_ledger` |
| `subscribed`, `cycle`, `mode` | subscription state and cycle; `courier_account.mode` |
| `toEnqueue` | intents committed by `queueBooking` and not yet enqueued: the API process is between `COMMIT` and `enqueueBooking` |
| `job` | the BullMQ jobs: state, holder, failures, stalls |
| `worker[w]` | the program counter of `processBooking` and the answer it holds in memory |
| `cache[w]` | the adapter's `createsByIntent` of that process |
| `member[m]` | a resolving request between its read, the lookup and its settle |
| `parcels`, `wire` | what the courier has made, in live or in test; requests still under way, each to the mode its account had when it left |
| `calls` | history: create requests sent per intent |
| `budget` | how many faults of each kind may still happen (a bound, not code) |

Every action is one database transaction, one external call or one crash, so TLC
interleaves exactly where the code lets go: between `queueBooking`'s COMMIT and
its enqueue (`Enqueue`, `LoseEnqueue`), between the claim and the call (`Claim`,
`Create*`), between the call and the settle (`SettleConfirmed`, `SettleOther`),
between the settle and the debit (`WorkerDebits`), between the debit and the
completion of the job (`Complete`), and between a resolver's unlocked read, its
lookup and its settle (`LoadOutcomeUnknown`, `LookupByReference`,
`OperatorDecides`, `ResolveConfirmed`, `ResolveFailed`, `MemberDebits`).

`CollectibleGuard` is the trigger `enforce_single_collectible`: it raises on any
update of a shipment with a collectible while a sibling with a live AWB collects,
so every UPDATE of the row carries it as a guard, and where the code does not
catch the error the job throws. The trigger locks the order row, so two confirms
of siblings cannot slip past each other.

A create the courier answers with a 5xx, by a broken connection or by no JSON is told
FAILED (`delhivery.adapter.ts:171`), so `CreateRejected` may leave a parcel behind,
within the budget `falseRefusal`. `LookupByReference` asks with the mode the account
has at that moment: `switchMode` is not guarded by attempts in doubt, and a parcel of
the other mode is not found.

The queue is BullMQ as `booking-queue.ts` configures it: a job id per intent, a
number of attempts, a stalled job delivered again up to `MaxStalls` times, even
while its first worker still runs ("stall").

The fault budgets and the symmetry of the runs are at the end of the module, as
`Small instances`; so are those of `Transit`.

Left out: the quote, the rules and the snapshot as data (routing is `RouteToManual`
or not), INV-7's conditions (an early return that changes nothing), the hooks
after the debit (their own components), formatting, audit rows.

### 3.2 `BookingProofs`

The theorems about `Booking` and the lemmas they rest on (section 5).

### 3.3 `ShipmentMachines` and `Transit`: a booked parcel until its last scan

`ShipmentMachines` has no process in it: four variables (booking, custody and
movement state of a shipment, the shipments whose entitlement was reversed) and
one action per legal change. A terminal movement state and the custody states
IN_CUSTODY and CANCELLED have no way out; a reversal needs a settled cancellation.

`Transit` is the code. It starts where `Booking` ends, with CONFIRMED rows.

| model | code |
|-------|------|
| `booking`, `custody`, `movement`, `isTest` | columns of `shipment` |
| `subscribed`, `enabled`, `reversed` | an active subscription; `courier_account.disabled_at` is NULL; REVERSAL rows of `awb_entitlement_ledger` |
| `manifests` | the manifest documents of the day, by number |
| `canceller[c]` | a request in `requestCancellation`: its place and the custody state it read |
| `scheduler[p]` | a request in `schedulePickups`: the group it read, its manifest number |
| `raw`, `stored`, `flagged` | `tracking_event_raw.parse_result`, the `tracking_event` rows, events for review |
| `toEnqueue`, `job` | raw rows committed and not yet enqueued; the jobs of `tracking-ingest` |
| `tracker[t]` | a run of `processRawEvent`, in a worker or in a member's replay: its place, the row it has read, the seams it has still to call, how often it has read |
| `fresh` | the trackers whose read is still the row's `version`: every UPDATE of the row removes its readers |
| `parcel`, `scan`, `tells` | at the courier: where the parcel is, its reports in order, and the scan each tells of |
| `accepted`, `exhausted`, `fired` | history: reports processed to the end; given up after the last version conflict; seams called for a report |
| `budget` | how many faults of each kind may still happen (a bound) |

Cancellation is `RequestCancellation` (guard, CANCEL_REQUESTED, COMMIT),
`CourierAnswersCancel` (the call, outside a transaction), `SettleCancelled` or
`SettleRejected` (locked, and guarded by CANCEL_REQUESTED) and
`ReverseEntitlement` (after the COMMIT). Pickups are `SelectEligible`,
`CourierAnswersPickup`, `MarkScheduled` (one guarded UPDATE),
`AllocateManifestNumber` (the count, whose advisory lock its COMMIT releases) and
`StoreManifest`. A scan goes through `Webhook` or `Poll`, `EnqueueRawEvent`,
`Deliver`, `RecordEvent` (one transaction under the lock of the dedupe key),
`ReadShipment`, `WriteShipment` (conditional on the version) or
`VersionMismatch`, `CallSeam` for each seam in the order of the code, and `Accept`.
A crash may hit each of these processes between any two steps; a seam may throw.
What has a dedupe key of its own is a report, not a scan: without an event id of the
courier the key holds the time, the place and the reason, and a missing time is that
of the ingest (`tracking.util.ts:118`), so `Rekey` tells a scan again as another
report. `ToggleAccount` switches the account off, which ends its polling
(`tracking-polling.service.ts:96`), and on again.

The courier is free to skip a pickup scan, to send scans in an order the ingest
turns around, to reject a cancellation of a parcel it has picked up or not, and,
within the budget, to pick up a parcel it has cancelled or to take an ending back.

Left out: the collectible that a VOID row gives back (it is `Carrier` in
`Booking`), quarantined and badly signed payloads (they never become a raw row
that is enqueued), test markers, the poll's throttling and batching, a second raw
row for a scan delivered twice (a DUPLICATE that changes nothing), the recompute
of the order and the overage credit after a cancellation (their components).

### 3.4 `TransitProofs`

The theorems about `Transit` and the lemmas they rest on (section 5).

### 3.5 `NdrCases` and `Ndr`: an undelivered parcel

`NdrCases` is machine F over the case rows: open, advance, count an attempt,
close once the shipment has ended. `Ndr` is the code, and every statement of it is
a step, because none of them shares a transaction with another.

| model | code |
|-------|------|
| `case` | the `ndr_case` rows in the order of `created_at`, with state, count and version |
| `actions` | the `ndr_action` rows (rows that say the same are one) |
| `response` | the `ndr_buyer_response` row of a request that is a buyer's |
| `attempted` | the UNDELIVERED_ATTEMPT events of a shipment that reached the seam |
| `proc[p]` | one call: its place, the case, the state and version it has read, its tries |

The calls are the seam of an attempt (`BeginAttempt`, `FindLatest`, then
`OpenCase`, `CountAttempt` or the move to OPEN; `AutoReattempt` goes on as a
submit), the seam of an ending (`EndShipment`, `FindOpen`, the move to CLOSED), and
a submit (`SubmitRequest` or `RespondNdr`, `CourierAnswers`, the move to
ACTION_SUBMITTED, `PersistAction`, the move to where the answer leads,
`LinkResponse`). All moves are `transition`: `AlreadyThere` (idempotent),
`NotListed` (the ConflictException), `MoveCase` (the conditional UPDATE) or
`VersionMismatch` (read again, up to `MaxVersionRetries` tries). Whether the
automatic reattempt is on is chosen at each opening, as settings may change.

Left out: the reason codes, the warning time, tokens and their throttle, the
audit, refusals that change nothing (no AWB, no capability), and `processPending`,
which nothing calls. `NdrProofs` has the theorems (section 5.3).

### 3.6 Orders, rules, invoices: `OrderSync`, `RuleEngine`, `RuleBook`, `GstInvoices`

`OrderSync` is one Shopify order. An ingest (webhook or hourly sweep) is a process
with its four transactions and the read of the fulfillment orders between them:
upsert, rebuild of allocations, evaluation, derivation; the derivation writes what it
derived from the drafts it read, and the DELETE of the lines of excluded drafts
(`DropLines`) stands alone before the rest. Shopify edits and cancels
the order, bookings take the drafts, the buyer's confirmation expires, a GDPR
request redacts, all between any two steps. The pure parts are operators at the
head of the module: dead weight, package profile, payment mode, eligibility, COD
assignment, shipping status.

`RuleEngine` is `evaluate.ts` as operators: windows, groups (AND within, OR across),
operands that are missing, the action of the first rule that matches, elimination
of its candidates with the reasons, the orders CHEAPEST and FASTEST with their ties,
the default chain. A state is an input, a step decides it. `RuleBook` is the same
rules as rows: members save, toggle, move and delete under versions while an
evaluation reads one table after another, each with a snapshot of its own.

`GstInvoices` is the life of an order's invoices: creation by the hook of the
first confirmed booking, completion, issue (a number from an upsert on the
sequence, in the transaction of the issue), void, credit note. A sequence is of a
seller's GSTIN, a year and a series, and a shop may have changed its GSTIN between two
invoices (`Sellers`). `schema` says
whether migration 0013 has run. `OrdersProofs` has the theorems about all four
(section 5.4).

### 3.7 Money: `Billing`, `CodRecon`, `FreightRecon`

`Billing` has the shop's account state and subscriptions, the charges Shopify
holds, the ledger, the usage records and the credits held against them. A task is a
request, a webhook, a booking or a sweep; Shopify may answer ambiguously.
`CodRecon` has expectations, remittance files with their rows, the workers that
allocate them, the tracking seams and the sweep of the overdue; a recompute reads
sums in one statement and writes the state in another. `FreightRecon` has batches,
rows, disputes and the residual, members' requests that die between a row's UPDATE
and `maybeResolveBatch` (`TaskDies`), and at its head, as operators, the formulas F-1 to
F-12 in integers (grams, paise, per cent), with the rounding of the code, and the
matching of the lines of an invoice against snapshots. `MCMoney` follows a card
through its versions to the snapshot and the bill. `MoneyProofs` has the theorems
(section 5.5).

### 3.8 Couriers: `Transport`, `Couriers`, `Catalogue`, `BulkBooking`

`Transport` is one account and every call through it: the registry's cached
adapter by mode and version, the token bucket with its reserve, the breaker with
its half-open probe, the health machine, credentials replaced, mode switched, the
account disabled, and the courier's webhook. `Couriers` has the seven adapters as
what they are to their caller: the requests a method sends in order, how the
answers end it, tokens shared through Redis, and `createsByIntent`. The courier
answers, times out after or before it acted, refuses, or sends what cannot be read:
a broken connection, a 5xx and no JSON (`Unread`) leave open whether it acted.
`Catalogue` is the courier master under the seeds of each deploy, administrators and
bookings that seal a version; the status map is a function from raw texts to events,
and an administrator's upsert overwrites. `BulkBooking` is batches, slots, retries,
the auto-ship sweep, and a job that is redelivered while a run that lost its lock goes
on: both write the row, with no guard.

### 3.9 Shopify: `SyncBack`, `Intake`

`SyncBack` is the outbox: rows claimed in batches, executed under a cost budget,
retried, given up as DEAD with a dead letter, replayed (the read, the row's UPDATE and
the letter's are three statements, the last whatever the second found). `Intake` is the install
callback statement by statement (nonce, shop row, seeds, trial, subscriptions,
entry token) and the inbox every webhook goes through.

### 3.10 People: `Access`, `NativeAuth`, `Console`, `Settings`

`Access` has members, roles, requests, the Owner's transfer and claim, entry tokens
and sessions, each a row and a Redis copy that is swept apart. `NativeAuth` is one
native member: invites, TOTP, login with lockout, magic links, resets. `Console` is
the staff: enrolment, login, sessions, a support context, dead letters replayed.
`Settings` has the forms: a table says for each service which columns its form
names, whether it carries a version, whether it writes back what it read, and
whether reading makes the row; and the API keys with rotation.

### 3.11 Messages and links

`Notices` (alerts, channels, throttle, digest, bounces), `Announcements`,
`Helpdesk` (ticket numbers under the shop's lock, replies that reopen, versions),
`CodConfirm` (the ingest asks, the buyer answers, the sweep books or holds,
auto-ship waits), `BuyerLinks` (minting, answering, revocation by answer,
uninstallation or redaction), `TrackLookup` (throttles in Redis, CAPTCHA from the
log).

### 3.12 Papers, figures, keeping, erasing, prices

`Reports` (schedules claimed by moving `next_run_at`, jobs, stalled workers,
links that expire), `Labels` (single and bulk, bytes before the row), `Rollup` (the
hourly sweep, query after query while parcels move, restatement), `Upkeep`
(retention by partition and by row: rows chosen, objects erased one by one, rows
cleared, while tickets are reopened and documents redacted), `Erasure` (the redaction's statements and the
purge of tests against ingest, booking and printing), `Ship` (the quote cache
between modal and booking; `now()` inside a transaction is its beginning).

## 4. The runs

A run may hold several components that share no state: its instance declares the
variables of all of them and a variable `focus`, chosen at the start, that says
which one moves (`MCOrders`, `MCMoney`, `MCConnections`, `MCPlatform`). The behaviours
are those of the components one at a time, no more and no less than with a run for
each; a property of such a run is a conjunction of clauses, each about the
component in focus. The instances take the sets and the bounds of their components as
constants of their own, so that what is proved of them is proved for every value. In
`MCPlatform` the components even use the same nine variables,
in the order of their declarations, and a blank for those one does not have.

| run | instance | question |
|-----|----------|----------|
| `booking_siblings` | two COD siblings, two workers, one resolver, one attempt each; a stalled job, a recycled AWB, a mistaken operator, an API process that dies, a late answer | Do AWBs stay unique, does one sibling collect, is only a booked live shipment debited, can every unknown outcome be taken up, is a confirmed booking final? |
| `booking_crash` | one shipment, two attempts, two workers, one resolver; worker crashes, back-pressure, a refusal of what was made, a mode switch, a subscription that ends or renews | Does every settle end its own intent, does a create leave only for an attempt in flight, is a parcel forgotten before one of the three faults that hide it, is a queued attempt eventually settled? |
| `booking_v_siblings` | two COD siblings, no fault | "the first booked claims the collectible" (`booking.service.ts:45`): both claim it, and the second is never settled |
| `transit_race` | one shipment, two cancellations, a pickup request, two trackers, two scans of a pickup, a delivery or a courier's cancellation; each process may die, a seam may fail, a driver may not know of the cancellation, a subscription may lapse | Do the rows only take legal steps (`ImplementsMachines`), does a cancellation belong to one request, is a pickup that meets one surfaced, are the scans left undone no more than the deaths and the seams that failed? |
| `transit_scans` | one shipment, a worker, a replaying member, two reports out of five statuses; a stalled job, a correction, a scan told under a second key, an account that is switched off and on | Has each report its consequences once and an ending once under all its keys, does one ending win, does polling alone bring the ending once the account stays on? |
| `ndr_cases` | one shipment, two attempts and their automatic reattempts, one member's or buyer's submit, the ending; one of them may die; the code's three tries | Do cases follow machine F (`ImplementsCases`), is no attempt counted twice (`AttemptsCountedOnce`), is every acknowledgement on record (`AcksOnRecord`), does nobody leave a case in ACTION_SUBMITTED (`SubmittedIsAttended`), does the ending close the case? |
| `order_sync` | two ingests of an order that is edited twice, one death, two shipments; 41 rule books over two services and three chains; two members and an evaluation on a rule; two shipments of an order with three invoices | Is no fulfillment order in two shipments and every draft judged; does the first rule that speaks decide; does no write go over another unseen; have the invoice numbers no gap? |
| `order_v_cancel` | the same order | "so an out-of-order cancel still lands the row" (`order-webhook.handlers.ts:64`): the cancellation fails in the upsert before it |
| `orders_v_gst` | the same invoices | "created at first outbound booking" (`src/spec.md:1104`): its INSERT fails once migration 0013 has run |
| `money_books` | a shop with two parcels, no allowance and a cap of one, that changes its plan while it is charged, with three acts of the plan's or a booking's (`MaxActivity`); two remittance files and a death of a worker's or a seam's run; two freight files, re-uploaded, and members' requests that die anywhere; two tariffs over 24 parcels | Is no credit free, is a return final, is a resolved batch settled and a settled one resolved unless its request died, is a bill for what was quoted passed? |
| `platform_access` | the eighteen components of 3.9 to 3.12, each with two requests or workers in flight and one death, lost answer or edit of each kind | Is access taken away for good, a token spent once, one fulfillment made, an alert sent once, a mailed link good, nothing erased early but under a reopened ticket, the price shown the price frozen while weight and quote last, no form over what it did not show? |
| `connections` | two processes on one intent for each of seven couriers; two requests on an account with a bucket of one; two tasks on the catalogue with three rows; two orders in two batches, a job with two runs alive | Is what an adapter answers true where it could read the courier, do calls obey the merchant, does a sealed version stand, is nothing queued twice? |

**Bounds.** Bounds are small sets and counters, and each fault may happen once: a
`Budget` or a `MaxFaults` names what a run allows. A bug of these machines needs at
most two processes that hold what they have read of the same row, or two rows
that meet under one unique index, and every run has those; what they miss is a
bug that takes two faults of one kind or three writers. In `transit_race` a tracker
reads the row once (`MaxVersionRetries` 1), so that the conflict of the last read
happens with two writers; `transit_scans` has the code's five. Two scans meet in
every order the statuses allow, and a third would only repeat what one of them
does to a row that has ended or has not. In `ndr_cases` two attempts are enough to
open two cases or to reopen and count one, and three submits (two automatic, one
requested) to lose the version race as often as the code tries. The months of
`Upkeep` are two days, its batches two rows, so that partitions straddle the horizon
and a batch is left over; the run's connection owns the partitions, and what
happens when it does not is in section 6. The thresholds of the breaker, the
lockout, the throttle and the CAPTCHA are 2 to 4 where the code has tens: what is
tested is the step across them. Horizons, windows and TTLs are one or two units of
a clock that ticks. The invoices of `order_sync` have one seller: the numbers of two
are rows that no statement joins, and with two the component alone has over two
million states (checked apart: no error). A dead letter is replayed twice at most
(`MaxReplays`), by two members that hold it at once; a scan is told under a second key
once. In `connections` a quote, a label, a pickup and an NDR action are called while
no other call of the account is served (`Alone`): what they do to the token, a
tracking does too, and that runs beside every call; the theorem is for any `Alone`,
the empty one included. In `money_books` a process dies only before the one stalled
attempt (`MaxRestarts` bounds both).

`NoOrphanParcel` holds until a worker dies, a parcel is told FAILED that was made, or
the account's mode is switched. After a death the answer it held is gone and the
second create is another parcel; a FAILED attempt is never looked up; and a resolver
that asks in the other mode is told there is no parcel, and settles FAILED. `NoCreateWhileUnknown` is checked without
stalls: with a stalled job two workers hold the same intent, and the slower one's
request leaves after the faster one has settled; the code has no fence against
that. `CasesClose` claims what is left when attempts of one shipment overlap (two
cases) or outlive the ending (a case after the close): then nothing, and section 6
says so. `OnlyWhatWasAsked` leaves out the NDR settings (section 6).

**Fairness.** `FairSpec` of `Booking` is weak fairness of `Enqueue` (the API process
goes on after its COMMIT unless it dies), of the delivery of waiting jobs and the
recovery of stalled ones (BullMQ), and of the next step of a worker that runs a
job. In `Transit` it is weak fairness of `Poll` (a repeatable BullMQ job),
`EnqueueRawEvent`, the delivery and the recovery of jobs, and of the next step of a
running `processRawEvent`; webhooks have none, so `EndingsArrive` rests on polling, and polling on an
account that is switched on: its hypothesis is that in the end it stays so.
In `Ndr` it is weak fairness of the steps of an ending's seam and of nothing else:
an attempt's seam or a submit may stall anywhere, and `CasesClose` still holds where
it claims to. Members, couriers, faults and the account have none. The other
modules state no liveness: what should eventually happen there mostly rests on
somebody calling again (section 6 says where nobody does). Deadlock is not checked:
a shop whose attempts are used up, whose parcels have ended or whose requests are
answered stops.

## 5. The proofs

Each module of proofs holds for any sets of processes and rows and any bounds,
from the assumptions its component states of its constants; TLC evaluates those
on every run.

| module | of | assumptions |
|--------|----|-------------|
| `BookingProofs` | `Booking` | `BoundsAssumption`: the bounds are numbers, a job has an attempt; `NullAssumption`: NULL is not an AWB, nobody is not a worker |
| `TransitProofs` | `Transit`, `ShipmentMachines` | `ParcelAssumption`: the statuses are the courier's or UNMAPPED, the bounds are numbers, a job has an attempt, a row is read once; `ProcessAssumption`: a worker is not a replaying member |
| `NdrProofs` | `Ndr`, `NdrCases` | `ProcessAssumption`: a seam, a request and an ending are different calls; `BoundAssumption`: a transition is tried once at least |
| `OrdersProofs` | `OrderSync`, `RuleEngine`, `RuleBook`, `GstInvoices` in `MCOrders` | `OrdersAssumption`: an order has finitely many fulfillment orders, nobody is not an ingest, the slots of the invoices are finitely many and 0 is none; `EngineAssumption`: a rule has one of the four actions and well-formed conditions, a chain names services, prices and dates are numbers |
| `MoneyProofs` | `Billing`, `CodRecon`, `FreightRecon` and the quotes in `MCMoney` | `MoneyAssumption`: the lines of an invoice file are a sequence; `PricesAssumption`: tariffs, weights and tolerances are numbers, a surcharge has one of the bases |
| `ConnectionsProofs` | `Transport`, `BulkBooking`, `Catalogue`, `Couriers` in `MCConnections` | `ConnectionsAssumption`: a process runs in an app, there are finitely many batches and 0 is none, replacements and days are counted |
| `PlatformProofs` | `Ship`, `Upkeep`, `Erasure`, `SyncBack`, `Intake`, `Reports`, `Labels`, `Access`, `NativeAuth`, `Console`, `Settings` in `MCPlatform` | `ShipAssumption`: a quote lives for some time; `UpkeepAssumption`: a month has days, a table a horizon; `ErasureAssumption`, `PapersAssumption`: deaths, jobs and documents are counted, a week has days, the bulk document is of no shipment; `FormAssumption`: nobody is neither a key nor a member |
| `MessagesProofs` | `Notices`, `Announcements`, `Helpdesk`, `CodConfirm`, `BuyerLinks`, `TrackLookup`, `Rollup` in `MCPlatform` | `MessagesAssumption`: there are finitely many requests and parcels, messages and restated hours are counted, some failures are let pass |

Hardly a property below is inductive alone; what follows says which invariant is,
and why it must say more than the property. Where the invariant speaks of the
component's variables it stands in the component's module, behind the property, or in
`MCMoney`; the others stand in the module of proofs. The provers cannot instantiate the
library's induction schemes, so what needs an induction over a number, a set or a
sequence is proved by its least counterexample (`HasLeast`, `LeastExists`: a set of
numbers that is not empty has a least member, from the well-foundedness of `<`).

### 5.1 `BookingProofs`

| theorem | states |
|---------|--------|
| `TypeCorrect` | `Spec => []TypeOK` |
| `AwbsUnique` | `Spec => []AwbUnique`, INV-6 |
| `CarrierUnique` | `Spec => []OneCarrier`, INV-9 |
| `DebitsOnlyBooked` | `Spec => []DebitOnlyBooked`, INV-5, INV-12 |
| `ConfirmedStays` | `Spec => ConfirmedIsStable`, INV-17, INV-20 |
| `UnknownsResolvable` | `Spec => []UnknownIsResolvable` |
| `AttemptsSettleTheirOwn` | `OneResolver => (Spec => [](NoStallYet => IntentsSettled))` |
| `NoCreateAfterTheAnswer` | `OneResolver /\ Budget["stall"] = 0 => (Spec => NoCreateWhileUnknown)` |
| `ParcelsKeptInSight` | `OneResolver => (Spec => [](Undisturbed => NoOrphanParcel))` |

The inductive invariant of the first four is `SafetyInv`: types; an AWB sits only
on a booked row (`AwbOnlyBooked`), without which `OneCarrier` does not survive a new
claim of the collectible; a process at its debit belongs to a booked shipment
(`DebitorsBooked`), without which a debit could follow a row that was taken back;
and the three properties. The proof goes in two stages. The `...Effect` lemmas
show that each action changes the shipment rows, the processes at a debit and the
ledger only in one of a few ways (`RowEffect`, `ProcessEffect`, `LedgerEffect`); the
`...Step` lemmas show that these effects preserve each conjunct, so an action is
opened once and not once for each property.

The hypotheses of the last three are the code's own limits, not the prover's. Two
members who resolve a shipment at once settle each other's attempt
(`booking-worker.service.ts:663`), hence `OneResolver`; a job whose lock was lost is
run by two workers and nothing fences the slower, hence `NoStallYet`, which only
asks that no stall has happened so far. `AttemptInv` adds to `IntentsSettled` that
a worker holds the job it works on (`HoldersOK`) and that whoever is about to settle
has an attempt in flight, or in doubt for a resolver (`ActorsOK`). `Undisturbed`
says that so far no job was delivered twice at once, no answer was late, no AWB
recycled and no operator mistaken; `NoOrphanParcel` itself adds that no worker has died,
no parcel was told FAILED that was made, and no account switched its mode
(`ForgettingKinds`), the ways in which the code forgets a parcel (section 6). `ParcelInv` relates the courier's parcels to
rows, answers in memory and caches: each parcel is traced to its row, to a worker
about to store it, to an attempt in doubt, or to a row the collectible trigger
refuses. The last case is one the invariant cannot do without: a refused sibling
stays SUBMITTED for good, and each delivery of its job may make another parcel.

### 5.2 `TransitProofs`

| theorem | states |
|---------|--------|
| `TypeCorrect` | `Spec => []TypeOK` |
| `SeamsOnce` | `Spec => []SeamsFireOnce` |
| `CancellerAlone` | `Spec => []SoleCanceller` |
| `RowsFollowMachines` | `Spec => ImplementsMachines`, the refinement of `ShipmentMachines` |
| `ParcelEndsOnce` | `Spec => []OneEnding` |
| `NothingDropped` | `Spec => []ScansTakeEffect`, INV-20 as far as the code goes |
| `PickupsSurface` | `Spec => []PickupSurfaced`, A1-04 |

Its inductive invariant `SafetyInv` has three parts. `TypeInv`: types, and that
whatever is enqueued or processed is a scan the courier made, past the record a
mapped one (without it `EventToMovement` would be applied outside its domain);
`ScansInOrder` is what keeps the courier from overwriting a scan. `RowInv`: a
tracker whose version still matches has read the row as it is (`ReadsCurrent`:
the optimistic lock at work, and the reason why a carrier event is a step of the
machines), and a row waits for each cancellation that is asked or settled unless
a scan has taken custody (`CancellationsAwaited`). `SeamInv`: a recorded event has
one tracker that reduces it, and the seams it has called followed by those it has
to call never repeat. `TrackerMove`, `RequestsQuiet`, `RowsUntouched` and
`SeamsUntouched` say what an action leaves alone, so that each action is opened
only where it matters.

On top of it, `EndingInv`: a scan that calls the closing seam, or still has to,
has ended the movement of its row, and there is one such report; the machines keep an
ended movement ended, so a second report, of another ending or of the same one under
another key, finds it so, and `SeamsFireOnce` follows. `PickupInv`: a parcel whose
cancellation the courier confirmed was never picked up, and a tracker past its
UPDATE has surfaced its pickup. `NothingDropped` holds of every behaviour: the recorded
events that nobody reduces any more are no more than the deaths and the failing seams
so far, next to those that lost the last version race (`exhausted`). Its proof says of
each step that it leaves the set of such events alone, or adds one and is a death or a
failing seam (`StepLeaves`, `BudgetFalls`). Those three are the ways in which the code
itself drops a recorded event (section 6).

### 5.3 `NdrProofs`

| theorem | states |
|---------|--------|
| `TypeCorrect` | `Spec => []TypeOK` |
| `CourierAccepted` | `Spec => []AcksOnRecord` |
| `SubmittedAttended` | `Spec => []SubmittedIsAttended` |
| `AttemptsAreCountedOnce` | `Spec => []AttemptsCountedOnce` |
| `NdrRefinesCases` | `Spec => ImplementsCases`, the refinement of `NdrCases` (machine F) |

`TypeInv` types what a process has read by the cases there are: cases are only
appended, so a case that was read exists. `ProcInv` is what the version buys: what a
process has read is not ahead of the row and is the row while the version
matches, an ending only closes cases of its shipment, an attempt is counted where
the case was read as not closed, and an acceptance is on record before the case is
moved by it. With it every `MoveCase` is a legal move of machine F, although read,
courier and write are three steps. `Attended` names the submit that read the case
as ACTION_SUBMITTED: another that holds an older state finds the move idempotent or
not listed, and cannot be the one the property speaks of. `CountInv`: the attempts that
are counted and those whose seam has read its case and still has to count are no more
than those begun; each seam leaves the second set as it enters the first, and both are
finite, so that their sizes can be added.

### 5.4 `OrdersProofs`

| theorem | states |
|---------|--------|
| `WritesReplaceWhatWasShown` | `MCSpec => NoSilentOverwrite`, INV-22 |
| `InvoiceNumbersStand` | `MCSpec => []NumbersStand`, INV-13 |
| `IngestsNeverDouble` | `MCSpec => []IngestsStand` |
| `TheFirstRuleRoutes` | `MCSpec => []RoutingStands` |

`BookInv`: group and condition rows belong together (`RowsWhole`), and a form that
shows the rule's current version shows the content of its rows (`FormStands`); the
version is read before the children, so a write between the two makes the form
stale rather than torn. `GstInv`: the numbers of a seller, a year and a series are exactly
1 to the sequence's value (`NumbersOf`), numbered rows miss nothing, and a credit note
corrects a voided row. `SyncInv`: each shipment has its allocation, which is why a
rebuild that finds the order unbooked deletes every shipment and none is doubled;
the order's lock is held by the ingest that writes the verdict (`LockHeld`,
`ReadUnderLock`); and drafts that do not show the order's verdict have an ingest
that is about to judge them, or that died (`Attended`). `TheFirstRuleRoutes` is about
operators: lemmas say what each of them returns for any rule book, chain and
candidates (the first match is the least index that matches, the cheapest and the
fastest of a set are in it and nothing in it is better, a chain's choice is its
first able one), and `EngineInv` only adds that an input stays well-formed and that
results come with the outcome.

### 5.5 `MoneyProofs`

| theorem | states |
|---------|--------|
| `CreditsArePaid` | `Spec => []NoFreeCredit` |
| `ReturnsAreFinal` | `Spec => RtoSticks` |
| `BatchesSettle` | `Spec => []ResolvedIsSettled` |
| `HonestBillsPass` | `Spec => []HonestBillPasses` |

`CreditInv`: a usage record Shopify is known to have accepted was booked
(`KnownIsBooked`, and `AnswerIsBooked` for the answer in memory); a task about to hold
a credit is the only one for its parcel, whose debit is reversed and whose credit
is not yet held (`HoldIsFirst`: the REVERSAL row, inserted once, is what makes the
hold happen once); a held credit was paid (`CreditIsPaid`). A reversal may precede its debit
(`entitlement-ledger.service.ts:142` asks for none), so none of this speaks of the
debit. `ReturnsAreFinal` needs
no more than the shape of the rows: whoever writes another state looks at the row
in the same statement. `FreightInv`: a worker that still holds a batch's version
finds it unmatched (`WorksInTime`), so the lines are written once however often the
job is delivered; a member who still holds a row's version finds the state the
step starts in (`ActsInTime`), so a settled row stays settled; and who settles the
last thing goes on to `maybeResolveBatch` (`Attended`), so a batch that could be
resolved has somebody who will, or a member's request died between the row it settled
and `maybeResolveBatch`, and only an acceptance of the residual would come by again
(`left`; section 6). An uploaded batch whose enqueue is lost is not
covered (section 6).

`QuotesInv`: a frozen snapshot names the tariff, zone and weight that give its total
again (`FrozenStands`), whatever versions the card has got since, and a bill is
`Itemised` from it, each kind of charge once and in any order. The lemmas of its proof are
about the operators: the amounts of a priced row are numbers, the sum over the lines
of a group is the one line's, so no group is over its tolerance, and the control total
is the sum of the groups (`SumUnfolds`, `SumsAreNumbers`: the fold of the community
modules is the only function that unfolds as it does).

### 5.6 `ConnectionsProofs`

| theorem | states |
|---------|--------|
| `AccountsAreObeyed` | `Spec => []AccountIsObeyed` |
| `BulkAddsUp` | `Spec => []BulkStands` |
| `CataloguesStand` | `Spec => []CatalogueStands` |
| `AdaptersAnswerTruly` | `Spec => []AnswersAreTrue` |

`AccountInv`: there is a function from the versions of an account to the keys each was
saved with, which every cached adapter and every request that has read the account
follows (`Follows`); the account's row alone says too little once its keys have been
replaced twice under a call. `BulkInv`: the results of a batch tally with its
counters (`Tally`) and are so of the parcels (`Claims`), in the row and in the hands of
each run, a run between two orders that began with the row's results or wrote them last
has them still (`InHand`), a settled row lacks an order only when
another run than the one that settled it wrote it (`Settled`, `Overwritten`), and a parcel was queued once more than
it was refused only while it is queued (`QueuedBound`). `CatalogueInv`: no two tariffs
of a card overlap and a courier has one starter (`RowsStand`); only the holder of the
courier's row inserts a starter, only the holder of the card a tariff, each after it
has looked (`HoldersStand`); the text of an ending means that ending unless an
administrator deleted or remapped it since the last seed (`StatusesStand`).
`AdaptersInv`: one call at a time may make a parcel and its last request makes it
(`CallsStand`), and whoever has settled the intent knows what became of it,
unless the request that makes the parcel was answered by a broken connection, a 5xx or
no JSON, which the adapters tell as FAILED, or Amazon answered a cancel by no JSON
(`OutcomesStand`, `FailedUnread`, `CancelUnread`).

### 5.7 `PlatformProofs`

| theorem | states |
|---------|--------|
| `PricesAreTrue` | `Spec => []PricesStand` |
| `KeptUntilItsTime` | `Spec => []KeptForItsTime` |
| `ExchangeIsSound` | `Spec => []ExchangeStands` |
| `PapersAreGood` | `Spec => []PapersStand` |
| `PeopleAreSafe` | `Spec => []PeopleStand` |

The invariant of a theorem is the conjunction of one for each component; a step of
the component in focus preserves its own (`PricesKept`, `UpkeepKept`, ...) and leaves
`focus` alone. `PricesInv`: the quote a booking has in
hand when it freezes the price is of its band, and was alive when the transaction began;
what a modal shows is a row of the cache, which a booking of the same band finds as
long as it lives, or a newer one (`Seen`). So the price shown is frozen unless the
order was derived again or a box chosen, which moves the band, or the quote ran out
(`StillShown` names the rest).
`UpkeepInv`: the time of what a sweep has chosen has come, and for an attachment it had
come when it was chosen, whatever a member's reply has made of the ticket since
(`SweepStands`, `TimeHasCome`), and a row is born before it is closed (`ItemStands`).
`KeptForItsTime` has two exceptions, the object a redaction took, and the attachments
of a ticket reopened after its days were over; it does not say that a row has its
object, for a sweep that dies between the two leaves one without. `ErasureInv`: what the redactor or the
purger says is erased has a row and no bytes (`Erased`, `PaperStands`), a label being
printed has a row to come, and after a redaction no ingest disturbed and no death
preceded the order names nobody and its drafts are wiped, but for those an ingest that
was at work wrote after an earlier redaction: an order whose recipient is gone is not
matched again (`RedactorStands`, `buyer.late`). `SyncInv`: where there are
more fulfillments than lost answers, the create has succeeded, or is in flight in the
hand of nobody but who got the answer (`CreateStands`); a row in flight is held by one
worker (`WorkersStand`); who is about to file a letter holds a dead row, unless it was
replayed (`FilingStands`). A replay closes the letter in a statement after the row's,
without a look at it: one that comes late closes the letter of a row that has given up
again (`fault.late`, the exception of `DeadIsFiled`). `IntakeInv`: a nonce is spent before its one install begins,
a token is there before the shop opens (`GrantsStand`), and a webhook has one handler,
and has run once when it is done (`LettersStand`). `ReportsInv`: the jobs of an
occurrence, the claims in hand and the occurrence awaited are together at most one more
than the edits (`OccurrenceStands`). `LabelsInv`: a job that has not stalled has one run,
and no document before that run settles (`RunStands`). `AccessInv`: a fresh session is of a live
member, or of one whom a request that has already written the member's row is about to
sweep (`Doomed`), which is why a revocation may be two statements. `AuthInv`: the
failures recorded are those that happened, and of one invite's or link's calls one is
to make what it stands for (`LinkStands`). `ConsoleInv`: an administrator's secret in
memory is none from the future. `SettingsInv`: what a form holds is the row while the
versions are equal (`Seized`), and it was shown at the version it says; of the keys one
is live.

### 5.8 `MessagesProofs`

| theorem | states |
|---------|--------|
| `MessagesAreSound` | `Spec => []MessagesStand` |

`NoticesInv`: whoever owes an alert has its level fired and is the only one to owe it,
with no row in the app yet (`AlertsInv`), and a message in hand has its queued row to
itself and was not known to bounce (`RowsInv`). `PostsInv`: the shops
a run of the announcement still has to write to had the plan when it read them, and
what was mailed and what is about to be is at most one for each publication. `HelpInv`:
one request at a time holds the number after the last ticket, and one that has read a
ticket names one that exists; the stamps follow the state in every statement.
`ConfirmInv`: a run that has decided carries a policy. `LinksInv`: a link that is dead is
revoked in its row, and a request past its store has a token that was live when it
resolved. `LookupInv`: what the CAPTCHA reads in the log is at least the guesses made in
a row, up to its threshold, and those screened without a CAPTCHA are counted with
them (`Unsolved`), so guesses exceed the threshold by at most the requests under way.
`RollupInv`: while nothing has moved since the sweep began, what it has collected says
what it would read again (`Says`), of the cards after the first step and of the
events after the fourth, and no row tells of a cohort that is not. The last is what lets
the sums be proved: the dashboard adds up all rows of a window, so a row too many would
count. `CohortsAddUp` then makes the sum of the rows the number of the parcels
(`SumOfParts`: the sizes of sets that lie apart add up to the size of their union).

### 5.9 Only model-checked

Liveness and everything about ENABLED: `AttemptsSettle` of `Booking`, `EndingsArrive`
of `Transit`, `CasesClose` of `Ndr`. Every other property of a passing run is a theorem.
The three findings are counterexamples TLC finds; nothing is proved of them. What
stays out of reach of a theorem is the bound of a run: the models are of one shop, one
order, one account or one shipment's cases as section 3 says, and the theorems hold for
any number of what the constants count. `transit_race` does not check `TypeOK` of
`Transit`, as `TypeCorrect` proves it.

## 6. Where the code and its promises part

Three disagreements have a run that shows them (`findings` in `PROJECT.json`):
`booking_v_siblings`, `order_v_cancel`, `orders_v_gst`. The others were met while
modelling. Those with a property in brackets are stated in the component's module as
the promise reads, with the line it is from, and no run checks them: the model
violates them.

**Booking and couriers.** A crash between the courier's create and the settle sends
a second create for the intent [`OneCreatePerIntent`, against
`booking-worker.service.ts:131`]; two resolvers that wait for the courier at once
settle each other's attempt (`:663`). A worker that dies after the CONFIRMED commit
leaves the AWB without its debit. Back-pressure that uses up a job's attempts leaves
the shipment SUBMITTED with no job; an enqueue lost after COMMIT leaves it QUEUED. A
second delivery may rewrite an intent's FAILED to CONFIRMED. `is_test` is read when
the answer is settled (`booking-worker.service.ts:329`), not when the parcel is
made. The entitlement is checked at queueing (`booking.service.ts:518`) and used up
at confirmation. A live quote that throws refuses the booking [`PriceNeverBlocks`,
`booking.service.ts:603`]; the quote cache's key has no account mode, collectible or
declared value, and a booking whose `expectedVersion` is left out asks for none.
A 5xx, a broken connection and a body that is no JSON after the send are told FAILED,
so a parcel may exist that nobody looks up (`delhivery.adapter.ts:171`;
`src/spec.md:280`). An account that switches its mode while an attempt is in doubt
hides the parcel from the lookup (`courier-account.service.ts:243`).
`ship-modal.service.ts:21` says that the estimate is computed on exactly the values that
freeze at booking: a refresh of the order, a box chosen in the booking or the end of
the quote's life gives another, and nobody is asked again (`StillShown` in `Ship` names
these cases). Shiprocket's and Xpressbees' token keys carry no
mode. Amazon's cancel accepts a body it cannot read. The breaker heals only when it
had failures, so DEGRADED may stick (`transport-policy.ts:170`). A bulk job that
throws gives its slot back before its next try [`BulkLimited`], one that crashes
leaks it; a death after `queueBooking` leaves an order queued and not reported so
[`QueuedIsReported`], and a job delivered again beside its live first run writes over a
batch that was settled, results, counters and state (`bulk-booking.service.ts:278`;
`Overwritten`). An administrator may map the text of an ending to another event, until
the next seed (`courier-master.service.ts:380`).

**Cancellation and tracking.** A cancellation whose answer is lost stays
CANCEL_REQUESTED (`cancellation.service.ts:122`). A rejection restores
PICKUP_PENDING although a pickup was acknowledged meanwhile. The reversal asks for
no debit (`Billing`). Two pickup requests take one manifest number (`pickup.service.ts:303`). An
event recorded and not reduced is a duplicate for every retry (the
exceptions of `ScansTakeEffect`; `tracking-ingest.service.ts:139`). A scan without an
event id that is told by webhook and by poll, or without a time, is two events, and an
undelivered attempt may be counted twice (`tracking.util.ts:118`). While the account is
switched off no ending is polled. A pickup after the settled
cancellation moves the row unflagged [`AllPickupsSurfaced`]. A raw row whose enqueue
is lost stays PENDING, and its redelivery is a DUPLICATE
(`courier-webhook-ingest.service.ts:181`). Xpressbees' status map has no
RTO_INITIATED, so that seam never fires for it.

**NDR.** Two attempts at once open two cases, of which the ending closes one. An
attempt's seam that outlives the ending opens a case that stays open. A rejected
submit reopens what another has scheduled [`ReopensCount`,
`ndr-case.service.ts:41`]. An acknowledgement that finds its case closed leaves no
row. Nothing calls `processPending` [`AnswersAreHanded`], and the settings' form
carries no version and writes back whole rows, so it undoes one sent meanwhile
[`NdrKeepsTheRest`, `ndr-settings.service.ts:67`, INV-22].

**Orders, rules, invoices.** A redaction leaves the frozen snapshots
[`RedactionErases`]. The order of the rules is moved without a version. An
evaluation that reads groups and conditions around an edit runs on a rule nobody
wrote [`EvaluatedAsWritten`]; a rule a trace names may be deleted
[`TracesKeepRules`], and so may a zone a condition names [`ZonesKept`]. The default
chain passes over a service for the reasons of the rule's own run
[`FallbackIsAChain`], and of several bounds on one field only the first is looked at
[`GroupsDecide`, ADD-13]. The totals of an issued invoice need not be those of its
lines [`TotalsOfLines`], nor its split of the tax that of its place of supply
[`SplitFollowsPlace`]; a voided invoice may get two credit notes.

**Money.** The end of a trial may restrict a shop whose plan Shopify already calls
ACTIVE [`RestrictedForCause`, `account-sweep.service.ts:65`]; a parcel that was
charged and cancelled may be left without its credit [`ReversedIsCredited`]. A batch
or a file whose enqueue is lost waits for ever [`UploadedIsQueued`,
`recon-queue.ts:40`; `ParsedIsAttended`]. A member's request that dies after the row's
UPDATE and before `maybeResolveBatch` leaves a settled batch MATCHED
(`recon-workflow.service.ts:104`, `:129`); accepting its residual is what still resolves it. The state of an expectation may lag its
allocations [`StateFollowsCash`]. A seed may change a version between a booking's
read and its seal [`BookedAsSealed`].

**Shopify.** Webhooks that were acknowledged and failed are never read again
[`AcknowledgedIsHandled`, `webhook-ingest.service.ts:129`, `src/spec.md:460`]. Each
install callback adds a trial and resets the account state [`OneTrialAShop`,
`oauth.service.ts:347`]; the subscriptions' failure is not repaired
[`InIsSubscribed`]. A replay that comes late closes the dead letter of a row that has
given up again (`sync-back.service.ts:247`).

**People.** A login that read the member before a revocation makes its session after
the sweep [`RevokedHasNoSession`, `entry.service.ts:122`, `src/spec.md:784`];
likewise an administrator's [`DeactivationKills`, `admin-auth.service.ts:148`]. An
enrolment repeated between the check and the update confirms a secret nobody
verified [`ConfirmedWasVerified`, `TotpWasVerified`]. A dead letter may be replayed
twice [`ReplayedOnce`]. The plans' and couriers' forms carry no version, so the
audit's "before" may be stale [`AuditIsTrue`, `plan-admin.service.ts:79`]; a
conflict on the reconciliation settings answers the version read before, not the
current one. When the answer of a rotation is lost after COMMIT the live key is
known to nobody.

**Messages.** INCR and EXPIRE are two calls, so a death between them leaves a
throttle that never lifts [`ThrottleLifts`, `track-lookup.service.ts:101`; also
`ndr-respond.service.ts:108`, `cod-confirmation.service.ts:158`]. Migration 0014
grants the application no UPDATE on `ndr_response_token`, so a buyer's answer is
stored and the revocation behind it raises [`TokenDies`,
`ndr-token.service.ts:100`]; an uninstallation revokes only track tokens
[`UninstalledTokensStay`]. A message may be sent again after a death
[`NeverSentAgain`]; the digest reads a list, then deletes it. Seven of the events
members can subscribe to are raised by nothing, and the Owner, who is a staff user,
has no e-mail. A COD order the buyer has confirmed may be held by a sweep that read
it before [`ConfirmedIsNotHeld`], and a sweep that dies leaves one held that does
not say why [`HeldIsExpired`]. A reply goes by the ticket's state read before its
transaction: a closed ticket is answered [`ClosedIsTerminal`], a resolved one not
reopened [`MemberReopens`]. An announcement published twice is mailed twice, and to
a shop that has left the plan [`WrittenOnce`, `WrittenIfSeen`].

**Papers, figures, erasing.** An edit that read a schedule before its claim writes
the old occurrence back [`OnceAnOccurrence`]; a stalled job runs beside its copy
[`NoDuplicateRun`], a late success overwrites FAILED, a job that succeeded keeps a
link to a file that retention erased. A retry of a bulk label job finds it FAILED
and ends [`RetriesRun`], a stalled one runs over its terminal row [`TerminalStays`],
a hash may be of another file [`HashMatchesFile`], a shipment may have two labels
[`OneLabel`]. A delivery that becomes known late is counted in two hours
[`DeliveredOnce`], and a sweep repeated in its hour does not take out the state a
parcel has left [`MatrixAddsUp`]. The application may not own the partitions it
drops [`SweepGoesOn`, `src/migrations/0018`], and a batch nothing can be deleted
from is read for ever [`SweepEnds`, `retention.service.ts:306`]. A reply that reopens a resolved ticket does not stop a
sweep that has selected its attachments (`ticket.service.ts:226`,
`retention.service.ts:341`), and a sweep that dies between object and row leaves a row
without one. The trigger of
migration 0009 refuses the redaction of a booked shipment's snapshot, so the phases
behind it never run [`RedactionCompletes`, `BookedIsRedacted`,
`full-redaction.service.ts:191`]. The tombstone a redaction leaves is a key outside the
shop's prefix: the retention sweep throws at it and ends, each day again, and so does
the purge of a test with one (`retention.service.ts:271`,
`test-shipments.service.ts:214`). A label printed during a purge stays
[`PurgeTakesAll`], and bytes are erased before their row [`ListedIsThere`].

## 7. Not modelled

Every component has its status and the reason in `PROJECT.json`. In short: the user
interface, the order read model, the dashboards' and the inboxes' queries, the
generators of reports and the drawing of PDFs change no state of their own; CSV
parsing is abstracted to what it yields; signatures, hashing, field formats, locale
files, framework wiring, health probes and deployment scripts are left out. What the
audit log holds is modelled only where a property is about it. Feature flags,
settings of notifications but for the confirmation's, and the import of zones are
rows without a second writer. The couriers, Shopify, BullMQ, Redis and PostgreSQL
are modelled from how the code uses them and marked external in the map.
