# Nexora TMS: models, model checking and proofs

This directory holds TLA+ modules for Nexora TMS. They cover what the API, its
triggers and the workers do to the database wherever the order of events, or
the agreement of two statements of one rule, decides whether it is right: the
durable queue and the workers that drain it, the two kinds of delivery that run
on it, the way from a transport request over its contract to a finished trip,
the money that is owed for it, the documents, capacity, conversations and
notices around it, and the forms through which all of this is entered. TLC
checks small instances; TLAPS proves nearly every safety property they are checked
for, that the queue refines its contract and that the two ledgers refine theirs, for
every number of rows, workers, postings and calls.

    tlc -workers 2 -config MCPlanning.cfg MCPlanning.tla
    tlapm ContractingProofs.tla

`PROJECT.json` lists the runs, the source lines behind every definition, the
hazards, and for every property a slip: a definition changed the way a plausible
bug would change it (operators that end in `Slip` or are named for what was
dropped), under which TLC finds the property violated.

## The system

Nexora TMS is a modular monolith (`apps/api`, NestJS), a worker (`apps/worker`)
and a web front end (`apps/web`) over one PostgreSQL database
(`packages/database`). The API changes rows in one transaction per call, always
READ COMMITTED (`apps/api/src/tenancy/tenant-database.service.ts:105-134`). A
call that has asynchronous consequences inserts an `outbox_events` or
`durable_jobs` row in the same transaction. Workers poll those two tables through
SQL functions only, run a handler per row and settle it. Triggers carry results
back to domain rows. There is no other channel between processes: everything
concurrent happens between transactions, and within the worker between its loop,
its lanes and its timers.

### Inventory

| Part | State | Operations | Hard behaviour | Correct when | Modules |
|---|---|---|---|---|---|
| Durable queue (0026, 0027, 0044; `transactional-async.ts`) | rows of `outbox_events`, `durable_jobs` | enqueue, claim, complete, fail, reap, requeue | several workers, lost answers, lapsed leases, the last attempt | one holder per lease, budget spent exactly, every row ends | `AsyncQueue`, `LeasedWork`, proofs |
| Worker runtime (`runtime.ts`, `store.ts`, `config.ts`, `main.ts`) | loop phase, claimed items, timers | start, tick, settle, time out, stop, crash | items that wait under a running lease, calls that reject half-way | a handler runs under its lease, ticks end | `WorkerRuntime`, proofs |
| Webhook delivery (0045, 0046; `webhook-delivery.ts`) | deliveries, the job of each | fan-out, POST, record, sync trigger | two rows in two calls | sent is true, row follows job | `WebhookDelivery`, proofs |
| Integration administration | clients, subscriptions | create, revoke, update | unlocked read before write | a revoked client has no active subscription | `IntegrationAdmin` |
| Outbound communications (0047, 0048) | route, consent, messages | configure, queue, send, record, reprocess | accepted but not recorded | success settles the message | `CommunicationDelivery`, proofs |
| Negotiation and contracting (`negotiation/*`) | proposals, reservations, contracts | counter, decide, approve, confirm, refuse, cancel | concurrent decisions | decided once, one contract per contracted request | `Contracting`, proofs |
| Trips (`trips/*`, 0030, 0034) | trip, links, stops, crew, checklist | create, link, status, finalize | contracts change under a trip; its end writes five tables | an ended trip ends its contracts and no others | `TripLifecycle`, proofs |
| Trip records (`trip-execution`, `trip-occurrence`) | positions, papers, proofs, costs, occurrences | record, review, deliver | the trip is read without a lock | deliveries evidenced, histories account for the status | `TripRecords`, proofs |
| Carrier payments (0036, 0037) | obligations, payments | create, pay, reverse, update, cancel | concurrent sums, contracts cancelled meanwhile | never overdrawn, reversed once | `CarrierPayments`, `MoneyLedger`, proofs |
| Receivables and reconciliation (0038-0040) | receivables, receipts, bank entries, matches | invoice, receive, import, suggest, match, reverse | a posting reachable by two ways | a reconciled entry is backed by one posting | `CustomerReceivables`, `Reconciliation`, proofs |
| Documents and compliance (0018, 0032, 0033, 0035) | documents, register rows, their type, policy, overrides, assessments | upload, review, link, register, decide, edit the type | days pass; types change under their documents; rules stated twice | valid was reviewed or asked for no review, both verdicts agree | `DocumentCompliance`, proofs |
| Capacity (`capacity/*`, 0011, 0017) | drivers, assets, assignments, blocks, dossier | update, assign, close, file | read-merge-write without a lock | an end stays | `CapacityRegister`, proofs |
| Matching (`matching/*`, 0020) | runs, candidates, results | execute | unknown values | every answer is explained by its rules | `CapacityMatching`, proofs |
| Negotiation threads (0021) | threads, participants, messages | open, add, remove, post, close | counting who is left | always staffed | `NegotiationThreads`, proofs |
| In-app notifications (0041-0043) | events, deliveries | emit, read | emission retried after roles changed | recipients are fixed | `InAppNotifications`, proofs |
| Freight demand (`freight/*`) | ends, route, cargo, terms, children, lanes | edit, replace, submit, decide | every call reads, then writes | one itinerary, a history that tells the terms | `FreightDemand`, proofs |
| Master data (`master-data/*`) | parties, directory, catalogues, sequences, audit | create, patch, link, number | lost updates, unique keys | the audit explains the party, numbers are given once | `MasterData`, proofs |
| Admission (all `*.validation.ts` beside their tables) | the row of a call | post, patch | one rule in two languages, prefixes, rounding | what is admitted can be stored | `Admission`, `*Forms`, `RecordAdmission` |
| Web application (the pages that write records) | the page that is open | open, submit, show, save | lists of choices repeated by hand, rows shown and sent back whole | what a page offers the API takes, a row saved as shown stays | `PageForms`, `RecordAdmission` |
| Request limiting (`api-security.middleware.ts`) | table of windows | count, prune, refuse | full table, edge of a window | no burst beyond twice the limit | `ApiRateLimit`, proofs |

The parts interact in six places. A domain call enqueues work in its own
transaction. The insert of an outbox event fans out to webhook jobs by trigger. A
settlement of a job updates the delivery or the message by trigger in the same
statement, so a domain CHECK that fails also fails the queue. The end of a trip
writes contracts, reservations and availability. A match posts into the books of
both ledgers. Contracts and trips ask the compliance verdict before they start.

## The modules

    LeasedWork              what any work table promises
      ^ refines
    AsyncQueue              the two tables and their SQL functions
      |-- WorkerRuntime           poll loop, lanes, timers, shutdown, crashes
      |-- JobRuns                 one kind of job through its handler
            |-- WebhookDelivery          (with IntegrationAdmin)
            |-- CommunicationDelivery
                  |-- OutboundDeliveries  both handlers beside each other
    Contracting             request, proposals, reservation, contract
      |-- TripLifecycle           trips over confirmed contracts
    TripRecords             what is recorded while a trip runs
    MoneyLedger             what an account promises
      ^ refines, twice
    LedgerBook              the append-only books
      |-- CarrierPayments, CustomerReceivables
            |-- Reconciliation    both of them and the bank
    DocumentCompliance  CapacityRegister  CapacityMatching
    NegotiationThreads  InAppNotifications
    FreightDemand  MasterData  ApiRateLimit
    Admission               rules for fields, types of columns
      |-- CapacityForms, TripForms, DemandForms, DealForms, BackOfficeForms,
          PageForms               validators beside tables; what the pages offer
            |-- RecordAdmission    post, patch, and the pages that do either
    AsyncQueueProofs
      |-- RuntimeProofs, DeliveryProofs
    ContractingProofs
      |-- TripProofs
    FinanceProofs  BackOfficeProofs  PlanningProofs

An arrow down is EXTENDS; a module of proofs also extends what it is about. `MC*` modules give constants their values and, where
components share no rows, put them side by side.

**How calls are modelled.** A call that locks what it reads until it commits is
one step. A call that reads without a lock, or whose triggers do, is two: what it
checked and read is kept under the call's name (`calls`, `tripCalls`, `work`,
`change`, `emission` and so on), other calls commit in between, and the
second step writes what the first computed, under the constraints of the tables
and the WHERE clauses of the statement only. Both ends of a conflict (the
transaction that loses a unique key, one that is rolled back) are steps.

**AsyncQueue.** `events` and `jobs` are the two tables, one record per row. Each
action is one SQL function or statement; row locks with SKIP LOCKED make it atomic
for the rows it writes, so `ClaimJobs(w, S)` takes any set S of at most BatchSize
due rows. Timestamps are kept as the time still to run, so `Tick` (one second)
can go on for ever in a finite state space. `Backoff` is the doubled delay with its
clamp; `BackoffValid` is the test on inverted bounds that makes the fail functions
raise.

**LeasedWork** is the contract without columns or clock: an item is submitted,
granted, lapses, succeeds, is retried, given up or restarted; every grant costs one
unit of the budget. `ImplementsLeasedWork` maps both tables to it.

**WorkerRuntime.** `phase` is where a process's loop is; `runs` holds each claimed
item with its lane stage and its timer. `Faulty` lets any database call reject,
before or after its commit: `TickRejects`, `CompletionErrs` and `FailureErrs` follow
the catch blocks, and a rejected tick leaves its lanes running behind the following
ticks. Bounds: one rejected tick is outstanding per process; both claims of a tick
answer within a second, and a due timer fires before the next second.

**JobRuns** is the same worker around one attempt of one job, for the modules that
follow a handler. `Timer` fails the attempt and leaves the handler running; `late`
records the jobs this happened to. Bound: one handler at a time outlives its
attempt.

**WebhookDelivery, IntegrationAdmin, CommunicationDelivery.** A delivery or message
and its job are a pair. `Fanout` and `QueueCommunication` create it, the handler's
calls are steps of their own, `Record` is the attempt function, and the sync
triggers are conjoined to every queue step; a step whose trigger would break a CHECK
is not taken: the statement fails. Signature, address checks and secret decryption
are calls that may throw. Consent and route are read when a message is queued, and
only the route again when it is delivered, as in the code.

**Contracting.** `requests`, `proposals` (each with its latest event as status),
`reservations` and `contracts` (a reservation has at most one). Advisory locks are
in the guards: `Locked` is the proposal's, `Contended` the request's and the
capacity's; `Taken` and `Committed` are the partial unique indexes. A driver and a
vehicle are one with their assignment; matching is taken to accept an assigned
capacity, and the compliance trigger only makes a confirmation fail.

**TripLifecycle** extends it. `trips` has status, stops, checklist and crew; `links`
are rows of `trip_transport_requests`; `busy` is the availability a trip assigns.
Calls that change a trip lock it and are one step; linking contracts, and keeping the
checklist, read without a lock. `CompleteTrip` and `CancelTrip` are the whole of
`finalizeContracts`: links, contracts, reservations and availability. Drivers and
vehicles are named by the capacity they belong to, one required item stands for the
checklist, and the compliance trigger of a departure is left out. The calls of
Contracting that no trip can meet (edits of requests, counterproposals) do not move
in it.

**TripRecords.** Positions with their policy of freshness, tracking events with the
provider's identifiers, papers, proofs, deliveries, costs and occurrences with their
history. The trip is read without a lock; an occurrence is taken FOR UPDATE. All
trips have the same stops; events are rows nobody reads. A document is linked to a trip
once per relation, so that one document under two relations may evidence two stops; a
proof names one of the links. `created_at` is `now()`, when the transaction began, and
lists are read by it: a row of a history carries the instant its call began, chosen when
the call checks, and the set of rows has no order but that one.

**LedgerBook, CarrierPayments, CustomerReceivables.** A book is a sequence of
postings; sums are over the book, as in the triggers. A call takes the row lock of its
account and runs the triggers (which read contract, trip, terms and document without
a lock), then commits or fails. **MoneyLedger** is what an account promises: it holds
money in places, and its state is the one that the total of the places has. A place is
the number of a posting, the money in it is what that posting brought and nobody took
back, so the refinement says which money is held and not only how much. Both books
implement it, under reconciliation too. **Reconciliation** has the bank entries:
import, suggest, match, reverse, ignore; a call that posts holds its entry. There is
one currency; dates of reversals, event rows, proof documents of payments and the
limits of 50 and 10 candidates are left out, and the score of a candidate is a given
affinity plus the rule on amounts.

**DocumentCompliance.** Documents of one type and one subject; days pass. The tenant
edits the type (`UpdateDocumentType`: whether it has an expiry, asks for reviews, is
active) and its documents stay as they are; its scope is not edited here. A row of a
driver's or an asset's register that names no document counts beside the linked
documents; a party has no register. `StateOf` and `Blocking` are the SQL verdict, the
newest by `created_at` decides, and as that is the start of a transaction, rows may
commit in any order of it (`NewMoment`). The latest review is the one whose call began
last, so a review that waited for its document may decide the status and not be the
latest. Its second half, from `Signal` on, evaluates the same facts in the rules of
`compliance-risk.service.ts`; the rest of the subject (registration, blocks,
licence) is a snapshot chosen from a set: a party approved or pending, a driver
active or blocked, an asset of each status. One relation of a document is kept.

**CapacityRegister.** Updates merge a row that was read and write every column back;
assignments are checked, then inserted under their unique indexes; closing reads,
then writes where the row is still active. The dossier keeps a row per kind and key;
rows alike are one. Carriers are active here.

**CapacityMatching.** `Execute` is one run: the seeded rules, every candidate's
result per rule, score, rejections, rank, and the snapshots. An unknown value is
neither met nor missed where the code says so.

**NegotiationThreads, InAppNotifications.** A thread's row is locked by every call;
memberships and requests change meanwhile. External participants, and contacts, stay
active. An event is emitted with the row it tells of and may be emitted again under
its key; `emitInAppNotification` has no caller besides tests.

**FreightDemand, MasterData.** One request with its children; the tenant's catalogue
rows. Every call reads, checks, and writes in a second step, so what is checked holds
only as far as keys and CHECKs hold it. References of a request to parties and
addresses are the concern of DealForms, and `transport_request_events` and
`_status_history` are rows nobody reads back. The audit of a party is a set of entries,
each with the instant its transaction began (`UpdateStarts`), 0 for the creation: the
party's id is known when that has committed.

**ApiRateLimit.** The middleware is one synchronous step; the clock moves forward
only. A request refused for its headers changes nothing: a stuttering step.

**Admission and the forms.** A rule reads the value of a field as the validator's
helper does (what is left out, what a default is, what is refused); a column holds,
rounds or refuses a value as its type does. A text is its length, a number is in
tenths of its column's last decimal, days are three and one that does not exist. Each
`*Forms` module puts the validators of one area beside their tables: `X` and
`XParsed` are the validator, `t` and `tCheck` the table, `*Inserts` what a service
makes of the form before it writes (a prefix, a rendering, an address made canonical,
a policy resolved), and `*Edge` the differences that are there. `RecordAdmission` posts
any form with two unusual values, and patches rows that have one: it reads the patch,
puts it over the row and asks what the service asks.

`PageForms` is the third statement of the rules, in the pages of `apps/web`: a page is a
control for each field it sends, with the values the control offers and what may be
typed into it. `sheet` is the page that is open. `Open` is a new one, `Submit` posts it
with one field changed (the conditions that relate two fields `Post` tries); `Show` opens the row of the desk for editing, and
`Save` sends back all that is shown, with one field changed or none, as the edit pages
do (`record-actions.ts`, `reference-catalog-actions.ts` and the edit actions of documents
and finance). A field the page does not have is not sent. `Vouched` is what a
page itself answers for, its choices and the lengths it asks for; what is typed into a
free box is the API's to refuse. Of two edit pages over one row that changed meanwhile
the last one overwrites every field it shows: the API asks for no version, and since
nothing in the repository forbids it, neither does a property. The same holds of a party
with roles of several kinds that is saved from the page of one kind: the API replaces its
roles by those that were sent (`business-party.service.ts:239`).

## What the runs show

| Run | Instance | Question |
|---|---|---|
| queue_and_workers | the functions called by anyone: 1 event, 2 jobs, one with 3 attempts, 2 workers, batches of 1 and 2; then by 2 processes of the runtime | do rows stay within their CHECKs, is nothing stranded, is it all LeasedWork, does a handler run only under its lease and settle its own attempt |
| worker_liveness | 1 process, 2 jobs, 1 lane, crashes, shutdowns, failing calls | does every row end, and every tick |
| worker_queued_lease (refuted) | 2 processes, 2 jobs, batch 2, 1 lane | `HandlerInLease` when a batch exceeds the lanes |
| deliveries | 1 webhook delivery with its client and event, or 1 message with 2 providers; 2 attempts, 2 workers | is what is recorded as sent accepted by the receiver, does the row follow its job, is there one sender |
| integration_create_race (refuted) | 1 client, 1 subscription, 2 calls | has a revoked client no active subscription |
| webhook_crash_window (refuted) | 1 delivery, 1 attempt, 1 worker | can the reaper end every job whose last attempt was lost |
| communication_reprocess (refuted) | 1 message, 1 attempt, 1 worker | can an acceptance after a reprocess be recorded |
| contracting_safety | 2 requests, 1 capacity, 2 proposals, 2 reservations, 2 calls in flight | is a proposal decided once, does contracted mean one contract |
| contracting_held (refuted) | 1 of each | does a confirmed contract hold its reservation |
| trip_safety | 2 requests, 2 capacities, 2 trips, 2 stops; 1 call of each kind in flight | does a trip's end close its own contracts and no others, is a fulfilled contract one its trip fulfilled and does a completed trip fulfil all it carries that was not cancelled before, can every contracted request be explained |
| backoffice | 13 parts side by side (below) | money, documents, people, capacity, matching, records |
| planning | 10 parts side by side (below) | requests, master data, limiting, admission |

**backoffice.** `AccountsImplementLedger`: an account is never overdrawn and a posting
is taken back once, under reconciliation too. `DeadObligationsStay`: once its contract
is cancelled and the calls under way are over, an obligation does not move.
`ReconciledIsBacked`: a reconciled bank entry has one active match, on a posting of its
amount that backs no other. `ValidWasReviewed`: a document is valid only while the last
thing done to it is a review that found it valid, or an upload made when its type asked
for no review, however the type is edited. `RiskAgreesWithCompliance`:
what the SQL verdict refuses, the assessment in TypeScript blocks, and it approves no
document that the other would not. `EndedStaysEnded`: no stale write changes a closed
assignment or a released block. `AlwaysStaffed`: a thread keeps an internal
participant, nobody twice. `RecipientsAreFixed`: those of an event's first emission.
`RunsAreExplained`: eligible, ranked and rejected follow from the results a matching
stored. `HistoryExplainsOccurrence`: the rows, in whatever order they are read, have one
opening, the first; they enter the status of the occurrence once more than they leave it
and the other as often; some row names the one responsible. `DeliveriesAreEvidenced`: a
delivery has a proof of its own, of its stop, whose link is to that stop or to none.

**planning.** `PlanHoldsTogether`: the stops are one itinerary from pickup to delivery,
packages name items that exist, lanes join two cities. `HistoryTellsTerms`: one entry
per version, the last is what the terms are. `DecidedAsSubmitted`: terms that wait for
a decision, or were approved, are not edited. `BookkeepingHolds`: the audit of
a party has one creation, read before every update; what any entry says the party was
and what the party is now, an entry says it became; and a sequence gives each number
once and without gaps.
`LimitsHold`: no stretch as long as a window lets more than twice the limit through,
and nobody is turned away for room that ended windows take. `StoredAsAdmitted`: a form
or patch that the validators admit is taken by its table, but for the edges named one
by one (`AtTypeEdge`, `AtTableEdge`, `PatchEdge`), and a row that was taken is one its
validator would admit again. Its part `PagesAgree`: what a page offers, its validator
does not refuse (but for `PageEdge`), and a row that is opened and saved unchanged is
taken, from a page that has a choice for everything the row holds.

**Why components share a run.** They share no rows, so their product would only
multiply states. A variable `part` is chosen at the start, and the components of the
other parts keep their initial state. An invariant of a shared run is the conjunction
of the parts' invariants. TLC warns there that a variable "changed while UNCHANGED":
a part's own bound is a conjunct of its step, and the step is discarded.

**Why the bounds are enough.** Three attempts reach the clamp of the backoff and
separate the first, a middle and the last attempt; two rows of a table share a batch;
two workers are the loser and the winner of a lease. One process is enough for
liveness because others only help. A delivery depends on no other delivery, so one is
followed by two workers, one of them late. Two proposals, reservations and calls are
the smallest instance with a counterproposal, a second reservation of a capacity and
two calls that overlap; capacity is the contended resource, so there is one; a trip
needs two of each to take a link the other released, and two stops are the fewest a
trip may have (`MinStops`). Two calls in flight are all that a lost update or a stale
check needs, so every component of the shared runs has two. `MaxPostings` and
`MaxReceipts` 3 are post, reverse, post again; `MaxVersion` 4 is proposed, submitted,
rejected, changed; `MaxNumber` 2, `MaxFiled` 3 and `MaxStops` 3 leave a
middle element. The instants a call can begin at (`CallStarts` 1 to 3, `UpdateStarts` 1
and 2) bound the rows of a history and of an audit: two updates that overlap, a change
and its return with a note between them. `Moments` 1 and 2 are an older and a newer
document or register row; `Relations` are two, for the two links of one document.
`Limit` is 1 for sensitive and 2 for other routes,
`MaxTracked` 1 fills the table with one client, `PruneEvery` 3 prunes twice and
`MaxInstant` 5 passes two windows of length 2. A form is posted with up to two
unusual values: the two fields of any CHECK that relates fields; a patch has one
field (`MaxPatches`) over a row with one unusual value (`MaxUnusual`). What is proved (below)
needs none of these bounds: they matter for what is only model-checked, which is
liveness and the forms. Rows are symmetric where the models never tell them apart
(`AlikeRows`, `Alike`, `WorkerSymmetry`), which is used for safety properties only.

**Deadlock** is checked in queue_and_workers, worker_liveness, worker_queued_lease,
deliveries and the two refuted delivery runs. In the others the system stops once all
rows are used.

### What the refuted properties found

- *worker_queued_lease.* With the defaults a tick claims 20 items of a table for 8
  lanes. The lease of the last ones runs while they wait in memory, and the timer
  starts only when a lane takes them, so two workers can execute one item.
- *webhook_crash_window.* The handler records success or cancellation, and the worker
  dies before completing the job on its last attempt. The reaper's dead letter sets a
  second timestamp, the CHECK refuses it, and the statement fails for the whole
  batch. Since a tick reaps before it claims, no worker claims anything any more.
- *integration_create_race.* A subscription is created for a client that is being
  revoked. `updateWebhook` has the same form and brings a revoked one back. Fan-out
  also tests the client, so nothing is sent to it.
- *communication_reprocess.* The requeue writes `retry_wait`; the trigger waits for
  `pending`. The message stays failed, is sent, and the record of its acceptance
  raises, so the attempt is failed and the message sent again.
- *contracting_held.* A reservation can be cancelled under its confirmed contract.
  The capacity may then be reserved elsewhere, and the contract can never be
  cancelled, since that wants an active reservation.

### What the passing properties exempt

Each of these is a behaviour of the code that a stronger property would refute; the
modules contain it, and the property's comment names it.

*Queue and deliveries.* `SettlesOwnAttempt` and `HandlerInLease` hold with distinct
worker ids, no failing calls and lanes for the whole batch. A lane left behind by a
rejected tick can settle an attempt its own process has claimed again, since the only
fence is the worker id; two containers that fall back to `nexora-worker-<pid>` share
one, against `docs/data/wave-0024-async-reliability.md:111`. `RowFollowsJob` exempts
deliveries whose handler outlived its timer: the attempt function overwrites the
status unconditionally. Consent is read when a message is queued, never again.

*Contracting and trips.* `ContractedIsBacked` has no converse: an edit of a request
that overlaps its confirmation writes the older status back and leaves a confirmed
contract under a request that is open again. A contract cancelled between the check
and the insert, or afterwards, stays linked to its trip, whose readiness counts links
only. A required checklist can appear beside the completion that did not see it. A
cancelled trip cancels its contracts and leaves their requests contracted. One
document linked under two relations may evidence two stops. Expenses,
tolls and fuel are accepted on completed trips, and on trips cancelled in between.
The obligation of a cancelled contract refuses every update, so its payments can no
longer be reversed.

*Requests.* Edits of cargo, route and terms check the status without a lock and can
land after the request left planning. Approve and reject can both succeed, and an
approval can land on terms rejected and edited since it read them. Changing an end
leaves the stops; totals of cargo are not reconciled with the profile, which
`docs/data/master-data-catalog-target-v1.md:345` wants. Once a party of a request
loses its role, no field of that request can be edited, because the whole merged row
is asked.

*Master data, capacity, compliance, matching.* A party's homologation can outlive its
role by a stale write-back; an active contact may stay at an inactive address. Updates
of drivers and assets read, merge and write every column: of two, one is lost. On the
last day of a document TypeScript and SQL differ. A document uploaded while its type
asked for no review stays valid, unreviewed, when the type is made to ask for one. Of two
updates of a party that overlap, or two calls on one occurrence, the one that began first
can commit last: its row is then read before the other's, so the last entry of an audit
need not be the party as it is, nor the last row of a history the occurrence's status.
The dimensions of a cargo are
compared only when all three of the vehicle's are known.

### Where admission and storage differ

These are the edge operators. Everything else that is admitted is stored.

- *Refused by the table only*: a block of capacity that ends at its start, or before now
  when no start is sent; an owner's name of 2 characters, an emergency contact's or a
  street of 1; an estimated arrival before the position, a position in the future, a
  heading from 359.995, which rounds to 360; a requirement of temperature without a
  temperature, or of vehicle and body at once; a party's mandatory requirement without a
  value, one above 1000 characters, or one with its days out of order.
- *Refused by the type only*: days that do not exist; an amount that rounds to zero where
  the table wants it positive; more digits than a column has, which no handler maps, so
  that the answer is 500.
- *Patches* of items, requirements and lanes: nothing is asked of the merged row, and
  the CHECK refuses what a form would have been told.
- *Offered and refused*: for a document whose type has the scope `other` the page that
  links it lists the relations to a party and to a request together, whichever of the two
  is linked, and the API refuses those of the other kind (`document-forms.tsx:291`).
- *Stored although not whole*: decimals beyond a column's are rounded; a package or
  asset with only some dimensions passes the CHECK, whose value is NULL.
- *Too long once prefixed*: a service puts a sentence before what it was sent. A reason
  to ignore an entry above 491 (`finance-reconciliation.service.ts:312`), the notes of
  a match above 947, the reason of a reversal above 975, that of revoking a client
  above 972 (`integrations.service.ts:173`), and subjects or bodies that grow when
  they are rendered. Only the contracts' cancellation lowers its limit for the
  prefix. `throwReconciliationError` does not map the error, so the answer is 500.

## Fairness

`FairRuntime` (worker_liveness) is all there is. Seconds pass; from some moment on the
supervisor keeps the process up; the loop makes its next step; every run settles by
its timer at the latest: weak fairness, justified by `runtime.ts`, whose loop awaits
nothing without a bound. Claims and reaps have strong fairness per row, because
failing calls and the other phases of the loop disable them again and again, and
batches are ordered by due time; it says that a statement that is tried for ever
succeeds in the end. No fairness is given to administrators or enqueuers. Calls of the
API are made by people and promise nothing: the other runs use no fairness, and the
domain has no liveness to check.

## What is proved

Every theorem is about the specification TLC checks, or about the part of it that a
component contributes to a shared run (`ThreadSpec`, `RecordSpec`, `MatchingSpec`,
`RateSpec` and so on), for every value of the constants that satisfies the assumptions
their modules name:

| Assumption | What it asks |
|---|---|
| `QueueAssumption` | positive attempts, lease, batch and bounds of the backoff; no row is in both tables |
| `RuntimeAssumption`, `HandlersAssumption`, `DeliveryAssumption`, `AdminAssumption`, `CommunicationAssumption` | processes, handlers and the null values are of their kinds |
| `ContractingAssumption`, `RecordAssumption`, `ComplianceAssumption`, `FreightAssumption`, `MasterAssumption`, `PaymentAssumption`, `ReceivableAssumption`, `ReconciliationAssumption` | the value that stands for NULL is no row or key; amounts are positive, days and bounds are numbers (those of a bank entry positive, as the CHECK of 0039 asks); a route has two points to join; the two ledgers share no account and no call |
| `MatchingAssumption`, `PreferenceAssumption` | assignments are finitely many, measures are numbers or unknown; the preferences at rest are rows their DTO takes, with one active default |
| `AdmissionAssumption` | the numbers of unusual fields and of patches are naturals |
| `RateAssumption` | limits and the window are positive, the clients of a run are finitely many |

TLC evaluates each of them in the runs. Three theorems ask for more, below.

**AsyncQueueProofs.** `QueueInvariant`: the invariant `QueueInv` is inductive. It is
a conjunction over rows, and says of each that it has its type, that it satisfies
the CHECKs, and that a row with a spent budget is closed or leased. `NoStrandedRow`
is not inductive alone: that failing or reaping an exhausted row closes it needs
attempts never to exceed the budget, and that a leased job is running. Lemmas
without state say of each way of rewriting a row that it keeps the row invariant; the
action's lemma says which rows are rewritten. `QueueTypeOK`, `ChecksHold`
(`RowChecks`) and `NoRowStranded` follow.
`QueueIsLeasedWork` is the refinement. The abstract state of an item is read off its
row by cases, and a row that was never stored has spent nothing, so the cases exclude
each other. Each statement moves a row in one of five ways; each of these is a step of
the item or a stutter, and the rows it does not name stutter.

**RuntimeProofs.** Whatever call fails, however many processes run, and with lanes left
behind, the runtime does to the two tables only what their functions allow:
`RuntimeUsesQueue` proves `RuntimeSpec => Spec`, so every theorem above holds under it.
`HandlersLeased` and `SettlementsOwn` are about the runtime when it is *Provisioned*:
finitely many rows, an id of its own for every process, a lane for every item of a
batch, bounds of the backoff in order, and calls that do not fail. With the defaults (a
batch of 20, 8 lanes) the third does not hold, and worker_queued_lease shows what
happens then; without the others the behaviours listed under "exempt" happen. The
invariant says of each run where its tick is and how much of the lease is left: items
of the second table wait only until the second reply, a timer ends before its lease, a
claim takes no row whose lease runs, and a settlement changes only its own lease.

**DeliveryProofs.** A handler works on its row without a lock for several steps.
`RunsInv` says what it may rely on: a run that is waited for holds its job under a
running lease, and a job has one open run per worker. `OneSender`: so long as no timer
of a job won, the handler at work is the only run that can settle it. `ReportedIsTrue`
and `RowsFollow` then follow from what a run knows at each of its stages (having
returned, its row is settled by it), and from the trigger, which writes row and job in
one statement.

**ContractingProofs.** `ContractingInvariant`: the checked properties follow from
`ContractingInv`. A call writes on the strength of what it read some steps before, so
the invariant says of every pending call what is still true of it (`CallsInv`): the
proposal it decides is open and no other pending call decides it, the proposal it
reserves exists, the status it writes back is not contracted. `RowsInv` keeps the
chain from contract to reservation to proposal whole, so that the request of a
contract never changes, and `OneContract` states `ContractedIsBacked` without counting,
by existence and uniqueness. `DecisionsFinal` is the action property: a step that
changes a proposal finds it open or absent.

**TripProofs.** Two components write the same contracts. A contract that was once made
never returns to none, so what a link or a pending call names is never confirmed
again; and a trip that a pending call is adding to stays mutable, because it is locked.
With these `EndedEndsContracts`, `FulfilledByTrip`, `ContractedExplained` and
`EndedFreesUnderTrips` hold for any calls in flight.

**BackOfficeProofs.** One section per component, each around the reason why a call that
decides in one step may write in another.
- *A lock.* A thread has at most one change to commit, and what it decided on the row
  still holds then (`ThreadsStaffed`). An occurrence has one writer, so a change starts
  from the status that is there: it leaves one status and enters the other, and as its
  instant is its own it is a row more (`HistoriesExplain`, by counting).
- *A unique key.* An event is emitted once per key, whoever emits it again
  (`RecipientsFixed`).
- *A second question.* The write itself asks whether the row is still active
  (`EndsStay`).
- *Nothing taken away.* Links and proofs are only added, so what was read without a
  lock is still there (`DeliveriesEvidenced`).
- *Two statements of one rule.* `ValidReviewed` is an invariant per document over
  passing days and edited types; `RiskAgrees` compares the verdict in SQL with the one
  in TypeScript case by case: a critical signal blocks whatever the score, and a provider can only add one.
- *A computation.* `RunsExplained` follows a matching from its inputs to its rows: a
  reason is missing exactly when the vehicle is known to suffice, counted once as a
  rejection; that the ranks are 1 to their number is the pigeonhole principle
  (`RanksAreDense`).

`BackOfficeRunsItsParts` joins the sections: the run of the seven parts implements the
specification of each, so whatever is proved of a part holds with the others beside it,
and the types of the run (`BackOfficeTyped`) follow from those of the parts. Most of
these are conjuncts of the invariants. The rows of the finance tables are the exception
(`FinanceTyped`): their types are an invariant over every draft as well, because a
posting is typed when it is drafted and written later.

**FinanceProofs.** `FinanceInvariant` is the invariant of the books, of the calls in
flight and of the bank entries together. A call drafts its posting in one step and
commits it in another; between the two it has the row lock of its account, so the book
it decided on is the book it posts to. A bank entry has one call, which posts into a
book of either ledger, and postings are only added (`ReconciledBacked`). A cancelled
contract stays cancelled and its triggers refuse every write (`DeadStay`).
`AccountsKept` is the refinement of MoneyLedger by both books (`PayablesKept`,
`ReceivablesKept`), and it is about sums. A trigger sums the signs of all postings,
the abstract account totals the places that are still held. That the two agree for a
book of any length is shown by what one posting does to each: a further posting adds
its sign to the sum of the book, a change of one place changes the total by the
difference, and a reversal names an entry that nobody else took back. Each of these
lemmas is an induction over the length, done on the set of the lengths where it holds,
since a non-empty set of numbers has a least one. `AccountHolds` (the sum of the book
is the total of what is outstanding, within the limit, and the status is the one it
settles to) is then an invariant of every account, of its draft too, and the commit of
a draft is one move of the abstract account: money added, money taken back, an account
opened or closed. A call that waits, fails or changes nothing but a due date or the
evidence stutters.

**PlanningProofs.** Reads here are never locked. A pending edit of terms has read a
version that is not above the present one, and if it is the present one the terms were
not submitted, so the version of its write decides (`DecidedWereSubmitted`,
`HistoryTells`). Of two routes that overlap, the one that does not see the other's stops
fails on their numbers, so the stops are always one call's; an item
that a package names cannot be deleted, and of two patches of a lane the one that would
join a city to itself fails on a CHECK (`PlanHolds`). The audit is written from what was
read after the write, so what a pending update has read is what an entry tells, and the
creation, at 0, is read first; a sequence's row is held (`BookkeepingAgrees`).
`LimitsKept` is about time: a bucket's window opens after the one before it is over, so
what was let through in any stretch belongs to at most two windows; and a full table
refuses a client only when every window in it is open. `PlanningRunsItsParts` and
`PlanningTyped` are as above, the desk of the forms among the parts.

**Model-checked only.** Liveness under fairness (`WorkEnds`, `TickTerminates`), which is
out of the prover's reach. `StoredAsAdmitted` compares validators and tables column by
column over given forms, and `PagesAgree` the lists of the pages with those of the validators,
literal by literal: a proof would repeat the enumeration. The unusual values it tries are representatives (one past a
bound, a string of blanks), and its edges are named for them: for raw values of every
kind it would be another statement, with other edges. The theorem about the desk is
therefore that of its types, and that what is sent is stored as admitted stays with the
enumeration.

## Plan

1. Proofs: the columns of the tables against the parsed forms for raw values of every
   kind, with an edge for each way a validator is laxer than its CHECK.
2. Models: the external API's credentials (`last_used_at`, revocation between check and
   use); the events that a request's consumers read; two trips over one
   driver with different assets; capacity detail that the patches of RecordAdmission do
   not reach; the page that edits a party, of whose roles the page of clients shows
   only some.
3. Larger instances: three processes; two contracts in the payables.

## Not modelled, and why

Payload contents, wording, logs and audit rows that nobody reads change no decision.
Tenancy, roles, row-level security and authentication decide who may call; the models
let every call be made, in one tenant. Of authentication and of the reliability
administration only the forms, and of the middleware only its limiter, are here. Reads,
analytics and the health endpoint have no state of their own. Of the web front end the
pages that write records are here; those that list, the login and its proxy, the page
that edits a party and those of one step (upload, release of a block, requeue) are not. Schema
tooling and the delivery pipeline run before the system does. Author columns and
generated identifiers are left out of the tables. PostgreSQL is taken at its word:
statements are atomic on the rows they lock, unique indexes and CHECKs hold, advisory
locks last until the end of the transaction. Clocks are one clock, the database's.
