# INVOX: a verification of its services and of its web application

INVOX is a supply-chain-finance platform: suppliers upload invoices, buyers approve
them, funders finance them, and the platform books the money. This directory holds
TLA+ models of its API and of the tab of the browser that works with it, the TLC runs
that check them on small instances, and proofs that TLAPS checks for every value of the
constants.

- [The system](#the-system)
- [Modules and their correspondence to the code](#modules-and-their-correspondence-to-the-code)
- [Runs](#runs)
- [Bounds](#bounds)
- [Disagreements between the code and what the repository says](#disagreements)
- [Fairness](#fairness)
- [Proofs](#proofs)
- [Plan](#plan)
- [Not modelled](#not-modelled)

## The system

The API (`apps/api`) is a NestJS application in one Node process over PostgreSQL, reached
through Prisma. Every endpoint is an asynchronous handler. Handlers interleave at each
`await`; a row read before an `await` may be gone after it. `prisma.$transaction` runs at
READ COMMITTED, with no explicit locks, so a transaction is atomic in its writes and not
in its reads. No queue and no scheduler runs: what a handler leaves undone stays undone
until somebody calls another endpoint. Neither clients nor the API prevent two requests on
one row from overlapping. The web application (`apps/web`) is a Next.js client with a
query cache; it calls the API with a token from the session storage.

| component | state | operations | talks to |
|---|---|---|---|
| Financing transactions (`financing/`) | `FinancingTransaction`, `FundingAllocation`, `MaturityObligation`, its payments and ledger entries | createOfferFromInvoice, accept, fund, disburse, collect, close, remove, update (PATCH) | invoices (status), limits (inside its transactions), payments and ledger (creates rows), webhook deliveries (queued after the commit) |
| Limits and exposure (`financing/`) | `LimitRecord`, `ExposureSnapshot` | ensure, reserve, utilise, release, refresh snapshots | called by financing only |
| Payments (`payments/`) | `Payment`, `PaymentWebhookEvent`, `ReconciliationItem`, `LedgerEntry` | create, update, submitForApproval, approve, initiate, verify, confirm, fail, return, provider webhook | the payment provider (call and callback), financing status, approvals |
| Approvals (`approvals/`) | `ApprovalRequest` | create, approve, reject, cancel | writes the approved entity of any other component |
| Invoices, import, e-invoicing, ERP (`invoices/`, `integrations/`) | `Invoice`, batches, rows, `ProviderWebhookEvent` | create, update, approve, remove, import, process rows, cancel, provider callback, retry | programme participants; financing moves the same status |
| Counterparties and compliance (`counterparties/`, `integrations/compliance/`) | onboarding status, owners, `ComplianceCheck`, workflow cases | run, review, expire, approve, override, reject, edit | the compliance provider |
| Products (`products/`) | offers, facilities, bids, scorecards, signals, reports | create, update, remove, lifecycle actions | approvals, ledger, limits, the audit log (idempotency keys) |
| Webhook delivery (`webhooks/`) | `WebhookEndpoint`, `WebhookDelivery` | subscribe, emit, deliver, retry, cancel | subscribers |
| Notifications (`notifications/`) | `Notification` | create, template, lifecycle email, send, retry, cancel | e-mail provider; called by programmes and others |
| Programmes (`programmes/`) | `Programme`, participants | create, update, addParticipant, setStatus | notifications |
| Documents and storage | document rows and files | upload, update, verify, reject, remove, download, signed link | storage provider, audit log |
| Operations (`operations/`, `integrations/`) | any table; connections | create, update, dashboard, test of a connection | writes around the services of other components |
| Authentication, users, roles (`auth/`, `users/`) | users, signed tokens, in-memory reset tokens and rate limits | login, password change and reset, create and edit users | everything |
| Permissions and endpoints | none | guards of each controller, alias tables on both sides | every request |
| Browser session (`apps/web`) | session storage, React state, default header | start-up check, login, logout, calls | authentication |
| Web pages (`apps/web`) | query cache, form on display | open, fetch, press, invalidate, push | every endpoint |
| Engines (`services/`, `engines/`) | none | price an offer, split funding, score | financing |

What is hard about it, and what makes each component correct:

- **Financing.** Guards are checked on a snapshot read before the transaction, so two
  requests can pass one guard; PATCH edits any field between two steps; the process may stop
  between a commit and its webhook rows. Correct means: a status never outruns the money
  movements on record, an obligation is paid by a collection that covers it, books and rows
  agree, no endpoint but a PATCH takes a financed invoice away, and nothing is announced that
  did not happen.
- **Limits.** `moveLimitAmount` reads, computes and writes absolute amounts. Correct means:
  reserved and utilised amounts are what accepted and funded financings need, no limit is
  exceeded, one record per dimension, and transactions never wait for each other.
- **Payments.** The provider answers late, its notifications are lost, repeated, reordered or
  forged; two services settle the same rows. Correct means: money moves for a reason, once,
  with its reconciliation item, and what is confirmed ends reconciled and, if it belongs to a
  financing, on the ledger.
- **Approvals.** Execute, then mark. Correct means: four eyes, approved means executed, once;
  rejected means not executed; repeated submissions of a payment wait for one decision.
- **Import.** Nothing runs in a transaction; batches repeat each other's invoices; callbacks
  come twice; a PATCH may change an invoice's key, reference and terms. Correct means: as long as it
  does not, an imported row owns its invoice and a duplicate is never hidden; an
  event is applied once per delivery or retry, a cancelled batch imports nothing.
- **Compliance.** A run stores checks one by one, then statuses, two of them shared by
  verification and screening, then a case. Correct means:
  what blocks an approval is in the queue and has its case, and nobody is approved against the
  latest checks.
- **Products.** Keys are stored after the impact; approvals execute without a look at the
  status. Correct means: what an action brings to its final status is posted, once and as
  agreed; a facility is not used beyond its limit; a large amount takes two users.
- **Support services.** Rows say that something happened outside: a delivery, an e-mail, a
  file. Correct means: what a row says is true, what was promised is attempted or recorded,
  what is final stays so.
- **Accounts and the browser.** Tokens outlive what they were signed for; a tab outlives its
  session; a form outlives the record it was filled from. Correct means: a reset token works
  once, superseded sessions end, the login rate holds, the tab offers what the API allows, a
  page shows the changes it made and no form takes them back.

`PROJECT.json` lists each of these hazards at its line with the properties that cover it.

## Modules and their correspondence to the code

Each model translates a handler into a request that walks through *phases*, one phase per
`await` that matters: what a phase has read is stored in the request, and the next phase
acts on it. A database transaction takes effect where it commits (or, in LimitReservation,
statement by statement with row locks). An exception or a stop of the process is an action
of its own (`abandon`, `crash`, `endWithout`, `rollback`).

### Financing and FinancingLifecycle

`Financing.tla` models `apps/api/src/financing/financing.service.ts` with the invoice
endpoints `approve`, `remove` and `update` (PATCH) of `invoices.service.ts`.

| model | code |
|---|---|
| `invoice`, `fin` | `Invoice.status`; `FinancingTransaction.status`, `invoiceAmount`, `netProceeds` |
| `payments`, `obligations`, `allocations` | `Payment` with its reconciliation items, `MaturityObligation`, `FundingAllocation` |
| `ledger` | debits and credits per account of `postLedgerEntries` (1000 cash, 1200 receivable, 2100 payable) |
| `events` | `WebhookDelivery` rows queued |
| `findOne`, `guardHolds`, `AllowedFrom` | the read of `before` and the guard checked on it |
| `checkOutbound`, `countOpenObligations` | the queries inside the transactions of disburse and close |
| `createOfferFromInvoice` ... `removeInvoice` | the transactions, one action each |
| `update` | `PATCH /financing/:id`; the status edits and amounts an operator sends are constants |
| `updateInvoice` | `PATCH /invoices/:id`, which writes any status over any other; the pairs that are written are the constant `InvoicePatches` |
| `queueWebhookDeliveries` | the rows written after the commit |
| `abandon` | rollback, or the process stops |

A PATCH of an invoice may move it out of FINANCED while its money is out. `FinancedInvoiceProtected`
is about the rest: it supposes `InvoicePatchesSpareFinanced`, the run writes any status over
RECEIVED and APPROVED, and no other endpoint then takes the invoice away.

Amounts are small naturals with net below gross; ledger entries of fees, currencies,
tenors and references are left out. An approval that executes `MARK_DISBURSED`,
`CLOSE_FINANCING` and the like writes a status as PATCH does, without the postings of the
endpoint; `StatusPatches` is where such writes would be added.

`FinancingLifecycle.tla` says what the service promises of one financing without handlers:
a stage, the cash paid out once, the cash received once. `ImplementsLifecycle` is the
refinement, with the cash account as the mapping of the two amounts. It holds for clients
that do not overlap two requests on one financing; two overlapping collects break it (they
book the collection twice), which is why the properties of the overlapping runs are the
weaker ones that survive.

### LimitReservation

`LimitReservation.tla` models the limit part of the same transactions. `plan` is the list of
statements a handler runs: `ensure` (look for a record, create it) and `move` (SELECT, then
UPDATE). `readLimit` sees committed records and the transaction's own; `writeLimit` waits
while another transaction has written the row and then overwrites it with the amounts
computed from its read; `commit` publishes the records, the status and the exposure
snapshots, which were computed when the movement ran. Requests on one financing do not overlap here (Financing
covers that); different financings compete.

Every core movement starts at the PROGRAMME record. The UPDATE of that row is a lock that
lasts until the commit, so the records that follow it are read and written by one
transaction at a time: the anchor's, the supplier's and the funders' records stay exact
(`ReservationsMatchStatus`, `WithinLimit`) and no two transactions wait for each other
(`NoCircularWait`). The PROGRAMME record itself is read before the lock is taken, and is
the one that loses updates. None of this holds in a programme that has no limit of its own.

### PaymentSettlement

`PaymentSettlement.tla` models `apps/api/src/payments/payments.service.ts` with the sandbox
provider.

| model | code |
|---|---|
| `payment` | `Payment.status`, and whether `providerReference` and `idempotencyKey` are stored |
| `linked` | the payments that have a `financingTransactionId`; a payment of none is reconciled when confirmed and never posted (`findLedger`, line 482) |
| `provider` | payments created at the provider |
| `event` | `PaymentWebhookEvent` rows by `eventReference` |
| `recon`, `ledger` | rows that carry the paymentId |
| `booked` | ledger entries the financing service posts without a paymentId |
| phases call, store | the provider call and the update that follows (initiate, verify) |
| phases event, update, mark | the three statements of `processProviderWebhook` |
| phases recon, ledger, apply | the two reads and the commit of `applyConfirmedPayment` |
| `signatureValid`, `parsedStatus` | `verifyWebhookSignature` and the provider's own reading of the signature |
| `disburse`, `collect` | the financing service on the same rows, one step each |

`manual` remembers which payments an operator confirmed; it is history for the property.
A notification is an id with its payment, status, kind of signature and whether it carries
the payment's own reference.

### Approvals

`Approvals.tla` models `approvals.service.ts` and `PaymentsService.submitForApproval`.
`executed` and `executedBy` count the executions of an approval, which is what the
properties are about; what executing does to its entity belongs to the other components.
`create` is `POST /approvals`, which takes any entity and looks at nothing: it can put a second
pending approval beside the one `submitForApproval` made for a payment, and both may be executed.
`submitted` remembers which approvals came from `submitForApproval`; the part of `DecidedOnce` that
speaks of one pending decision speaks of those.

### InvoiceImport

`InvoiceImport.tla` models `invoice-import.service.ts`, the invoice endpoints of
`invoices.service.ts` and the callbacks of the ERP and e-invoicing services. An invoice is
named by its unique key (buyer, supplier, number); a line keeps what decides its fate: the
key, the external reference, the terms (amount and due date), whether it is well formed and
approved by the buyer.

| model | code |
|---|---|
| phase parse, one row per step | the loop of `createBatchFromRows` |
| phases row, create, mark | the three statements of `processValidRows` per row; `auditFails` is the catch after the invoice exists |
| phase skip | the second statement of `cancelBatch` |
| phases receive, replay, apply, record | a provider event: stored, read, applied, recorded with its attempts |
| phase update | the reads of an invoice endpoint and its unconditional update |
| phase patch, `update` | `PATCH /invoices/:id`: it writes what it is given, and a new key moves the record and every request that knows it by its id |
| `history` | how often an event was applied and retried; for the properties only |

`"amend"` is a PATCH that gives a key, a reference or terms. It looks for no duplicate and knows no
row, so `RowOwnsItsInvoice`, `NoHiddenDuplicate` and `InvoiceHasItsRow`, three parts of
`RowsAndInvoicesAgree`, leave it out; events, cancellation, settling and the counts of a batch are
checked with it too, and PATCHes of status, validation and duplicate status are in every part.

### Compliance

`Compliance.tla` models `integrations/compliance/compliance.service.ts` and the decision in
`counterparties.service.ts`. It extends `Service` for its requests and scopes. A run walks through query (the provider answers on the
subject as it is then), persist (one check per step), flags and after (the case). What the
providers find is the `profile`; a rename changes it. `latestByType` looks at every check that
names the counterparty, as the code does, `latestOf` at those of one subject. `flags` are the
statuses that belong to one type of check (`kybStatus`, `kycStatus`, `sanctionsStatus` and the like);
`shared` are `screeningStatus` and `complianceReviewStatus`, which a verification and a screening
write over each other: a clean screening takes back the REVIEW_REQUIRED of a failed KYB.
`ClearSpeaksForOneRun` says what such a CLEAR is still worth. `setKybStatus` is the PATCH of the one
status that it may write.

### Products

`Products.tla` models `products.service.ts` for six kinds of record and
`executeProductApproval` of `approvals.service.ts`. A lifecycle action reads, decides,
executes with its impact in one transaction and stores its idempotency key afterwards; an
approval executes without a look at key or status. A gated action ends by asking: its key is kept in
the approval and never stored, so one key may ask for two approvals, both of which are executed;
`KeyAppliedOnce` leaves approvals out. The discount is a function of the
amount given by the configuration, with its rounding, and `addsUp` the cent by which the parts of an
offer may miss its amount. Uses may be negative, as the code takes any number: `WithinFacility` is
the upper bound only. A limit record is looked for by supplier, programme and currency
(`Matching`; a facility without programme finds one of any programme). `"preset"` is a create
with a status that is otherwise reached by an action, which the code accepts and posts nothing for. A removed record leaves `Removed` and its
identifier is not used again. An approval executed on a settled offer makes it ACCEPTED
again, so it can be cancelled and edited; `PostedAsAgreed` therefore speaks of behaviours
without edits, or with neither approvals nor overlapping requests.

### Service, Webhooks, Notifications, Programmes, Documents, Operations; Platform

`Service.tla` holds what these services share: requests in flight, the work nobody waits
for (`Background`), and the *scope*, the operations and faults that occur together in a
behaviour. Each of the five modules models the service of its name:

| module | phases of a request | history |
|---|---|---|
| `Webhooks` | emit; deliver, call, update, log, catch | `calls`, `received` |
| `Notifications` | audit, read, mark, dispatch, store, written | `sent` |
| `Programmes` | setStatus, auditStatus, readAgain, announce; addParticipant | |
| `Documents` | storeFile, recordFile; changeDocument, retypeDocument; auditLink, link, findAgain, auditFile, file | `handedOut` |
| `Operations` | markTested; sumCredits | |

A notification whose channel has no provider (IN_APP, which stands for MOBILE_MONEY and WEBHOOK too) is
answered as sent and nobody takes it; `SentWasDispatched` is about the channels that are dispatched.
The endpoints of `operations.service.ts` write rows of the other services as they are sent:
`operationsDocument` a document of any status without a file, `writeConnection` a connection of any
environment, tested or not, `operationsCreate` and `operationsUpdate` a notification of any
status and channel (a PATCH of notifications does the same). `RecordHasFile`,
`IdentityIsVerified`, `TestedIsSandbox` and `SentWasDispatched` are false of such rows and leave the
behaviours that have them out; the other properties are checked with them. The attempts a PATCH of a
notification may write, and the status DELIVERED, are left out.

`Programmes` extends `Notifications`, because the activation of a programme calls
`createLifecycleEmail`. `Platform.tla` composes all five: they share the requests and stop
together (`crash`).

### Accounts, Permissions, Endpoints, WebSession, PageTables, Pages; Browser

- `Accounts.tla`: `auth.service.ts`, `users.service.ts`, the JWT strategy and
  `assertRateLimit`. A session is a token the server keeps nothing of; reset tokens and
  counted attempts (how many in each second) live in memory and are lost by `restart`.
- `Permissions.tla`: the two alias tables, of the API guard and of the web application, and
  the two ways they are looked up.
- `Endpoints.tla`: one record per controller, a field per handler with the permission it
  requires.
- `WebSession.tla`: one tab: the session storage, what React keeps, the default header, the
  start-up check, login, logout, calls and 401 answers.
- `PageTables.tla`: one definition per page component: the query keys it reads, and for
  each button or form the endpoint's permission, the gate around it, the keys invalidated and
  the page pushed afterwards.
- `Pages.tla`: the pages at work: the cache of react-query, fetches on their way, the form on
  display, the operation under way. A record is its version.
- `Browser.tla` composes them: the same accounts serve the tab and its pages.

### Configurations

`MC*.tla` give the constants their values for TLC. In each module, the operators that a
comment calls a *mutation* are deliberately wrong versions of the definition below them, used
to see that the properties notice; no specification uses them.

## Runs

| run | shows | instance |
|---|---|---|
| `fin_overlap` | `EvidenceLadder`, `EventsAreTruthful`, `PaidMeansCollected`, `CashInMatchesInbound`, `CollectionIsAnnounced` under every overlap while PATCH edits statuses and amounts | one invoice, two requests, three payments |
| `fin_serial` | `BooksAgree` (receivable is outstanding, cash out matches outbound, reconciled once), `FinancedInvoiceProtected`, `ImplementsLifecycle` for clients that do not overlap, with crashes, edits of the net proceeds and PATCHes of invoices that are not financed yet | the same, with the invoice endpoints |
| `pay_overlap` | `LedgerHasRecon`, `ConfirmationIsBooked`, `SuccessWebhookIsBooked` under every overlap | one payment, of a financing or of none, one notification, two requests, both services; 77,252 states |
| `pay_serial` | `MoneyMovesForAReason`, `PostedOnce`, `InitiatedOnce` without overlap, with repeats and with crashes in every phase but `store` | two payments, each of a financing or of none, three notifications, one of them with an HMAC signature; 1.8 million states |
| `pay_double_post` | fails, see [Disagreements](#disagreements) | one payment, one notification, two requests |
| `limits` | `LimitsHold` (reservations match status, nothing beyond a limit, one record per dimension), `NoCircularWait` | three financings, two of one anchor and two of one supplier, two transactions, overlapping or alone, limits the second or third financing breaches |
| `approvals` | `FourEyes`, `ApprovedIsExecuted` under every overlap and crash; `DecidedOnce` on the entity in `Serial`, submitted or created | three approvals (of a payment and of a product), three users, two requests |
| `import` | `RowsAndInvoicesAgree`, `EventsAppliedOnce`, `PickedRowsAreSettled`, `CancelledImportsNothing` | three batches that repeat each other, three events, two requests, PATCHes of every field; 298,663 states |
| `compliance` | `ChecksAreReflected`, `ApprovedOnLatestChecks`, `ReviewIsAssigned` | a company, two owners, five checks, three profiles |
| `products` | `PostingsHold`, `FacilitiesHold`, `LargeNeedsTwoUsers` | one record of each kind and a second facility of no programme, two users, two approvals, a key, negative uses, offers that miss their amount by a cent and by more; 392,160 states |
| `platform` | `DeliveriesHold`, `RecordsHold`, `FinalStaysFinal`, `PromisesAreKept` | two requests, two deliveries to two endpoints, two notifications over four channels of which two have a provider, a programme, two documents, a connection; 275,754 states |
| `browser` | `AccountsHold`, `TabHolds`, `PagesHold` | two users, two tokens, two reset tokens, one tab, one record of each kind of page |

`LimitsHold`, `DecidedOnce`, `RowsAndInvoicesAgree` and the like are conjunctions of named
parts, each with its own comment; what one of them says holds part by part. One type invariant
per module is among them.

## Bounds

The hazards of the handlers are pairwise: one reads, another commits, the first writes. Two
requests in flight give every such pair, and since a request slot is reused, sequences of
any length up to the row bounds follow. One financing (payment, entity, document) suffices
where handlers touch the rows of one only; where they compete (limits), there are three.
Limits hold room for exactly one or two financings, so the last one is refused. Three
payments of a financing allow a double fund followed by a collect, or two collects.

Where a component has many operations, its constant `Scopes` lists sets of operations and
faults; a behaviour takes one set and may use its members in any number and order. Each
set joins what can interfere: a fault with the steps it interrupts, an edit with what was
decided on the record before it. Between them the sets contain every operation, and every
property is checked in all of them. `Without({...})` in a property names the members it
makes no statement about; those are the restrictions the code needs.

Some properties need clients that behave, and a constant says so. `SerialPerFinancing` and
`SerialPerPayment`: two requests on one row do not overlap. `Serial` in Approvals and
InvoiceImport: the entities or batches on which they do not. `"overlap" \notin scope`
elsewhere. `Crashes` in PaymentSettlement: the phases in which a handler may stop; a crash in
phase `store` leaves a provider payment nobody knows of, so a retry makes a second one, and
`InitiatedOnce` excludes that phase. In each case the property does fail without the
restriction.

Counters and rows end at `MaxPayments`, `MaxRows`, `MaxExecutions`, `MaxChecks`, `MaxUses`,
`MaxCalls`, `MaxSends`, `MaxReads`, `MaxWrites`, `MaxTime`, `MaxReloads`, `MaxChanges` and
`MaxRetries` of InvoiceImport; each is one more than the properties allow, so that an excess
would be seen. In the liveness runs they are out of reach of the requests that could wait for
them. `MCBrowser` opens the pages of one kind of record at a time, and changes the record
twice: once before and once after what the page has read.

Deadlock is not checked: a run ends when its rows and bounds are used up. Waiting for each
other in the database is what `NoCircularWait` is about.

## Disagreements

One run is expected to fail: `pay_double_post`. `payment-reconciliation.md:11` says that
repeated verification or duplicate webhooks do not double-post; two overlapping
confirmations both find no entry and both post.

Properties stated in the modules that the code is known to break, in no run:

| property | what happens |
|---|---|
| `PaymentSettlement!CashLeavesOnce` | financing.disburse posts without paymentId, confirm posts again (`payment-lifecycle.md:19`: confirm posts once) |
| `Products!KeyNeverRepeats` | two overlapping requests with one key, or a repeat after a stop, are both applied |
| `Compliance!ApprovedOnOwnChecks` | a clean check of an owner counts as the latest of the company |
| `InvoiceImport!InvalidSignatureIsInert` | a retry applies an event whose signature did not hold |

With the restriction of a run lifted its property fails: a PATCH moves a financed invoice, two
approvals of one payment are both executed, two approvals of one allocation post it twice, a key asks
for two approvals, a document an operator recorded has no file, two overlapping initiations create
two provider payments (against `payment-controls.md:25`), two overlapping accepts exceed the
programme's limit and two first accepts create two records (against
`uat-release-1.md:30`), a reject that read PENDING marks an executed approval, a crash between
execution and mark leads to a second execution, two overlapping sends send a notification twice.

Also met while modelling, and covered by no property:

- `financing.service.ts`: a PATCH to MATURED lets `remove` cancel a disbursed financing
  (against its own refusal at line 200); the exposure snapshot of accept is computed before
  the status is written, so it leaves out the financing it counts at line 1010.
- `payments.service.ts:482`: a confirmed payment that belongs to no financing is reconciled and never
  posted.
- `compliance.service.ts:273`: a clean screening overwrites the review status of a failed KYB.
- `products.service.ts:911`: a negative use takes `utilisedAmount` below zero.
- `payments.service.ts:496`: a confirmation applied late sets the financing back to DISBURSED;
  line 316: a returned payment keeps its postings, and a later confirm posts nothing.
- `sandbox-payment.provider.ts:108` reads the signature itself: a notification with a valid
  HMAC is taken as a failure.
- The web application: after an approval on the invoice list (`workflow-pages.tsx:1671`) only the
  list is fetched again, and the record's form may write the old status back; the product list
  is not fetched again after a lifecycle action; the query cache outlives a logout, so who logs in next
  sees what the last user had loaded, also without the permission to read it, and may change it without
  seeing the change (`mayRead` in `OwnChangeIsShown` and `SavesBuildOnOwnChanges` leaves that out); product
  actions are sent with a fixed idempotency key, so the second action of one kind is answered
  as a duplicate.
- Permissions: the alias tables disagree on `workflow:create`: for the web application
  (`permissions.ts:180`) it stands for `workflow.manage`, for the API (`permissions.ts:192`) it does not, so the
  two roles of the seed that hold it (`seed-auth.ts:321`, `:372`) are offered what is refused, and
  `OfferedIsAllowed` leaves these two names out. The calculation of a product is
  gated by `product.configure` and served for `report.read`; the menus of the dashboard,
  payments, import, documents and notifications do not ask for every permission their pages
  read with.
- `README.md:315` and `docs/security/release-1-security-checklist.md:14` call rate limiting
  deferred; `auth.service.ts` has it.

## Fairness

- `Financing!FairSpec`: weak fairness of `queueWebhookDeliveries` per request: the
  continuation of a handler whose transaction has committed; the event loop runs it. Nothing is
  assumed of clients.
- `PaymentSettlement!FairSpec`: weak fairness of each request's continuation or failure. A
  handler never waits for another one; it goes on or it ends.
- `InvoiceImport!FairSpec`, `Compliance!ComplianceFairSpec`, `Platform!FairSpec`: weak fairness of what
  the process has begun (`Proceed` and the steps of each service); requests, retries and crashes
  are never required to happen.
- `SuccessWebhookIsBooked` has `DeliveredUntilAnswered(w)` as its antecedent: strong fairness of
  a notification's delivery, which is the provider's retry until it gets an answer. It is part
  of the property because it is a promise of the provider, not of this code. Strong, because
  between two attempts the request slots of the model may be taken by others.

LimitReservation needs no fairness: that no transactions wait for each other in a circle is the
invariant `NoCircularWait`. PostgreSQL's own deadlock detection is left out on purpose.

## Proofs

The modules `*Proofs.tla` hold the proofs. They are for any sets of invoices, payments,
users, records and requests, any amounts and any bounds, with and without overlap and
crashes. Besides the assumptions each module declares they assume of the sets of requests
that they are finite.

| theorem | property | argument |
|---|---|---|
| `FinancingProofs!TypeCorrect` | `TypeOK` | one step per action |
| `StatusIsBacked`, `PaidIsCollected`, `EventsAreBacked` | `EvidenceLadder`, `PaidMeansCollected`, `EventsAreTruthful` | the inductive invariant `RecordInv` |
| `PaymentSettlementProofs!TypeCorrect` | `TypeOK` | one step per action |
| `PostingIsReconciled`, `PostingHasAReason` | `LedgerHasRecon`, `MoneyMovesForAReason` | the inductive invariant `PostingInv` |
| `ApprovalsProofs!TypeCorrect` | `TypeOK` | one step per action |
| `MakersNeverCheck`, `MarkedIsExecuted` | `FourEyes`, `ApprovedIsExecuted` | the inductive invariant `CheckerInv` |
| `PlatformProofs!RecordsAreTrue` | `RecordsHold` | `PlatformInv`, one invariant per component |
| `DeliveriesAreTrue` | `DeliveriesHold` | `PlatformInv`, `AtOnceInv` |
| `FinalIsFinal` | `FinalStaysFinal` | `SerialInv` |
| `FinancingProofs!CashInIsBooked` | `CashInMatchesInbound` | inductive with `TypeOK` |
| `MoneyOutKeepsInvoice`, `BooksAreInOrder`, `ImplementsTheLifecycle` | `FinancedInvoiceProtected`, `BooksAgree`, `ImplementsLifecycle` | `SerialInv` of FinancingProofs |
| `PaymentSettlementProofs!PaymentsPostOnce`, `ProviderPaysOnce` | `PostedOnce`, `InitiatedOnce` | `SettledInv`, `CallsInv` |
| `LimitReservationProofs!TypeCorrect`, `WaitingEnds` | `TypeOK`, `NoCircularWait` | `OrderInv` |
| `LimitsAreKept` | `LimitsHold` | `LimitInv` |
| `ProductsProofs!FinalProductsArePosted`, `FacilitiesAreKept` | `PostingsHold`, `FacilitiesHold` | `PostingInv`, `FacilityInv` |
| `LargeProductsNeedTwoUsers` | `LargeNeedsTwoUsers` | `SmallIsWritten` |
| `ApprovalsProofs!DecisionsAreFinal` | `DecidedOnce` | `SerialInv` of that module |
| `InvoiceImportProofs!RowsAndInvoicesAreTrue` | `RowsAndInvoicesAgree` | `OwnInv`, `AgreeInv` |
| `CancelledStaysCancelled` | `CancelledImportsNothing` | `SerialInv` of that module |
| `EventsTakeEffectOnce` | `EventsAppliedOnce` | `EventInv` |
| `ApprovalsProofs!ChecksAreTold` | `ChecksAreReflected` | `ReflectInv`, `FlagsInv` |
| `ApprovalsAreOwn` | `ApprovedOnLatestChecks` | `OwnInv` |
| `PlatformProofs!AccountsStaySound` | `AccountsHold` | `AccountsInv`, `RateInv` |
| `TabStaysSound` | `TabHolds` | `TabInv`, `OwnerInv` |
| `PagesStaySound` | `PagesHold` | `OpenInv`, `HereInv`, `RecordInv` |

None of these properties is inductive: each depends on what a handler in flight has read.

- `RecordInv` adds `SnapshotsAreBacked`: the evidence for the status in a handler's `before` was on
  record when it was read, and records are only added to or completed, so it still is when the
  handler commits; and `OpenIsWhole`: an open obligation owes its whole principal, which ties the
  stale amount collect compares to the principal the property speaks of. The three theorems assume
  `PatchesAreBacked`: status edits claim no more than is on record. Without it an operator can
  write any status. The edits of the runs satisfy it.
- `PostingInv` adds, phase by phase, why a request got where it is: a stored success event with a
  valid signature, a provider payment that succeeds, an operator; reasons never go away.
- `CheckerInv` adds what a request that decides has checked and done: an approver is not the
  requester, and has executed before marking.
- `PlatformInv` has an invariant per component (`DeliveryInv`, `NoteInv`, `ProgrammeInv`,
  `DocumentInv`, `AuditInv`, `OperationInv`), which carries what a request has found or done to
  the moment it is written: a success heard from an endpoint that accepted it, a verified
  document that has its file, an audit entry for every reader that is about to hand a file out
  (a count: audited readings are at least those handed out and those on their way). The
  components share `req`; `Frame(S)` says that a step of one moves requests only within its own
  phases, so it cannot disturb the invariant of another. `SerialInv` adds that where nothing
  overlaps one request is under way, so what it read is still so. `AtOnceInv` counts: every process
  in the background has its own delivery (`OwnDelivery`), so a delivery has one process, which
  carries the calls made to the row that shows them (`Counted`, and `Settled` once it ends), a
  failed log included; and what a provider took is shown as sent or cancelled or about to be
  (`SentInv`). Of a step of another component it needs only that one request moves, and which
  (`Takes`). The type invariant of notifications bounds no attempts: with four sends of one row
  that overlap, a slow one writes an older count back, and the row may be sent more often than
  there are counts between the bound and that count.
- `SerialInv` of FinancingProofs counts how often the money of a financing has moved (funded, paid
  out, collected) and says what its rows and its ledger are after each movement (`Booked`, `Owed`);
  its status is then a stage of that course, a snapshot is still so when its handler commits
  (`Fresh`), and the invoice is FINANCED while the money is out. `ImplementsTheLifecycle` maps every
  action under that invariant to one action of `FinancingLifecycle` or a stutter. Hypotheses:
  `SerialPerFinancing`, `PatchesKeepStage` (a status edit stays at one stage and touches no cancelled
  financing) and, for the books, `AmountPatches = {}`; `FinancedInvoiceProtected` brings its own, `InvoicePatchesSpareFinanced`. The code enforces none of them: two overlapping
  collects book twice, and a PATCH writes what it is sent.
- `SettledInv` adds that what a handler has read of its payment (posted, reconciled, with a
  reference) is still so; `CallsInv` that a provider payment without a stored reference has a handler
  about to store it. They assume `SerialPerPayment`, and `ProviderPaysOnce` also
  that the process does not stop in phase `store`.
- `OrderInv`: the movements a transaction still has to make are ordered by `Rank` (programme,
  anchor, supplier, funders) and come after those it has written, so the one
  that waits for the last record in this order waits for nobody who waits.
- `LimitInv` is about the transaction that *leads*: it has updated the programme's record, holds
  its lock and so alone moves the others until it ends (`Apart`, `Follows`). What it sees of a record is
  what is committed, moved once by each movement it has made (`Right`), and what it is about to write
  it has read since it leads (`Seen`). So a commit moves each record as it moves the sums over the
  financings (`SumsMove`), and a record that had room stays within its limit (`BalanceMoves`). Two
  hypotheses: the programme has a limit, and `RecordsFromTheStart`, the records of configured
  dimensions exist before transactions overlap. Without the first there is no lock to lead by;
  without the second two first accepts create two records.
- `PostingInv` and `FacilityInv` rest on three facts: what a request has read and decided (`Serving`), that
  it is still so when it writes unless requests overlap (`OneAtATime`), and that without
  approvals and overlap a record that was posted has its final status and one posting (`PostingIsLast`).
  `SmallIsWritten`: the gated action a request is about to write without an approval is on a record
  below the threshold.
- `SerialInv` of ApprovalsProofs adds that one request works on the entity, that what it has read
  is still so (POST /approvals leaves every approval there is as it was), and that an execution it has begun is followed by its mark.
- `OwnInv` adds that a request about to mark a row has created the row's invoice and that no other
  row or request claims it: the unique key refused everybody else. `SerialInv` of
  InvoiceImportProofs: of a cancelled batch only the cancellation itself is under way. `AgreeInv`
  is about the batches in `Serial`: one request processes them, the rows it has left are valid, and
  of a row it has validated nothing like it has been imported, because an imported row has its invoice
  and that invoice keeps its reference and terms through every callback and every PATCH that does not
  amend it (`Moves` is what a step that imports nothing may do; with `amend` in the scope the claims
  about invoices fall away and those about counts remain). Its proof needs likeness both ways: `detectDuplicateInvoice`
  looks for numbers that begin as the new one does, up to six characters, so a number shorter than that
  is refused after a longer one but does not stop it. A first version of `NoHiddenDuplicate` that
  took one way for enough was false. `EventInv` counts: applications made and under way are at most the stored event and its retries.
- Compliance shares `Service` with the modules Platform composes; its proofs, about the approval of a
  counterparty, are in `ApprovalsProofs` after those about `Approvals`, which shares no state with it.
  `ReflectInv` says where a run stands: every check it has found and
  not stored yet calls for a review when it fails (`FindingsOf`), as does every stored check nobody
  has decided on. `FlagsInv` is for one request at a time that is not cut short: the latest checks of a subject
  agree with its flags unless the run that stored them has not come to its flags, and then with what
  that run has found, which depends on the type alone; `SharedInv` ties the status they share to the flags of the run that
  wrote it last. `OwnInv` says that without owners
  every check is about the company, so that `latestByType`, which looks at every check that names
  the counterparty, finds the company's own; and that what `approveKyc` has read is still so.
- Browser extends `Service` too; its proofs follow those of Platform in `PlatformProofs`.
  `AccountsInv` says what a request carries of an account: with one at a
  time a login carries the password there is, and of a session signed for another one that it is not
  younger than the change. `RateInv` ties what is remembered of an account to its lookups. Adding an
  attempt adds one to a count of seconds (`CountedIsOneMore`), which is why the model counts per
  second; a window anywhere in the past holds no more than what the limit let pass at its last second.
- `TabInv`: until the check at the start is answered nothing else is under way and no page is open,
  and afterwards React shows what the storage keeps, or nothing is kept. `OwnerInv`: what is stored is the
  user the token was signed for. That the two tables of names agree is a finite fact about them
  (`WebNamesAreKnown`).
- `PagesInv` has the two histories at work: the cache has what was done on the page, or a fetch that
  brings it is under way (`Shows`, in `HereInv` of every key of the page and in `RecordInv` of the
  key of the record itself), and nothing older can arrive any more; without haste an operation and its
  page end together, so the form the next page is filled with comes after it. What the proof needs of the pages
  (`PagesAreTame`) is checked page by page: each operation invalidates what its page reads of the kind
  it is about, unless it removes it and leaves; where an operation leads no form is filled from a
  record (`LandingsAreNoEditors`); a page that edits a record reads that record by its own key
  (`EditorsAreOfTheirKind`); a gate requires what the endpoint does (`GatesAreKept`).

`SumTheorems.tla` has the lemmas about sums over finite sets (`MapThenSumSet`) that the books and the
limits need: adding an element adds its value, parts add up, a subset has no larger sum. The
community modules define the sum by recursion over subsets; the proofs take a smallest subset on
which a statement fails (`SmallestSubset`) and refute it.

Every invariant and action property of the passing runs is stated by one of these theorems. Only
model-checked: the liveness properties `CollectionIsAnnounced`, `ConfirmationIsBooked`,
`SuccessWebhookIsBooked`, `PickedRowsAreSettled`, `ReviewIsAssigned` and `PromisesAreKept`.
Liveness under fairness and ENABLED are out of this prover's reach, as is what a
recursive definition computes.

## Plan

Every component with state the models can hold has its module, and every safety property of a run
its proof. What would come next follows the code: when handlers lock the rows they read, the
hypotheses `SerialPerFinancing`, `SerialPerPayment` and `RecordsFromTheStart` can be dropped from the
theorems, and the properties listed under [Disagreements](#disagreements) proved.

## Not modelled

The components without a module in `PROJECT.json` say why: the pricing, funding and credit
engines (floating-point formulas without state), append-only records nothing reads to decide
(audit and integration logs, except the idempotency keys of products), start-up configuration
and health, deployment. Of the web application: layout and validation, and the pages with local
state only (rates, notification settings, API documentation, scheduled reports, bulk operations,
the detail of an integration log). Inside the modelled components: fees, currencies, dates and
expiry of limit records, the text of messages, registration, invitations and the edits of roles,
`payments.approve` (it stamps `approvedBy`), the generic `update` of payments, and the older
endpoints of `kyc-screening.service.ts`, which write the same checks without a case.
