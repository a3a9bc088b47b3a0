------------------------------ MODULE Financing ------------------------------
(***************************************************************************)
(* The financing lifecycle of apps/api/src/financing/financing.service.ts, *)
(* with the invoice endpoints that move the same invoice rows.              *)
(*                                                                         *)
(* Every endpoint is an asynchronous handler of one Node process.  It reads *)
(* the row it acts on (`before`), checks its guard on that snapshot, and    *)
(* writes later, in one database transaction; other handlers run between   *)
(* the read and the write.  A handler is therefore a request that goes      *)
(* through the phases                                                       *)
(*     idle -> read -> (checked ->) committed -> idle                       *)
(* where "checked" is reached by the handlers that query other tables       *)
(* inside their transaction, and "committed" is followed by the webhook     *)
(* deliveries, which are queued outside it.                                 *)
(*                                                                         *)
(* A transaction takes effect at its commit: the rows it writes are locked  *)
(* until then, so two transactions that write a common row commit in the    *)
(* order of their locks.  The limit rows the same transactions move are     *)
(* read and written statement by statement in module LimitReservation.     *)
(***************************************************************************)
EXTENDS Integers, Sequences, FiniteSetsExt

CONSTANTS
  Invoices,           \* the invoices, each of them financed at most once
  Requests,           \* the HTTP requests that may be in flight together
  Ops,                \* the endpoints the clients of this deployment call
  InvoiceAmount,      \* what the pricing engine returns for each invoice
  NetProceeds,
  ActiveFunders,      \* the active FUNDER participants of the programme
  StatusPatches,      \* <<from, to>>: status edits made through PATCH
  AmountPatches,      \* invoiceAmount and netProceeds written through PATCH
  NetPatches,
  InvoicePatches,     \* <<from, to>>: invoice statuses written through PATCH
  SerialPerFinancing, \* clients never overlap two requests on one financing
  CrashAfterCommit,   \* the process may stop between a commit and its events
  MaxPayments         \* bound: payments per financing

FinancingStatus == {"OFFERED", "ACCEPTED", "FUNDED", "DISBURSED", "MATURED",
                    "COLLECTED", "CLOSED", "DEFAULTED", "CANCELLED"}

\* VALIDATED stands for the statuses an invoice has before its approval.
InvoiceStatus == {"VALIDATED", "APPROVED", "FINANCEABLE", "OFFERED",
                  "FINANCED", "SETTLED", "CANCELLED"}

FinancingOps == {"accept", "fund", "disburse", "collect", "close", "remove"}
InvoiceOps   == {"createOfferFromInvoice", "approveInvoice", "removeInvoice"}

ASSUME FinancingAssumption ==
  /\ Ops \subseteq FinancingOps \cup InvoiceOps
  /\ InvoiceAmount \in [Invoices -> Nat]
  /\ NetProceeds \in [Invoices -> Nat]
  /\ StatusPatches \subseteq FinancingStatus \X FinancingStatus
  /\ AmountPatches \subseteq Nat /\ NetPatches \subseteq Nat
  /\ InvoicePatches \subseteq InvoiceStatus \X InvoiceStatus
  /\ SerialPerFinancing \in BOOLEAN
  /\ CrashAfterCommit \in BOOLEAN
  /\ MaxPayments \in Nat

VARIABLES
  invoice,      \* status of each invoice
  fin,          \* its financing transaction
  payments,     \* the payments of the financing, in creation order
  obligations,  \* its maturity obligations, in creation order
  allocations,  \* how many times it was allocated to the active funders
  ledger,       \* debits and credits posted for it, per account
  events,       \* webhook events queued for it
  req           \* the requests in flight

vars == <<invoice, fin, payments, obligations, allocations, ledger, events, req>>
-----------------------------------------------------------------------------
(* Rows *)

Financing == [status : FinancingStatus \cup {"NONE"}, amount : Nat, net : Nat]
NoFinancing == [status |-> "NONE", amount |-> 0, net |-> 0]

Payment == [direction : {"OUTBOUND", "INBOUND"}, amount : Nat,
            status : {"INITIATED", "CONFIRMED"},
            recon : Nat]            \* reconciliation items of the payment

Obligation == [principal : Nat, outstanding : Nat, status : {"OPEN", "PAID"}]

Accounts == {"1000", "1200", "2100"}   \* cash, receivable, funder payable
Totals == [debit : Nat, credit : Nat]

\* What findOne returns: the row with the relations it includes.
Snapshot == [fin : Financing, invoice : InvoiceStatus,
             obligations : Seq(Obligation)]

Idle == [phase |-> "idle"]
InFlight == [phase : {"read", "checked", "committed"},
             op : FinancingOps \cup InvoiceOps,
             target : Invoices, before : Snapshot, seen : Nat]

TypeOK ==
  /\ invoice \in [Invoices -> InvoiceStatus]
  /\ fin \in [Invoices -> Financing]
  /\ payments \in [Invoices -> Seq(Payment)]
  /\ obligations \in [Invoices -> Seq(Obligation)]
  /\ allocations \in [Invoices -> Nat]
  /\ ledger \in [Invoices -> [Accounts -> Totals]]
  /\ events \in [Invoices -> SUBSET (FinancingOps \cup InvoiceOps)]
  /\ req \in [Requests -> {Idle} \cup InFlight]

Init ==
  /\ invoice \in [Invoices -> {"VALIDATED", "APPROVED"}]
  /\ fin = [i \in Invoices |-> NoFinancing]
  /\ payments = [i \in Invoices |-> <<>>]
  /\ obligations = [i \in Invoices |-> <<>>]
  /\ allocations = [i \in Invoices |-> 0]
  /\ ledger = [i \in Invoices |->
                 [a \in Accounts |-> [debit |-> 0, credit |-> 0]]]
  /\ events = [i \in Invoices |-> {}]
  /\ req = [r \in Requests |-> Idle]
-----------------------------------------------------------------------------
(* Helpers of the handlers *)

OutboundIndices(ps) == {k \in DOMAIN ps : ps[k].direction = "OUTBOUND"}
InboundIndices(ps)  == {k \in DOMAIN ps : ps[k].direction = "INBOUND"}

AmountOf(ps, K) == MapThenSumSet(LAMBDA k : ps[k].amount, K)

\* Mutation: the two sides exchanged.
swappedLedgerEntries(l, debited, credited, amount) ==
  [l EXCEPT ![credited].debit = @ + amount, ![debited].credit = @ + amount]

\* postLedgerEntries: one debit and one credit of the same amount.
postLedgerEntries(l, debited, credited, amount) ==
  [l EXCEPT ![debited].debit = @ + amount, ![credited].credit = @ + amount]

newPayment(direction, amount, status, recon) ==
  [direction |-> direction, amount |-> amount,
   status |-> status, recon |-> recon]

newObligation(amount) ==
  [principal |-> amount, outstanding |-> amount, status |-> "OPEN"]

\* Mutation: the principal subtracted instead of the outstanding amount reset.
reducedObligation(o) ==
  [principal |-> o.principal, outstanding |-> o.outstanding - o.principal,
   status |-> "PAID"]

paidObligation(o) ==
  [principal |-> o.principal, outstanding |-> 0, status |-> "PAID"]

\* Mutations: collect does not wait for disburse; remove takes closed ones.
hastyAllowedFrom == [accept   |-> {"OFFERED"},
                     fund     |-> {"ACCEPTED"},
                     disburse |-> {"FUNDED"},
                     collect  |-> {"FUNDED", "DISBURSED", "MATURED"},
                     close    |-> {"COLLECTED"},
                     remove   |-> FinancingStatus \ {"DISBURSED", "COLLECTED", "CLOSED"}]
reopeningAllowedFrom == [accept   |-> {"OFFERED"},
                         fund     |-> {"ACCEPTED"},
                         disburse |-> {"FUNDED"},
                         collect  |-> {"DISBURSED", "MATURED"},
                         close    |-> {"COLLECTED"},
                         remove   |-> FinancingStatus \ {"DISBURSED", "COLLECTED"}]

\* The statuses from which each handler goes on after reading `before`.
AllowedFrom == [accept   |-> {"OFFERED"},
                fund     |-> {"ACCEPTED"},
                disburse |-> {"FUNDED"},
                collect  |-> {"DISBURSED", "MATURED"},
                close    |-> {"COLLECTED"},
                remove   |-> FinancingStatus \ {"DISBURSED", "COLLECTED", "CLOSED"}]

\* Mutation: a financed invoice may be approved again.
looseInvoiceAllowedFrom ==
  [createOfferFromInvoice |-> {"APPROVED"},
   approveInvoice         |-> InvoiceStatus \ {"CANCELLED"},
   removeInvoice          |-> InvoiceStatus \ {"FINANCED", "SETTLED"}]

InvoiceAllowedFrom ==
  [createOfferFromInvoice |-> {"APPROVED"},
   approveInvoice         |-> InvoiceStatus \ {"CANCELLED", "FINANCED"},
   removeInvoice          |-> InvoiceStatus \ {"FINANCED", "SETTLED"}]

guardHolds(op, b) ==
  \/ /\ op \in FinancingOps
     /\ b.fin.status \in AllowedFrom[op]
     /\ op = "fund" => ActiveFunders # {}
  \/ /\ op \in InvoiceOps
     /\ b.invoice \in InvoiceAllowedFrom[op]

\* Handlers that query other tables inside the transaction before they write.
CheckingOps == {"disburse", "close"}

Busy(i) == \E r \in Requests : req[r] # Idle /\ req[r].target = i

ReadyToCommit(r, op) ==
  /\ req[r] # Idle
  /\ req[r].op = op
  /\ req[r].phase = (IF op \in CheckingOps THEN "checked" ELSE "read")

Committed(r) == req' = [req EXCEPT ![r].phase = "committed"]
-----------------------------------------------------------------------------
(* Reading `before`, and the guard checked on it *)

findOne(r, i, op) ==
  LET b == [fin |-> fin[i], invoice |-> invoice[i], obligations |-> obligations[i]]
  IN /\ req[r] = Idle
     /\ op \in Ops
     /\ SerialPerFinancing => ~Busy(i)
     /\ guardHolds(op, b)
     /\ req' = [req EXCEPT ![r] = [phase |-> "read", op |-> op, target |-> i,
                                   before |-> b, seen |-> 0]]
     /\ UNCHANGED <<invoice, fin, payments, obligations, allocations, ledger, events>>

\* Mutation: the total is not compared with the net proceeds.
checkOutboundExists(r) ==
  /\ req[r] # Idle /\ req[r].op = "disburse" /\ req[r].phase = "read"
  /\ OutboundIndices(payments[req[r].target]) # {}
  /\ req' = [req EXCEPT ![r].phase = "checked",
                        ![r].seen = Len(payments[req[r].target])]
  /\ UNCHANGED <<invoice, fin, payments, obligations, allocations, ledger, events>>

\* disburse reads the outbound payments and compares their total with the
\* net proceeds it read before.
checkOutbound(r) ==
  LET i == req[r].target  out == OutboundIndices(payments[i])
  IN /\ req[r] # Idle /\ req[r].op = "disburse" /\ req[r].phase = "read"
     /\ out # {}
     /\ AmountOf(payments[i], out) = req[r].before.fin.net
     /\ req' = [req EXCEPT ![r].phase = "checked",
                           ![r].seen = Len(payments[i])]
     /\ UNCHANGED <<invoice, fin, payments, obligations, allocations, ledger, events>>

\* close counts the obligations that are still open.
countOpenObligations(r) ==
  LET i == req[r].target
  IN /\ req[r] # Idle /\ req[r].op = "close" /\ req[r].phase = "read"
     /\ \A k \in DOMAIN obligations[i] : obligations[i][k].status # "OPEN"
     /\ req' = [req EXCEPT ![r].phase = "checked"]
     /\ UNCHANGED <<invoice, fin, payments, obligations, allocations, ledger, events>>
-----------------------------------------------------------------------------
(* The transactions *)

\* invoiceId is unique: a second offer for an invoice violates the index and
\* its transaction can only be abandoned.
createOfferFromInvoice(r) ==
  LET i == req[r].target
  IN /\ ReadyToCommit(r, "createOfferFromInvoice")
     /\ fin[i] = NoFinancing
     /\ fin' = [fin EXCEPT ![i] = [status |-> "OFFERED",
                                   amount |-> InvoiceAmount[i],
                                   net |-> NetProceeds[i]]]
     /\ invoice' = [invoice EXCEPT ![i] = "OFFERED"]
     /\ Committed(r)
     /\ UNCHANGED <<payments, obligations, allocations, ledger, events>>

accept(r) ==
  LET i == req[r].target
  IN /\ ReadyToCommit(r, "accept")
     /\ fin' = [fin EXCEPT ![i].status = "ACCEPTED"]
     /\ invoice' = [invoice EXCEPT ![i] = "FINANCEABLE"]
     /\ Committed(r)
     /\ UNCHANGED <<payments, obligations, allocations, ledger, events>>

fund(r) ==
  LET i == req[r].target  b == req[r].before.fin
  IN /\ ReadyToCommit(r, "fund")
     /\ Len(payments[i]) < MaxPayments
     /\ allocations' = [allocations EXCEPT ![i] = @ + 1]
     /\ obligations' = [obligations EXCEPT ![i] = Append(@, newObligation(b.amount))]
     /\ payments' = [payments EXCEPT
                       ![i] = Append(@, newPayment("OUTBOUND", b.net, "INITIATED", 0))]
     /\ ledger' = [ledger EXCEPT ![i] = postLedgerEntries(@, "1200", "2100", b.amount)]
     /\ fin' = [fin EXCEPT ![i].status = "FUNDED"]
     /\ Committed(r)
     /\ UNCHANGED <<invoice, events>>

\* Mutation: the last payment read gets no reconciliation item.
confirmOutboundButLast(ps, seen, n) ==
  [k \in DOMAIN ps |->
     IF ps[k].direction = "OUTBOUND" /\ k <= n
     THEN newPayment("OUTBOUND", ps[k].amount, "CONFIRMED",
                     IF k < seen THEN ps[k].recon + 1 ELSE ps[k].recon)
     ELSE ps[k]]

\* updateMany confirms the outbound payments that exist when it runs, here the
\* first n; the reconciliation items are created for the payments that
\* checkOutbound saw.
confirmOutbound(ps, seen, n) ==
  [k \in DOMAIN ps |->
     IF ps[k].direction = "OUTBOUND" /\ k <= n
     THEN newPayment("OUTBOUND", ps[k].amount, "CONFIRMED",
                     IF k <= seen THEN ps[k].recon + 1 ELSE ps[k].recon)
     ELSE ps[k]]

\* A fund that commits between the updateMany and the commit adds a payment
\* the updateMany has missed.
disburse(r) ==
  LET i == req[r].target
  IN /\ ReadyToCommit(r, "disburse")
     /\ \E n \in req[r].seen .. Len(payments[i]) :
          payments' = [payments EXCEPT ![i] = confirmOutbound(@, req[r].seen, n)]
     /\ invoice' = [invoice EXCEPT ![i] = "FINANCED"]
     /\ ledger' = [ledger EXCEPT
                     ![i] = postLedgerEntries(@, "2100", "1000", req[r].before.fin.net)]
     /\ fin' = [fin EXCEPT ![i].status = "DISBURSED"]
     /\ Committed(r)
     /\ UNCHANGED <<obligations, allocations, events>>

\* Mutation: any amount is accepted.
collectionUnchecked(b, k) == TRUE

\* The guard of collect inside its transaction: the amount read before covers
\* the outstanding amount of the obligation read before.
collectionCovers(b, k) == b.fin.amount >= b.obligations[k].outstanding

\* Mutation: the obligation is left open.
settleNothing(obs, k) == obs

settle(obs, k) == [obs EXCEPT ![k] = paidObligation(@)]

\* collect settles the first obligation of `before`; the query that read them
\* orders them in no way, so that may be any of them.
settlements(obs, b) ==
  IF b.obligations = <<>> THEN {obs}
  ELSE {settle(obs, k) : k \in {k \in DOMAIN b.obligations : collectionCovers(b, k)}}

collect(r) ==
  LET i == req[r].target  b == req[r].before
  IN /\ ReadyToCommit(r, "collect")
     /\ Len(payments[i]) < MaxPayments
     /\ payments' = [payments EXCEPT
                       ![i] = Append(@, newPayment("INBOUND", b.fin.amount, "CONFIRMED", 1))]
     /\ \E obs \in settlements(obligations[i], b) :
          obligations' = [obligations EXCEPT ![i] = obs]
     /\ invoice' = [invoice EXCEPT ![i] = "SETTLED"]
     /\ ledger' = [ledger EXCEPT
                     ![i] = postLedgerEntries(@, "1000", "1200", b.fin.amount)]
     /\ fin' = [fin EXCEPT ![i].status = "COLLECTED"]
     /\ Committed(r)
     /\ UNCHANGED <<allocations, events>>

close(r) ==
  LET i == req[r].target
  IN /\ ReadyToCommit(r, "close")
     /\ fin' = [fin EXCEPT ![i].status = "CLOSED"]
     /\ Committed(r)
     /\ UNCHANGED <<invoice, payments, obligations, allocations, ledger, events>>

remove(r) ==
  LET i == req[r].target
  IN /\ ReadyToCommit(r, "remove")
     /\ invoice' = [invoice EXCEPT ![i] = "APPROVED"]
     /\ fin' = [fin EXCEPT ![i].status = "CANCELLED"]
     /\ Committed(r)
     /\ UNCHANGED <<payments, obligations, allocations, ledger, events>>

approveInvoice(r) ==
  /\ ReadyToCommit(r, "approveInvoice")
  /\ invoice' = [invoice EXCEPT ![req[r].target] = "APPROVED"]
  /\ Committed(r)
  /\ UNCHANGED <<fin, payments, obligations, allocations, ledger, events>>

removeInvoice(r) ==
  /\ ReadyToCommit(r, "removeInvoice")
  /\ invoice' = [invoice EXCEPT ![req[r].target] = "CANCELLED"]
  /\ Committed(r)
  /\ UNCHANGED <<fin, payments, obligations, allocations, ledger, events>>
-----------------------------------------------------------------------------
(* PATCH /financing/:id writes whatever fields the body carries, in one       *)
(* statement; this deployment's operators send the edits of the constants.    *)

update(i) ==
  /\ fin[i] # NoFinancing
  /\ SerialPerFinancing => ~Busy(i)
  /\ \/ \E p \in StatusPatches :
          fin[i].status = p[1] /\ fin' = [fin EXCEPT ![i].status = p[2]]
     \/ \E a \in AmountPatches : fin' = [fin EXCEPT ![i].amount = a]
     \/ \E a \in NetPatches : fin' = [fin EXCEPT ![i].net = a]
  /\ UNCHANGED <<invoice, payments, obligations, allocations, ledger, events, req>>

\* PATCH /invoices/:id writes a status over any other, without a look at the
\* financing; what it writes of the amounts is in InvoiceAmount.
updateInvoice(i) ==
  /\ SerialPerFinancing => ~Busy(i)
  /\ \E p \in InvoicePatches :
       invoice[i] = p[1] /\ invoice' = [invoice EXCEPT ![i] = p[2]]
  /\ UNCHANGED <<fin, payments, obligations, allocations, ledger, events, req>>

\* Mutation: collect queues no event.
fewerEventOps == {"createOfferFromInvoice", "accept", "fund", "disburse",
                  "approveInvoice"}

\* Events each handler queues once its transaction has committed.
EventOps == {"createOfferFromInvoice", "accept", "fund", "disburse", "collect",
             "approveInvoice"}

\* Mutation: the event is queued while the transaction is still open.
queueBeforeCommit(r) ==
  /\ req[r] # Idle
  /\ events' = [events EXCEPT
                  ![req[r].target] = @ \cup ({req[r].op} \cap EventOps)]
  /\ req' = [req EXCEPT ![r] = IF @.phase = "committed" THEN Idle ELSE @]
  /\ UNCHANGED <<invoice, fin, payments, obligations, allocations, ledger>>

queueWebhookDeliveries(r) ==
  /\ req[r].phase = "committed"
  /\ events' = [events EXCEPT
                  ![req[r].target] = @ \cup ({req[r].op} \cap EventOps)]
  /\ req' = [req EXCEPT ![r] = Idle]
  /\ UNCHANGED <<invoice, fin, payments, obligations, allocations, ledger>>

\* The request ends without any further effect: its transaction is rolled
\* back (a guard inside it fails, a unique index, a deadlock victim) or the
\* process stops.
abandon(r) ==
  /\ req[r] # Idle
  /\ req[r].phase = "committed" => CrashAfterCommit
  /\ req' = [req EXCEPT ![r] = Idle]
  /\ UNCHANGED <<invoice, fin, payments, obligations, allocations, ledger, events>>

Commit(r) ==
  \/ createOfferFromInvoice(r) \/ accept(r) \/ fund(r) \/ disburse(r)
  \/ collect(r) \/ close(r) \/ remove(r) \/ approveInvoice(r) \/ removeInvoice(r)

Next ==
  \/ \E r \in Requests :
       \/ \E i \in Invoices, op \in Ops : findOne(r, i, op)
       \/ checkOutbound(r) \/ countOpenObligations(r)
       \/ Commit(r)
       \/ queueWebhookDeliveries(r) \/ abandon(r)
  \/ \E i \in Invoices : update(i) \/ updateInvoice(i)

Spec == Init /\ [][Next]_vars

\* A continuation that is ready to run is run by the event loop.
FairSpec == Spec /\ \A r \in Requests : WF_vars(queueWebhookDeliveries(r))
-----------------------------------------------------------------------------
(* Properties that hold however the requests overlap *)

\* How far the money must have moved before a status is reached.
Level == [s \in FinancingStatus \cup {"NONE"} |->
            CASE s \in {"COLLECTED", "CLOSED"} -> 3
              [] s \in {"DISBURSED", "MATURED", "DEFAULTED"} -> 2
              [] s = "FUNDED" -> 1
              [] OTHER -> 0]

Funded(i) == obligations[i] # <<>> /\ OutboundIndices(payments[i]) # {}
PaidOut(i) == \E k \in OutboundIndices(payments[i]) : payments[i][k].status = "CONFIRMED"
Collected(i) == InboundIndices(payments[i]) # {}

Evidence(i, level) ==
  /\ level >= 1 => Funded(i)
  /\ level >= 2 => PaidOut(i)
  /\ level >= 3 => Collected(i)

\* However handlers with a stale `before` interleave, no financing shows a
\* status whose money movements are not on record: FUNDED and beyond have an
\* obligation and an outbound payment, DISBURSED and beyond a confirmed one,
\* COLLECTED and CLOSED an inbound payment.
EvidenceLadder == \A i \in Invoices : Evidence(i, Level[fin[i].status])

\* collect compares amounts it read before its transaction, and PATCH may edit
\* them meanwhile; still an obligation is PAID only if some inbound payment
\* covers its whole principal.
PaidMeansCollected ==
  \A i \in Invoices : \A k \in DOMAIN obligations[i] :
    obligations[i][k].status = "PAID" =>
      \E p \in InboundIndices(payments[i]) :
        payments[i][p].amount >= obligations[i][k].principal

\* Every cash debit of a financing is an inbound payment of the same amount:
\* overlapping collections may take the money twice, but never book it
\* without a payment or record a payment without booking it.
CashInMatchesInbound ==
  \A i \in Invoices :
    ledger[i]["1000"].debit = AmountOf(payments[i], InboundIndices(payments[i]))

\* An event announces only what has been recorded: events are queued after
\* the commit, so a subscriber never hears of a disbursement or a collection
\* that was rolled back.
EventsAreTruthful ==
  \A i \in Invoices :
    /\ "fund" \in events[i] => Funded(i)
    /\ "disburse" \in events[i] => PaidOut(i)
    /\ "collect" \in events[i] => Collected(i)

\* The strengthening that makes EvidenceLadder, PaidMeansCollected and
\* EventsAreTruthful inductive: a handler acts on a snapshot whose evidence was
\* on record when it was taken, and records are only ever added to or completed.
SnapshotsAreBacked ==
  \A r \in Requests : req[r] # Idle =>
    LET i == req[r].target  b == req[r].before
    IN /\ req[r].op \in FinancingOps =>
            /\ b.fin.status \in AllowedFrom[req[r].op]
            /\ Evidence(i, Level[b.fin.status])
       /\ req[r].op = "disburse" /\ req[r].phase = "checked" =>
            \E k \in OutboundIndices(payments[i]) : k <= req[r].seen
       /\ req[r].phase = "committed" =>
            /\ req[r].op = "fund" => Funded(i)
            /\ req[r].op = "disburse" => PaidOut(i)
            /\ req[r].op = "collect" => Collected(i)
       /\ \A k \in DOMAIN b.obligations :
            /\ k \in DOMAIN obligations[i]
            /\ obligations[i][k].principal = b.obligations[k].principal
            /\ \/ b.obligations[k].outstanding = b.obligations[k].principal
               \/ obligations[i][k].status = "PAID"

OpenIsWhole ==
  \A i \in Invoices : \A k \in DOMAIN obligations[i] :
    obligations[i][k].status = "OPEN" =>
      obligations[i][k].outstanding = obligations[i][k].principal

RecordInv == /\ EvidenceLadder /\ PaidMeansCollected /\ EventsAreTruthful
             /\ SnapshotsAreBacked /\ OpenIsWhole

\* Status edits that claim no more than is on record.
PatchesAreBacked == \A p \in StatusPatches : Level[p[2]] <= Level[p[1]]

\* Unless the process stops in between, a collection is announced: the only
\* thing between the commit and the queued event is the handler's own
\* continuation.
CollectionIsAnnounced ==
  \A i \in Invoices : fin[i].status = "COLLECTED" ~> "collect" \in events[i]
-----------------------------------------------------------------------------
(* Properties of deployments whose clients do not overlap two requests on     *)
(* one financing; nothing in the handlers enforces that.                      *)

balance(i, a) == ledger[i][a].debit - ledger[i][a].credit

\* The receivable account of a financing is the sum of what its obligations
\* leave outstanding, through funding, collection and cancellation.
ReceivableIsOutstanding ==
  \A i \in Invoices :
    balance(i, "1200") =
      MapThenSumSet(LAMBDA k : obligations[i][k].outstanding, DOMAIN obligations[i])

\* Cash booked out of a financing is the total of its confirmed outbound
\* payments, even when PATCH edits netProceeds between funding and
\* disbursement: disburse compares the two before it posts.
CashOutMatchesOutbound ==
  \A i \in Invoices :
    ledger[i]["1000"].credit =
      AmountOf(payments[i], {k \in OutboundIndices(payments[i]) :
                               payments[i][k].status = "CONFIRMED"})

\* Each confirmed payment has exactly one reconciliation item, each payment
\* not confirmed has none: disburse creates the items without looking.
ReconciledOnce ==
  \A i \in Invoices : \A k \in DOMAIN payments[i] :
    payments[i][k].recon = (IF payments[i][k].status = "CONFIRMED" THEN 1 ELSE 0)

\* The books of a financing agree with its rows after every handler, also after
\* one that was refused half-way, stopped after its commit, or ran while PATCH
\* edited the net proceeds.
BooksAgree == ReceivableIsOutstanding /\ CashOutMatchesOutbound /\ ReconciledOnce

\* Status edits of invoices that leave a financed one alone.
InvoicePatchesSpareFinanced == \A p \in InvoicePatches : p[1] = "FINANCED" => p[2] = "FINANCED"

\* While money is out, the invoice is FINANCED, whatever was written to it before
\* the disbursement by operators and the other endpoints: none but PATCH, which
\* writes any status over FINANCED, approves it for another offer or cancels it.
FinancedInvoiceProtected ==
  InvoicePatchesSpareFinanced =>
    \A i \in Invoices :
      fin[i].status \in {"DISBURSED", "MATURED", "DEFAULTED"} => invoice[i] = "FINANCED"

\* The handlers implement the abstract lifecycle: the cash paid out and
\* received are what the ledger's cash account shows.
Lifecycle == INSTANCE FinancingLifecycle WITH
  Edits <- StatusPatches,
  stage <- [i \in Invoices |-> fin[i].status],
  paidOut <- [i \in Invoices |-> ledger[i]["1000"].credit],
  received <- [i \in Invoices |-> ledger[i]["1000"].debit]

ImplementsLifecycle == Lifecycle!Spec
=============================================================================
