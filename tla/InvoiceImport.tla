---------------------------- MODULE InvoiceImport ----------------------------
(***************************************************************************)
(* How invoices enter the system and are approved, as                      *)
(* apps/api/src/invoices/invoice-import.service.ts, invoices.service.ts and *)
(* integrations/erp/erp.service.ts do it: batches of lines are parsed into *)
(* rows, the valid rows are turned into invoices, and ERP and e-invoicing  *)
(* providers call back with approvals, results and further invoices.       *)
(*                                                                         *)
(* Nothing here runs in a transaction.  Every database write is one action, *)
(* with the reads before it; requests interleave between them and may be   *)
(* cut short.  The database enforces two unique keys: buyer, supplier and  *)
(* number of an invoice, and eventReference of a provider event.           *)
(*                                                                         *)
(* An invoice is named by its unique key.  A line is what is left of an    *)
(* imported row once its text is normalised: the key, the external         *)
(* reference, the terms (amount and due date), and whether what is required *)
(* of it is there.                                                         *)
(***************************************************************************)
EXTENDS Integers, FiniteSetsExt, Sequences

CONSTANTS
  Requests, Invoices, Batches, Events,
  Lines,        \* of each batch: [invoice, reference, terms, wellFormed, buyerApproved]
  NoReference,  \* the reference of a line without one
  Terms,        \* an amount and a due date
  Similar,      \* pairs of one supplier: the number of the second begins as the first
  Entered,      \* the reference and the terms each invoice has when entered by hand
  Patches,      \* what a PATCH may give, Keep for a field it leaves out
  Keep,
  SupplierOf,   \* of each invoice
  Suppliers,
  SentBy,       \* the event whose callback carries a batch, or "upload"
  Callback,     \* of each event: [invoice, result], result "invoices" for a batch
  ErpApproves,  \* invoices that the ERP confirms as approved
  TaxResult,    \* what the e-invoicing provider answers for each invoice
  Serial,       \* batches whose requests, taken together, do not overlap
  Scopes,       \* bound: the operations and callbacks that occur together
  MaxAttempts,  \* PROVIDER_WEBHOOK_MAX_RETRIES
  MaxRetries    \* bound: retries of each event that an operator asks for

RowStatus == {"VALID", "INVALID", "DUPLICATE", "IMPORTED", "FAILED", "SKIPPED"}
BatchStatus == {"PROCESSING", "COMPLETED", "COMPLETED_WITH_ERRORS", "CANCELLED"}
InvoiceStatus == {"RECEIVED", "APPROVED", "FINANCED", "SETTLED", "CANCELLED"}
EventStatus == {"PENDING", "RETRYING", "PROCESSED", "FAILED"}
Validation == {"PENDING", "PASSED", "EINVOICING_VALIDATED", "EINVOICING_EXCEPTION"}
Duplicate == {"CLEAR", "DUPLICATE", "PENDING"}
InvoiceOps == {"create", "approve", "remove", "confirmBuyerApproval",
               "runEInvoicingValidation", "runDuplicateCheck", "validateInvoice"}
\* "update" is a PATCH, "amend" one that gives a key, a reference or terms.
Operations == InvoiceOps \cup {"update", "amend", "upload", "process", "cancel", "retry",
                              "finance", "crash", "auditFailure"}
References == {NoReference} \cup Invoices
Patch == [invoice : Invoices \cup {Keep}, reference : References \cup {Keep},
          terms : Terms \cup {Keep}, status : InvoiceStatus \cup {Keep},
          validation : Validation \cup {Keep}, duplicate : Duplicate \cup {Keep}]

NoEvent == "upload"

ASSUME ImportAssumption ==
  /\ IsFiniteSet(Requests)
  /\ NoEvent \notin Events /\ "manual" \notin Batches
  /\ Lines \in [Batches -> Seq([invoice : Invoices, reference : References, terms : Terms,
                               wellFormed : BOOLEAN, buyerApproved : BOOLEAN])]
  /\ Entered \in [Invoices -> [reference : References, terms : Terms]]
  /\ Patches \subseteq Patch
  /\ Similar \subseteq Invoices \X Invoices
  /\ SupplierOf \in [Invoices -> Suppliers]
  /\ SentBy \in [Batches -> Events \cup {NoEvent}]
  /\ ErpApproves \subseteq Invoices
  /\ TaxResult \in [Invoices -> {"VALIDATED", "FAILED", "REFERRED"}]
  /\ Serial \subseteq Batches
  /\ \A e \in Events : Callback[e].result = "invoices" =>
       Cardinality({b \in Batches : SentBy[b] = e}) = MaxRetries[e] + 1
  /\ Scopes \subseteq SUBSET (Operations \cup Events)
  /\ MaxAttempts \in Nat \ {0} /\ MaxRetries \in [Events -> Nat]

VARIABLES
  invoice,  \* by key: [status, reference, terms, batch, validation, duplicate]
  batch,    \* [status, importedRows]
  row,      \* the status of each row of each batch
  event,    \* ProviderWebhookEvent: [status, attempts, signatureValid]
  active,   \* the suppliers that are active participants of the programme
  history,  \* of each event: how often it was applied and retried
  req,      \* the requests in progress
  scope     \* the operations that occur, chosen once

vars == <<invoice, batch, row, event, active, history, req, scope>>

Idle == [phase |-> "idle"]
Absent == [status |-> "none"]

Invoice == [status : InvoiceStatus, reference : References, terms : Terms,
            batch : Batches \cup {"manual"}, validation : Validation, duplicate : Duplicate]
Batch == [status : BatchStatus, importedRows : Nat]
Event == [status : EventStatus, attempts : Nat, signatureValid : BOOLEAN]
RowsOf(b) == DOMAIN Lines[b]

BatchPhases == {"parse", "row", "create", "mark", "skip"}
InProgress ==
  [phase : BatchPhases, batch : Batches, event : Events \cup {NoEvent}, attempts : Nat,
   todo : SUBSET Nat, imported : Nat, failed : Nat]
  \cup [phase : {"receive"}, event : Events, signed : BOOLEAN]
  \cup [phase : {"replay"}, event : Events]
  \cup [phase : {"apply"}, event : Events, attempts : Nat]
  \cup [phase : {"record"}, event : Events, attempts : Nat, ok : BOOLEAN]
  \cup [phase : {"update"}, op : InvoiceOps, invoice : Invoices,
        seen : InvoiceStatus \cup {"none"}, duplicate : BOOLEAN]
  \cup [phase : {"patch"}, invoice : Invoices, patch : Patches]

TypeOK ==
  /\ invoice \in [Invoices -> Invoice \cup {Absent}]
  /\ batch \in [Batches -> Batch \cup {Absent}]
  /\ \A b \in Batches : row[b] \in [RowsOf(b) -> RowStatus \cup {"none"}]
  /\ event \in [Events -> Event \cup {Absent}]
  /\ active \subseteq Suppliers
  /\ history \in [Events -> [applied : Nat, retried : Nat]]
  /\ req \in [Requests -> {Idle} \cup InProgress]
  /\ scope \in Scopes

Init ==
  /\ invoice = [i \in Invoices |-> Absent]
  /\ batch = [b \in Batches |-> Absent]
  /\ row = [b \in Batches |-> [k \in RowsOf(b) |-> "none"]]
  /\ event = [e \in Events |-> Absent]
  /\ active \in {Suppliers, {}}
  /\ history = [e \in Events |-> [applied |-> 0, retried |-> 0]]
  /\ req = [r \in Requests |-> Idle]
  /\ scope \in Scopes

at(r, phase) == req[r].phase = phase
become(r, state) == req' = [req EXCEPT ![r] = state]
Stored == {i \in Invoices : invoice[i] # Absent}
-----------------------------------------------------------------------------
(* Validation *)

\* Mutation: only the unique key is looked up.
duplicatesByKey(line) == {line.invoice} \cap Stored

withReference(reference) ==
  {d \in Stored : reference # NoReference /\ invoice[d].reference = reference}

\* The invoices detectDuplicateInvoice finds for a line.
detectDuplicateInvoice(line) ==
  withReference(line.reference) \cup
  {d \in Stored : \/ d = line.invoice
                  \/ <<line.invoice, d>> \in Similar /\ invoice[d].terms = line.terms}

validateImportRow(line) ==
  IF detectDuplicateInvoice(line) # {} THEN "DUPLICATE"
  ELSE IF /\ line.wellFormed /\ line.buyerApproved
          /\ SupplierOf[line.invoice] \in active
       THEN "VALID" ELSE "INVALID"

\* The manager of the programme adds a participant; none is taken away.
addParticipant(s) ==
  /\ s \notin active
  /\ active' = active \cup {s}
  /\ UNCHANGED <<invoice, batch, row, event, history, req, scope>>
-----------------------------------------------------------------------------
(* Batches *)

OnBatch(r, b) == req[r].phase \in BatchPhases /\ req[r].batch = b

\* A client waits for what it asked on one of the serial batches.
free(b) == b \in Serial => ~\E r \in Requests, c \in Serial : OnBatch(r, c)

working(phase, b, e, attempts, todo) ==
  [phase |-> phase, batch |-> b, event |-> e, attempts |-> attempts, todo |-> todo,
   imported |-> 0, failed |-> 0]

\* The rows of a batch with one of some statuses; they are taken by number.
SelectRows(b, statuses) == {k \in RowsOf(b) : row[b][k] \in statuses}

\* createBatchFromRows, up to the creation of the batch.
createBatch(r, b, e, attempts) ==
  /\ batch[b] = Absent /\ SentBy[b] = e
  /\ batch' = [batch EXCEPT ![b] = [status |-> "PROCESSING", importedRows |-> 0]]
  /\ become(r, working("parse", b, e, attempts, RowsOf(b)))

\* parseCsvImport, parseExcelImport, importFromApi, importFromErp
upload(r, b) ==
  /\ "upload" \in scope /\ req[r] = Idle /\ free(b)
  /\ createBatch(r, b, NoEvent, 0)
  /\ UNCHANGED <<invoice, row, event, active, history, scope>>

\* One round of the loop of createBatchFromRows.
parseRow(r) ==
  LET b == req[r].batch  k == Min(req[r].todo)  status == validateImportRow(Lines[b][k])
  IN /\ at(r, "parse") /\ req[r].todo # {}
     /\ row' = [row EXCEPT ![b][k] = status]
     /\ become(r, [req[r] EXCEPT !.todo = @ \ {k},
                                 !.failed = IF status = "VALID" THEN @ ELSE @ + 1])
     /\ UNCHANGED <<invoice, batch, event, active, history, scope>>

outcome(n) == IF n > 0 THEN "COMPLETED_WITH_ERRORS" ELSE "COMPLETED"

\* The end of createBatchFromRows; a callback goes on to its event.
parsed(r) ==
  LET b == req[r].batch  e == req[r].event
  IN /\ at(r, "parse") /\ req[r].todo = {}
     /\ batch' = [batch EXCEPT ![b].status = outcome(req[r].failed)]
     /\ become(r, IF e = NoEvent THEN Idle
                  ELSE [phase |-> "record", event |-> e, attempts |-> req[r].attempts,
                        ok |-> TRUE])
     /\ history' = IF e = NoEvent THEN history ELSE [history EXCEPT ![e].applied = @ + 1]
     /\ UNCHANGED <<invoice, row, event, active, scope>>

\* Mutation: a cancelled batch may be processed.
processAnyBatch(r, b) ==
  /\ "process" \in scope /\ req[r] = Idle /\ free(b) /\ batch[b] # Absent
  /\ become(r, working("row", b, NoEvent, 0,
                       SelectRows(b, {"VALID", "SKIPPED"})))
  /\ UNCHANGED <<invoice, batch, row, event, active, history, scope>>

processValidRows(r, b) ==
  /\ "process" \in scope /\ req[r] = Idle /\ free(b)
  /\ batch[b] # Absent /\ batch[b].status # "CANCELLED"
  /\ become(r, working("row", b, NoEvent, 0, SelectRows(b, {"VALID"})))
  /\ UNCHANGED <<invoice, batch, row, event, active, history, scope>>

nextRow(state) == [state EXCEPT !.phase = "row", !.todo = @ \ {Min(@)}]

\* Mutation: a row that fails counts as imported too.
attemptedRow(state) == [nextRow(state) EXCEPT !.failed = @ + 1, !.imported = @ + 1]

failedRow(state) == [nextRow(state) EXCEPT !.failed = @ + 1]

\* A row is validated again before its invoice is created.
validateAgain(r) ==
  LET b == req[r].batch  k == Min(req[r].todo)  status == validateImportRow(Lines[b][k])
  IN /\ at(r, "row") /\ req[r].todo # {}
     /\ IF status = "VALID"
        THEN become(r, [req[r] EXCEPT !.phase = "create"]) /\ UNCHANGED row
        ELSE become(r, failedRow(req[r])) /\ row' = [row EXCEPT ![b][k] = status]
     /\ UNCHANGED <<invoice, batch, event, active, history, scope>>

invoiceCreateData(line, b) ==
  [status |-> IF line.buyerApproved THEN "APPROVED" ELSE "RECEIVED",
   reference |-> line.reference, terms |-> line.terms, batch |-> b,
   validation |-> "PASSED", duplicate |-> "CLEAR"]

\* Mutation: the invoice of a row replaces the one with its key.
upsertInvoice(r) ==
  LET b == req[r].batch  k == Min(req[r].todo)
  IN /\ at(r, "create")
     /\ invoice' = [invoice EXCEPT ![Lines[b][k].invoice] = invoiceCreateData(Lines[b][k], b)]
     /\ become(r, [req[r] EXCEPT !.phase = "mark"])
     /\ UNCHANGED <<batch, row, event, active, history, scope>>

\* The unique key refuses a second invoice, and the row is marked as failed.
createInvoice(r) ==
  LET b == req[r].batch  k == Min(req[r].todo)  line == Lines[b][k]
  IN /\ at(r, "create")
     /\ IF invoice[line.invoice] = Absent
        THEN /\ invoice' = [invoice EXCEPT ![line.invoice] = invoiceCreateData(line, b)]
             /\ become(r, [req[r] EXCEPT !.phase = "mark"])
             /\ UNCHANGED row
        ELSE /\ row' = [row EXCEPT ![b][k] = "FAILED"]
             /\ become(r, failedRow(req[r]))
             /\ UNCHANGED invoice
     /\ UNCHANGED <<batch, event, active, history, scope>>

\* Mutation: the row keeps its status.
leaveRow(r) ==
  /\ at(r, "mark")
  /\ become(r, [nextRow(req[r]) EXCEPT !.imported = @ + 1])
  /\ UNCHANGED <<invoice, batch, row, event, active, history, scope>>

markImported(r) ==
  /\ at(r, "mark")
  /\ row' = [row EXCEPT ![req[r].batch][Min(req[r].todo)] = "IMPORTED"]
  /\ become(r, [nextRow(req[r]) EXCEPT !.imported = @ + 1])
  /\ UNCHANGED <<invoice, batch, event, active, history, scope>>

\* The audit entry of the new invoice cannot be written: the row, imported by
\* now, is marked once more.
auditFails(r) ==
  /\ "auditFailure" \in scope /\ at(r, "mark")
  /\ row' = [row EXCEPT ![req[r].batch][Min(req[r].todo)] = "FAILED"]
  /\ become(r, [failedRow(req[r]) EXCEPT !.imported = @ + 1])
  /\ UNCHANGED <<invoice, batch, event, active, history, scope>>

\* The last update replaces what refreshBatchCounts counted by what this
\* request did.
processed(r) ==
  LET b == req[r].batch
  IN /\ at(r, "row") /\ req[r].todo = {}
     /\ batch' = [batch EXCEPT ![b] = [status |-> outcome(req[r].failed),
                                       importedRows |-> req[r].imported]]
     /\ become(r, Idle)
     /\ UNCHANGED <<invoice, row, event, active, history, scope>>

cancelBatch(r, b) ==
  /\ "cancel" \in scope /\ req[r] = Idle /\ free(b) /\ batch[b] # Absent
  /\ batch' = [batch EXCEPT ![b].status = "CANCELLED"]
  /\ become(r, working("skip", b, NoEvent, 0, {}))
  /\ UNCHANGED <<invoice, row, event, active, history, scope>>

skipRows(r) ==
  LET b == req[r].batch
  IN /\ at(r, "skip")
     /\ row' = [row EXCEPT ![b] = [k \in RowsOf(b) |->
                                     IF @[k] = "VALID" THEN "SKIPPED" ELSE @[k]]]
     /\ become(r, Idle)
     /\ UNCHANGED <<invoice, batch, event, active, history, scope>>
-----------------------------------------------------------------------------
(* Provider callbacks *)

\* A delivery of an event, its signature valid or not.  A known reference is
\* answered as a duplicate and changes nothing.
processProviderWebhook(r, e, signed) ==
  /\ e \in scope /\ req[r] = Idle /\ event[e] = Absent
  /\ become(r, [phase |-> "receive", event |-> e, signed |-> signed])
  /\ UNCHANGED <<invoice, batch, row, event, active, history, scope>>

\* Mutation: a reference that is known by now is taken as new.
storeEventAgain(r) ==
  LET e == req[r].event
  IN /\ at(r, "receive")
     /\ event' = [event EXCEPT ![e] = [status |-> "PENDING", attempts |-> 0,
                                       signatureValid |-> req[r].signed]]
     /\ become(r, IF req[r].signed THEN [phase |-> "replay", event |-> e] ELSE Idle)
     /\ UNCHANGED <<invoice, batch, row, active, history, scope>>

\* Mutation: the outcome of the signature check is stored and not used.
storeAndReplay(r) ==
  LET e == req[r].event
  IN /\ at(r, "receive") /\ event[e] = Absent
     /\ event' = [event EXCEPT ![e] = [status |-> "PENDING", attempts |-> 0,
                                       signatureValid |-> req[r].signed]]
     /\ become(r, [phase |-> "replay", event |-> e])
     /\ UNCHANGED <<invoice, batch, row, active, history, scope>>

\* The event is stored, unless another delivery came first.
storeEvent(r) ==
  LET e == req[r].event  signed == req[r].signed
  IN /\ at(r, "receive")
     /\ IF event[e] # Absent THEN become(r, Idle) /\ UNCHANGED event
        ELSE /\ event' = [event EXCEPT
                            ![e] = [status |-> IF signed THEN "PENDING" ELSE "FAILED",
                                    attempts |-> 0, signatureValid |-> signed]]
             /\ become(r, IF signed THEN [phase |-> "replay", event |-> e] ELSE Idle)
     /\ UNCHANGED <<invoice, batch, row, active, history, scope>>

\* An operator asks for a stored event to be replayed, whatever its status.
retryProviderWebhookEvent(r, e) ==
  /\ "retry" \in scope /\ req[r] = Idle /\ event[e] # Absent /\ history[e].retried < MaxRetries[e]
  /\ event' = [event EXCEPT ![e].status = "RETRYING"]
  /\ history' = [history EXCEPT ![e].retried = @ + 1]
  /\ become(r, [phase |-> "replay", event |-> e])
  /\ UNCHANGED <<invoice, batch, row, active, scope>>

\* replayProviderWebhookEvent reads the event and its attempts.
replay(r) ==
  /\ at(r, "replay")
  /\ become(r, [phase |-> "apply", event |-> req[r].event,
                attempts |-> event[req[r].event].attempts + 1])
  /\ UNCHANGED <<invoice, batch, row, event, active, history, scope>>

recording(r, ok) == [phase |-> "record", event |-> req[r].event,
                     attempts |-> req[r].attempts, ok |-> ok]

\* Mutation: the provider's answer is stored as it is.
answered(i, result) == [invoice[i] EXCEPT !.validation = result]

einvoiced(i, result) ==
  [invoice[i] EXCEPT !.validation = IF result = "VALIDATED" THEN "EINVOICING_VALIDATED"
                                                            ELSE "EINVOICING_EXCEPTION"]

\* What a callback writes into the invoice it names.
applyResult(i, result) ==
  IF result = "approval" THEN [invoice[i] EXCEPT !.status = "APPROVED"] ELSE einvoiced(i, result)

\* The invoice a callback means: by id, by number or by one of its references.
findInvoiceForCallback(e) == {Callback[e].invoice} \cap Stored

\* applyErpCallback with an approval, applyEInvoicingCallback: the invoice is
\* found and updated, whatever its status.
applyToInvoice(r) ==
  LET e == req[r].event  i == Callback[e].invoice
  IN /\ at(r, "apply") /\ Callback[e].result # "invoices"
     /\ IF findInvoiceForCallback(e) = {}
        THEN become(r, recording(r, FALSE)) /\ UNCHANGED <<invoice, history>>
        ELSE /\ invoice' = [invoice EXCEPT ![i] = applyResult(i, Callback[e].result)]
             /\ history' = [history EXCEPT ![e].applied = @ + 1]
             /\ become(r, recording(r, TRUE))
     /\ UNCHANGED <<batch, row, event, active, scope>>

\* applyErpCallback with invoices: every replay makes a batch of its own.
applyAsBatch(r) ==
  LET e == req[r].event
  IN /\ at(r, "apply") /\ Callback[e].result = "invoices"
     /\ \E b \in Batches : createBatch(r, b, e, req[r].attempts)
     /\ UNCHANGED <<invoice, row, event, active, history, scope>>

\* Mutation: a failed replay ends as the others.
recordProcessed(r) ==
  /\ at(r, "record")
  /\ event' = [event EXCEPT ![req[r].event].attempts = req[r].attempts,
                            ![req[r].event].status = "PROCESSED"]
  /\ become(r, Idle)
  /\ UNCHANGED <<invoice, batch, row, active, history, scope>>

record(r) ==
  LET e == req[r].event  attempts == req[r].attempts
  IN /\ at(r, "record")
     /\ event' = [event EXCEPT ![e].attempts = attempts,
                               ![e].status = IF req[r].ok THEN "PROCESSED"
                                             ELSE IF attempts >= MaxAttempts THEN "FAILED"
                                             ELSE "RETRYING"]
     /\ become(r, Idle)
     /\ UNCHANGED <<invoice, batch, row, active, history, scope>>
-----------------------------------------------------------------------------
(* Operations on one invoice *)

May == [create |-> {"none"}, approve |-> InvoiceStatus \ {"CANCELLED", "FINANCED"},
        remove |-> InvoiceStatus \ {"FINANCED", "SETTLED"}]
mayBe(op, status) == IF op \in DOMAIN May THEN status \in May[op] ELSE status # "none"

\* create wants the supplier to be an active participant.
relationsValid(op, i) == op = "create" => SupplierOf[i] \in active

\* runDuplicateCheck hands detectDuplicateInvoice no parties, which leaves it the
\* external reference to look for.
othersLike(i) ==
  IF invoice[i] = Absent THEN {} ELSE withReference(invoice[i].reference) \ {i}

\* The reads and the guards of an operation.
readInvoice(r, op, i) ==
  /\ req[r] = Idle /\ op \in scope
  /\ mayBe(op, invoice[i].status) /\ relationsValid(op, i)
  /\ become(r, [phase |-> "update", op |-> op, invoice |-> i,
                seen |-> invoice[i].status,
                duplicate |-> op = "runDuplicateCheck" /\ othersLike(i) # {}])
  /\ UNCHANGED <<invoice, batch, row, event, active, history, scope>>

\* InvoicesService.create; the unique key refuses a second one.
create(i) ==
  IF invoice[i] # Absent THEN invoice[i]
  ELSE [status |-> "RECEIVED", reference |-> Entered[i].reference,
        terms |-> Entered[i].terms, batch |-> "manual",
        validation |-> "PENDING", duplicate |-> "PENDING"]

approve(i) == [invoice[i] EXCEPT !.status = "APPROVED"]
remove(i) == [invoice[i] EXCEPT !.status = "CANCELLED"]

\* A refused confirmation writes back the status it has read.
confirmBuyerApproval(i, seen) ==
  [invoice[i] EXCEPT !.status = IF i \in ErpApproves THEN "APPROVED" ELSE seen]

runEInvoicingValidation(i) == einvoiced(i, TaxResult[i])
validateInvoice(i) == einvoiced(i, "VALIDATED")

runDuplicateCheck(i, duplicate) ==
  [invoice[i] EXCEPT !.duplicate = IF duplicate THEN "DUPLICATE" ELSE "CLEAR"]

\* The update of an operation that has read q.
written(q) ==
  LET i == q.invoice
  IN CASE q.op = "create"  -> create(i)
       [] q.op = "approve" -> approve(i)
       [] q.op = "remove"  -> remove(i)
       [] q.op = "confirmBuyerApproval"    -> confirmBuyerApproval(i, q.seen)
       [] q.op = "runEInvoicingValidation" -> runEInvoicingValidation(i)
       [] q.op = "validateInvoice"         -> validateInvoice(i)
       [] q.op = "runDuplicateCheck"       -> runDuplicateCheck(i, q.duplicate)

writeInvoice(r) ==
  /\ at(r, "update")
  /\ invoice' = [invoice EXCEPT ![req[r].invoice] = written(req[r])]
  /\ become(r, Idle)
  /\ UNCHANGED <<batch, row, event, active, history, scope>>

given(field, old) == IF field = Keep THEN old ELSE field

\* A PATCH writes what it is given, the status and the unique key included.
patched(i, p) ==
  [status |-> given(p.status, invoice[i].status), batch |-> invoice[i].batch,
   reference |-> given(p.reference, invoice[i].reference),
   terms |-> given(p.terms, invoice[i].terms),
   validation |-> given(p.validation, invoice[i].validation),
   duplicate |-> given(p.duplicate, invoice[i].duplicate)]

Amends(p) == {p.invoice, p.reference, p.terms} # {Keep}

\* update, up to its write: the supplier the invoice will have is checked.
readPatched(r, i, p) ==
  /\ req[r] = Idle /\ "update" \in scope /\ (Amends(p) => "amend" \in scope)
  /\ invoice[i] # Absent /\ SupplierOf[given(p.invoice, i)] \in active
  /\ become(r, [phase |-> "patch", invoice |-> i, patch |-> p])
  /\ UNCHANGED <<invoice, batch, row, event, active, history, scope>>

\* A request that knows an invoice by its id, which a new key does not change.
Holds(state, i) ==
  /\ state.phase = "patch" \/ (state.phase = "update" /\ state.op # "create")
  /\ state.invoice = i

\* The write of update: the record moves to the key it is given, unless the
\* unique key is taken.
update(r) ==
  LET i == req[r].invoice  j == given(req[r].patch.invoice, i)
  IN /\ at(r, "patch")
     /\ IF j # i /\ invoice[j] # Absent THEN become(r, Idle) /\ UNCHANGED invoice
        ELSE /\ invoice' = [invoice EXCEPT ![i] = Absent, ![j] = patched(i, req[r].patch)]
             /\ req' = [q \in Requests |-> IF q = r THEN Idle
                                           ELSE IF Holds(req[q], i) THEN [req[q] EXCEPT !.invoice = j]
                                           ELSE req[q]]
     /\ UNCHANGED <<batch, row, event, active, history, scope>>

\* financing.service accepts an offer on an approved invoice.
finance(i) ==
  /\ "finance" \in scope /\ invoice[i].status = "APPROVED"
  /\ invoice' = [invoice EXCEPT ![i].status = "FINANCED"]
  /\ UNCHANGED <<batch, row, event, active, history, req, scope>>
-----------------------------------------------------------------------------
crash(r) ==
  /\ "crash" \in scope /\ req[r] # Idle
  /\ become(r, Idle)
  /\ UNCHANGED <<invoice, batch, row, event, active, history, scope>>

Proceed(r) ==
  \/ parseRow(r) \/ parsed(r)
  \/ validateAgain(r) \/ createInvoice(r) \/ markImported(r) \/ processed(r)
  \/ skipRows(r)
  \/ storeEvent(r) \/ replay(r) \/ applyToInvoice(r) \/ applyAsBatch(r) \/ record(r)
  \/ writeInvoice(r) \/ update(r)

Next ==
  \/ \E r \in Requests :
       \/ \E b \in Batches : upload(r, b) \/ processValidRows(r, b) \/ cancelBatch(r, b)
       \/ \E e \in Events :
            \/ \E signed \in BOOLEAN : processProviderWebhook(r, e, signed)
            \/ retryProviderWebhookEvent(r, e)
       \/ \E i \in Invoices : \/ \E op \in InvoiceOps : readInvoice(r, op, i)
                             \/ \E p \in Patches : readPatched(r, i, p)
       \/ Proceed(r) \/ auditFails(r) \/ crash(r)
  \/ \E i \in Invoices : finance(i)
  \/ \E s \in Suppliers : addParticipant(s)

Spec == Init /\ [][Next]_vars

\* The process runs what it has begun.
FairSpec == Spec /\ \A r \in Requests : WF_vars(Proceed(r))
-----------------------------------------------------------------------------
(* Properties *)

Imported == UNION {{b} \X {k \in RowsOf(b) : row[b][k] = "IMPORTED"} : b \in Batches}
lineOf(at_) == Lines[at_[1]][at_[2]]

\* As long as no PATCH amends an invoice, which looks for no duplicate and knows
\* no row: an imported row has an invoice, of its own batch, and no other imported
\* row has it too, however often and by how many requests its batch is processed.
RowOwnsItsInvoice == "amend" \notin scope =>
  /\ \A x \in Imported : invoice[lineOf(x).invoice] # Absent
                         /\ invoice[lineOf(x).invoice].batch = x[1]
  /\ \A x, y \in Imported : lineOf(x).invoice = lineOf(y).invoice => x = y

\* Two lines of which each is found for the other, or that share a reference.
sameInvoice(x, y) ==
  \/ /\ {<<x.invoice, y.invoice>>, <<y.invoice, x.invoice>>} \subseteq Similar
     /\ x.terms = y.terms
  \/ x.reference # NoReference /\ x.reference = y.reference

\* "duplicate invoice blocked": no unique key protects the external reference
\* and the likeness of number, amount and date, but as long as the batches are
\* processed one at a time no two of their imported rows share the reference or
\* are each like the other.  A number shorter than the prefix compared is like a
\* longer one and not the other way round: imported first, it hides nothing.  An
\* invoice that a PATCH amends is not looked at again.
NoHiddenDuplicate == "amend" \notin scope =>
  \A x, y \in Imported :
    x # y /\ x[1] \in Serial /\ y[1] \in Serial => ~sameInvoice(lineOf(x), lineOf(y))

\* Once a batch is cancelled it stays so and no row of it becomes an invoice,
\* if its requests come one after the other, cut short or not.
CancelledImportsNothing ==
  [][\A b \in Serial : batch[b] # Absent /\ batch[b].status = "CANCELLED" =>
       /\ batch'[b].status = "CANCELLED"
       /\ \A k \in RowsOf(b) : row'[b][k] = "IMPORTED" => row[b][k] = "IMPORTED"]_vars

\* A batch never reports more imported rows than it has, unless an audit entry
\* was lost.
NeverOverclaims ==
  \A b \in Serial : batch[b] # Absent /\ "auditFailure" \notin scope =>
    batch[b].importedRows <= Cardinality({k \in RowsOf(b) : row[b][k] = "IMPORTED"})

\* As long as nothing fails half-way and no invoice is amended, an invoice of a
\* batch has an imported row whenever no request is at work on the batch: no row
\* is taken for a duplicate of the invoice it has become.
InvoiceHasItsRow ==
  {"crash", "auditFailure", "amend"} \cap scope = {} =>
    \A b \in Serial : (\A r \in Requests : ~OnBatch(r, b)) =>
      \A i \in Invoices : invoice[i] # Absent /\ invoice[i].batch = b =>
        \E x \in Imported : x[1] = b /\ lineOf(x).invoice = i

\* A valid row that a request has picked up does not stay valid: it is imported
\* or carries the reason why not, unless the request is cut short.
PickedRowsAreSettled ==
  \A r \in Requests, b \in Batches : \A k \in RowsOf(b) :
    OnBatch(r, b) /\ at(r, "row") /\ k \in req[r].todo /\ "crash" \notin scope
      ~> row[b][k] # "VALID"

\* "Duplicate eventReference values are ignored": however often and at the same
\* time an event is delivered, it is applied once, and once per retry.
DeliveredOnce == \A e \in Events : history[e].applied <= 1 + history[e].retried

\* What is recorded as processed has been applied.
ProcessedWasApplied ==
  \A e \in Events : event[e] # Absent /\ event[e].status = "PROCESSED" =>
    history[e].applied > 0

\* An event whose signature does not hold is applied only when an operator
\* retries it.
UnprovenNeedsRetry ==
  \A e \in Events : history[e].applied > 0 /\ history[e].retried = 0 =>
    event[e].signatureValid

\* "Invalid signatures are persisted as failed events and do not mutate
\* invoices."
InvalidSignatureIsInert ==
  \A e \in Events : history[e].applied > 0 => event[e].signatureValid

\* A row and the invoice it names belong together, a batch claims no more than
\* its rows bear out, and a duplicate does not pass, however uploads, runs of
\* one batch, crashes and failing audits interleave.
RowsAndInvoicesAgree ==
  TypeOK /\ RowOwnsItsInvoice /\ NoHiddenDuplicate /\ NeverOverclaims /\ InvoiceHasItsRow

\* A provider event takes effect once per delivery or retry, and is called
\* PROCESSED only if it did, however callbacks overlap, fail and are repeated.
EventsAppliedOnce == DeliveredOnce /\ ProcessedWasApplied /\ UnprovenNeedsRetry
=============================================================================
