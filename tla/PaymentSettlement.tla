-------------------------- MODULE PaymentSettlement --------------------------
(***************************************************************************)
(* apps/api/src/payments/payments.service.ts and the sandbox provider: how  *)
(* a payment is initiated, verified, confirmed by hand or by a provider     *)
(* webhook, and how a confirmation is applied to the ledger, to the         *)
(* reconciliation items and to the status of its financing.                 *)
(*                                                                         *)
(* Every handler writes the payment row first and applies the confirmation  *)
(* afterwards in a transaction of its own, so other handlers, or the end of *)
(* the process, come in between.  A handler is a request that walks through *)
(* the phases                                                               *)
(*   call -> store -> recon -> ledger -> apply     initiate, verify         *)
(*                    recon -> ledger -> apply     confirm                  *)
(*   event -> update -> mark -> recon -> ledger -> apply       webhook      *)
(* The financing service settles the same payments without paymentId on its *)
(* ledger entries; its two handlers are single steps here, their own        *)
(* interleavings are the subject of module Financing.                       *)
(***************************************************************************)
EXTENDS Integers, FiniteSets

CONSTANTS
  Payments,          \* payment rows, existing or still to be created
  Financings,        \* the financing transactions they belong to
  FinancingOf,       \* the financing each payment belongs to, if it has one
  Direction,         \* "OUTBOUND" or "INBOUND"
  Outcome,           \* what the payment's reference makes the sandbox answer
  AutoSuccess,       \* SANDBOX_PAYMENT_AUTO_SUCCESS
  AllowPlaintext,    \* the webhook secret itself is accepted as a signature
  Webhooks,          \* the eventReferences of the notifications the provider sends
  Notification,      \* what each of them says
  Requests,          \* the requests in flight together
  SerialPerPayment,  \* no two requests overlap on one payment
  Crashes,           \* the phases in which the process may stop
  ThroughFinancing,  \* financing.disburse and financing.collect are used
  MaxRows            \* bound: ledger entries and provider payments of one payment

ProviderStatus == {"success", "failed", "returned", "pending", "initiated"}
PaymentStatus == {"INITIATED", "SENT", "CONFIRMED", "FAILED", "RETURNED"}
FinancingStatus == {"FUNDED", "DISBURSED", "COLLECTED"}

\* `reference` tells whether a notification carries the payment's reference
\* beside the provider's.
Notifications == [payment : Payments, status : ProviderStatus,
                  signature : {"secret", "hmac", "wrong"}, reference : BOOLEAN]

Phases == {"call", "store", "event", "update", "mark", "recon", "ledger", "apply"}

ASSUME SettlementAssumption ==
  /\ FinancingOf \in [Payments -> Financings]
  /\ Direction \in [Payments -> {"OUTBOUND", "INBOUND"}]
  /\ Outcome \in [Payments -> {"success", "failed", "pending"}]
  /\ AutoSuccess \in BOOLEAN /\ AllowPlaintext \in BOOLEAN
  /\ Notification \in [Webhooks -> Notifications]
  /\ SerialPerPayment \in BOOLEAN
  /\ Crashes \subseteq Phases
  /\ ThroughFinancing \in BOOLEAN
  /\ MaxRows \in Nat

VARIABLES
  payment,    \* the row: its status, "NONE" before it is created, and whether
              \* a provider reference and idempotency key are stored
  linked,     \* the payments that have a financingTransactionId
  fin,        \* status of each financing
  recon,      \* reconciliation items of each payment
  ledger,     \* double entries that carry the paymentId
  booked,     \* double entries the financing service posted without one
  manual,     \* payments an operator has confirmed
  provider,   \* provider payments created for each payment
  event,      \* the stored webhook events
  req         \* the requests in flight

vars == <<payment, linked, fin, recon, ledger, booked, manual, provider, event, req>>

PaymentRow == [status : PaymentStatus \cup {"NONE"}, ref : BOOLEAN]

Idle == [phase |-> "idle"]
InFlight == [phase : Phases,
             kind : {"initiate", "verify", "confirm", "webhook"},
             payment : Payments, result : ProviderStatus,
             webhook : Webhooks \cup {"none"},
             found : BOOLEAN, needRecon : BOOLEAN, needLedger : BOOLEAN]

TypeOK ==
  /\ payment \in [Payments -> PaymentRow]
  /\ linked \in SUBSET Payments
  /\ fin \in [Financings -> FinancingStatus]
  /\ recon \in [Payments -> Nat]
  /\ ledger \in [Payments -> Nat]
  /\ booked \in [Financings -> [OUTBOUND : Nat, INBOUND : Nat]]
  /\ manual \in SUBSET Payments
  /\ provider \in [Payments -> Nat]
  /\ event \in [Webhooks -> {"none", "stored", "processed"}]
  /\ req \in [Requests -> {Idle} \cup InFlight]

\* fund has created the outbound payments of the financings; the others come later.
Init ==
  /\ linked \in SUBSET Payments
  /\ payment = [p \in Payments |->
                  [status |-> IF Direction[p] = "OUTBOUND" /\ p \in linked
                              THEN "INITIATED" ELSE "NONE",
                   ref |-> FALSE]]
  /\ fin = [f \in Financings |-> "FUNDED"]
  /\ recon = [p \in Payments |-> 0]
  /\ ledger = [p \in Payments |-> 0]
  /\ booked = [f \in Financings |-> [OUTBOUND |-> 0, INBOUND |-> 0]]
  /\ manual = {}
  /\ provider = [p \in Payments |-> 0]
  /\ event = [w \in Webhooks |-> "none"]
  /\ req = [r \in Requests |-> Idle]
-----------------------------------------------------------------------------
(* The sandbox provider and its statuses *)

\* Mutation: an unknown provider status is stored as it is.
mapUnknownStatus(s) == CASE s = "success" -> "CONFIRMED"
                         [] s = "failed" -> "FAILED"
                         [] s = "returned" -> "RETURNED"
                         [] OTHER -> s

mapProviderStatus(s) == CASE s = "success" -> "CONFIRMED"
                          [] s = "failed" -> "FAILED"
                          [] s = "returned" -> "RETURNED"
                          [] OTHER -> "SENT"

\* initiatePayment: "success" only confirms at once under autoSuccess.
initiateResult(p) ==
  IF Outcome[p] = "success" /\ ~AutoSuccess THEN "initiated" ELSE Outcome[p]

verifyResult(p) == Outcome[p]

\* processWebhook reads a signature that is not the secret as a failure.
parsedStatus(w) ==
  IF Notification[w].signature = "secret" THEN Notification[w].status ELSE "failed"

\* verifyWebhookSignature
signatureValid(w) ==
  \/ Notification[w].signature = "hmac"
  \/ Notification[w].signature = "secret" /\ AllowPlaintext
-----------------------------------------------------------------------------
(* Requests *)

Busy(p) == \E r \in Requests : req[r] # Idle /\ req[r].payment = p

newRequest(kind, p, phase) ==
  [phase |-> phase, kind |-> kind, payment |-> p, result |-> "pending",
   webhook |-> "none", found |-> FALSE, needRecon |-> FALSE, needLedger |-> FALSE]

start(r, q) ==
  /\ req[r] = Idle
  /\ SerialPerPayment => ~Busy(q.payment)
  /\ req' = [req EXCEPT ![r] = q]

at(r, phase) == req[r] # Idle /\ req[r].phase = phase

goto(r, phase) == req' = [req EXCEPT ![r].phase = phase]

\* Mutation: every status is applied.
applyAnyStatus(r, status) == goto(r, "recon")

\* After the payment row is written: a confirmation is applied, any other
\* status ends the handler.
applyIfConfirmed(r, status) ==
  req' = [req EXCEPT ![r] = IF status = "CONFIRMED"
                            THEN [@ EXCEPT !.phase = "recon"] ELSE Idle]

create(p) ==
  /\ payment[p].status = "NONE"
  /\ payment' = [payment EXCEPT ![p].status = "INITIATED"]
  /\ UNCHANGED <<fin, recon, ledger, booked, manual, provider, event, req>>

\* initiateProviderPayment, up to the provider call.  A payment that has its
\* provider reference is returned as a duplicate.
initiateProviderPayment(r, p) ==
  /\ payment[p].status \notin {"NONE", "CONFIRMED", "RETURNED"}
  /\ ~payment[p].ref
  /\ start(r, newRequest("initiate", p, "call"))
  /\ UNCHANGED <<payment, fin, recon, ledger, booked, manual, provider, event>>

verifyProviderPayment(r, p) ==
  /\ payment[p].ref
  /\ start(r, newRequest("verify", p, "call"))
  /\ UNCHANGED <<payment, fin, recon, ledger, booked, manual, provider, event>>

callProvider(r) ==
  LET p == req[r].payment
  IN /\ at(r, "call")
     /\ \/ /\ req[r].kind = "initiate"
           /\ provider[p] < MaxRows
           /\ provider' = [provider EXCEPT ![p] = @ + 1]
           /\ req' = [req EXCEPT ![r] = [@ EXCEPT !.phase = "store", !.result = initiateResult(p)]]
        \/ /\ req[r].kind = "verify"
           /\ req' = [req EXCEPT ![r] = [@ EXCEPT !.phase = "store", !.result = verifyResult(p)]]
           /\ UNCHANGED provider
     /\ UNCHANGED <<payment, fin, recon, ledger, booked, manual, event>>

\* Mutation: the provider reference is kept for confirmed payments only.
storeReferenceIfConfirmed(r) ==
  LET p == req[r].payment  status == mapProviderStatus(req[r].result)
  IN /\ at(r, "store")
     /\ payment' = [payment EXCEPT ![p] = [status |-> status, ref |-> status = "CONFIRMED"]]
     /\ applyIfConfirmed(r, status)
     /\ UNCHANGED <<fin, recon, ledger, booked, manual, provider, event>>

\* The answer overwrites the status, whatever happened since the call.
storeResult(r) ==
  LET p == req[r].payment  status == mapProviderStatus(req[r].result)
  IN /\ at(r, "store")
     /\ payment' = [payment EXCEPT ![p] = [status |-> status, ref |-> TRUE]]
     /\ applyIfConfirmed(r, status)
     /\ UNCHANGED <<fin, recon, ledger, booked, manual, provider, event>>

\* Mutation: only the status is written.
confirmStatusOnly(r, p) ==
  /\ payment[p].status # "NONE" /\ r \in Requests
  /\ SerialPerPayment => ~Busy(p)
  /\ payment' = [payment EXCEPT ![p].status = "CONFIRMED"]
  /\ manual' = manual \cup {p}
  /\ UNCHANGED <<fin, recon, ledger, booked, provider, event, req>>

confirm(r, p) ==
  /\ payment[p].status # "NONE"
  /\ start(r, newRequest("confirm", p, "recon"))
  /\ payment' = [payment EXCEPT ![p].status = "CONFIRMED"]
  /\ manual' = manual \cup {p}
  /\ UNCHANGED <<fin, recon, ledger, booked, provider, event>>

\* fail and markPaymentReturned: one statement, no guard on the status.
fail(p) ==
  /\ payment[p].status # "NONE"
  /\ SerialPerPayment => ~Busy(p)
  /\ payment' = [payment EXCEPT ![p].status = "FAILED"]
  /\ UNCHANGED <<fin, recon, ledger, booked, manual, provider, event, req>>

markPaymentReturned(p) ==
  /\ payment[p].status # "NONE"
  /\ SerialPerPayment => ~Busy(p)
  /\ payment' = [payment EXCEPT ![p].status = "RETURNED"]
  /\ UNCHANGED <<fin, recon, ledger, booked, manual, provider, event, req>>
-----------------------------------------------------------------------------
(* Webhooks *)

\* findPaymentForWebhook: by provider reference, else by reference.
findPaymentForWebhook(w) ==
  LET n == Notification[w]
  IN payment[n.payment].ref \/ (n.reference /\ payment[n.payment].status # "NONE")

\* processProviderWebhook, up to the creation of the event: an event that is
\* stored already is answered as a duplicate.
processProviderWebhook(r, w) ==
  /\ event[w] = "none"
  /\ start(r, [newRequest("webhook", Notification[w].payment, "event") EXCEPT
                !.webhook = w, !.found = findPaymentForWebhook(w)])
  /\ UNCHANGED <<payment, fin, recon, ledger, booked, manual, provider, event>>

\* eventReference is unique: of two overlapping deliveries one fails here.
createEvent(r) ==
  LET w == req[r].webhook
  IN /\ at(r, "event")
     /\ event[w] = "none"
     /\ event' = [event EXCEPT ![w] = "stored"]
     /\ req' = [req EXCEPT ![r] = IF signatureValid(w) /\ req[r].found
                                  THEN [@ EXCEPT !.phase = "update"] ELSE Idle]
     /\ UNCHANGED <<payment, fin, recon, ledger, booked, manual, provider>>

updatePayment(r) ==
  LET w == req[r].webhook
  IN /\ at(r, "update")
     /\ payment' = [payment EXCEPT
                      ![req[r].payment].status = mapProviderStatus(parsedStatus(w))]
     /\ goto(r, "mark")
     /\ UNCHANGED <<fin, recon, ledger, booked, manual, provider, event>>

\* Mutation: the confirmation is not applied.
markProcessedOnly(r) ==
  /\ at(r, "mark")
  /\ event' = [event EXCEPT ![req[r].webhook] = "processed"]
  /\ req' = [req EXCEPT ![r] = Idle]
  /\ UNCHANGED <<payment, fin, recon, ledger, booked, manual, provider>>

markProcessed(r) ==
  LET w == req[r].webhook
  IN /\ at(r, "mark")
     /\ event' = [event EXCEPT ![w] = "processed"]
     /\ applyIfConfirmed(r, mapProviderStatus(parsedStatus(w)))
     /\ UNCHANGED <<payment, fin, recon, ledger, booked, manual, provider>>
-----------------------------------------------------------------------------
(* applyConfirmedPayment: one transaction at READ COMMITTED.  Its two reads   *)
(* see what others have committed by then; its writes appear together.       *)

findReconciliation(r) ==
  /\ at(r, "recon")
  /\ req' = [req EXCEPT ![r] = [@ EXCEPT !.phase = "ledger",
                                        !.needRecon = (recon[req[r].payment] = 0)]]
  /\ UNCHANGED <<payment, fin, recon, ledger, booked, manual, provider, event>>

\* Only what belongs to a financing is posted.
findLedger(r) ==
  LET p == req[r].payment
  IN /\ at(r, "ledger")
     /\ req' = [req EXCEPT ![r] = [@ EXCEPT !.phase = "apply",
                  !.needLedger = (p \in linked /\ ledger[p] = 0)]]
     /\ UNCHANGED <<payment, fin, recon, ledger, booked, manual, provider, event>>

\* Mutation: the reconciliation item is left to the financing service.
applyLedgerOnly(r) ==
  LET p == req[r].payment
  IN /\ at(r, "apply")
     /\ ledger[p] < MaxRows
     /\ ledger' = [ledger EXCEPT ![p] = IF req[r].needLedger THEN @ + 1 ELSE @]
     /\ fin' = [fin EXCEPT ![FinancingOf[p]] =
                  IF ~req[r].needLedger THEN @
                  ELSE IF Direction[p] = "OUTBOUND" THEN "DISBURSED" ELSE "COLLECTED"]
     /\ req' = [req EXCEPT ![r] = Idle]
     /\ UNCHANGED <<payment, recon, booked, manual, provider, event>>

\* Mutation: the ledger is posted without looking for earlier entries.
applyAlways(r) ==
  LET p == req[r].payment
  IN /\ at(r, "apply")
     /\ ledger[p] < MaxRows /\ recon[p] < MaxRows
     /\ recon' = [recon EXCEPT ![p] = IF req[r].needRecon THEN @ + 1 ELSE @]
     /\ ledger' = [ledger EXCEPT ![p] = @ + 1]
     /\ fin' = [fin EXCEPT ![FinancingOf[p]] =
                  IF Direction[p] = "OUTBOUND" THEN "DISBURSED" ELSE "COLLECTED"]
     /\ req' = [req EXCEPT ![r] = Idle]
     /\ UNCHANGED <<payment, booked, manual, provider, event>>

applyConfirmedPayment(r) ==
  LET p == req[r].payment
  IN /\ at(r, "apply")
     /\ req[r].needRecon => recon[p] < MaxRows
     /\ req[r].needLedger => ledger[p] < MaxRows
     /\ recon' = [recon EXCEPT ![p] = IF req[r].needRecon THEN @ + 1 ELSE @]
     /\ ledger' = [ledger EXCEPT ![p] = IF req[r].needLedger THEN @ + 1 ELSE @]
     /\ fin' = [fin EXCEPT ![FinancingOf[p]] =
                  IF ~req[r].needLedger THEN @
                  ELSE IF Direction[p] = "OUTBOUND" THEN "DISBURSED" ELSE "COLLECTED"]
     /\ req' = [req EXCEPT ![r] = Idle]
     /\ UNCHANGED <<payment, booked, manual, provider, event>>

\* A request ends half way: an exception, a unique index, the process stops.
abandon(r) ==
  /\ req[r] # Idle
  /\ \/ req[r].phase \in Crashes
     \/ at(r, "event") /\ event[req[r].webhook] # "none"
  /\ req' = [req EXCEPT ![r] = Idle]
  /\ UNCHANGED <<payment, fin, recon, ledger, booked, manual, provider, event>>
-----------------------------------------------------------------------------
(* The financing service on the same rows *)

PaymentsOf(f, d) == {p \in linked : FinancingOf[p] = f /\ Direction[p] = d}

disburse(f) ==
  /\ ThroughFinancing /\ fin[f] = "FUNDED" /\ PaymentsOf(f, "OUTBOUND") # {}
  /\ \A p \in PaymentsOf(f, "OUTBOUND") : recon[p] < MaxRows /\ (SerialPerPayment => ~Busy(p))
  /\ payment' = [p \in Payments |->
                   IF p \in PaymentsOf(f, "OUTBOUND")
                   THEN [payment[p] EXCEPT !.status = "CONFIRMED"] ELSE payment[p]]
  /\ recon' = [p \in Payments |->
                 IF p \in PaymentsOf(f, "OUTBOUND") THEN recon[p] + 1 ELSE recon[p]]
  /\ booked' = [booked EXCEPT ![f].OUTBOUND = @ + 1]
  /\ fin' = [fin EXCEPT ![f] = "DISBURSED"]
  /\ UNCHANGED <<ledger, manual, provider, event, req>>

collect(f) ==
  /\ ThroughFinancing /\ fin[f] = "DISBURSED" /\ booked[f].INBOUND < MaxRows
  /\ \E p \in PaymentsOf(f, "INBOUND") :
       /\ payment[p].status = "NONE"
       /\ payment' = [payment EXCEPT ![p].status = "CONFIRMED"]
       /\ recon' = [recon EXCEPT ![p] = @ + 1]
  /\ booked' = [booked EXCEPT ![f].INBOUND = @ + 1]
  /\ fin' = [fin EXCEPT ![f] = "COLLECTED"]
  /\ UNCHANGED <<ledger, manual, provider, event, req>>

Continue(r) ==
  \/ callProvider(r) \/ storeResult(r)
  \/ createEvent(r) \/ updatePayment(r) \/ markProcessed(r)
  \/ findReconciliation(r) \/ findLedger(r) \/ applyConfirmedPayment(r)

Step ==
  \/ \E r \in Requests :
       \/ \E p \in Payments : \/ initiateProviderPayment(r, p)
                              \/ verifyProviderPayment(r, p) \/ confirm(r, p)
       \/ \E w \in Webhooks : processProviderWebhook(r, w)
       \/ Continue(r) \/ abandon(r)
  \/ \E p \in Payments : create(p) \/ fail(p) \/ markPaymentReturned(p)
  \/ \E f \in Financings : disburse(f) \/ collect(f)

\* A payment belongs to a financing from its creation or never.
Next == Step /\ UNCHANGED linked

Spec == Init /\ [][Next]_vars

\* The event loop runs every continuation that is ready; a request it has
\* answered leaves room for the next one.
FairSpec == Spec /\ \A r \in Requests : WF_vars((Continue(r) \/ abandon(r)) /\ UNCHANGED linked)

-----------------------------------------------------------------------------
(* Properties *)

\* A posted payment is reconciled: the two are written in one transaction,
\* so no crash and no overlap leaves a posting without its item.
LedgerHasRecon == \A p \in Payments : ledger[p] > 0 => recon[p] > 0

Reason(p) ==
  \/ p \in manual
  \/ provider[p] > 0 /\ Outcome[p] = "success"
  \/ \E w \in Webhooks :
       /\ Notification[w].payment = p /\ Notification[w].status = "success"
       /\ signatureValid(w) /\ event[w] # "none"

\* Failed, pending, returned, duplicate or badly signed notifications never
\* post: every posting goes back to an operator's confirmation, to a provider
\* payment that succeeds, or to a stored success event with a valid signature.
MoneyMovesForAReason == \A p \in Payments : ledger[p] > 0 => Reason(p)

\* The strengthening that makes the two inductive: a request has a reason
\* before it applies a confirmation, and reasons, references and
\* reconciliation items never go away.
RequestIsBacked(r) ==
  LET p == req[r].payment  w == req[r].webhook
  IN /\ at(r, "call") /\ req[r].kind = "verify" => provider[p] > 0
     /\ at(r, "store") => /\ provider[p] > 0
                          /\ req[r].result = "success" => Outcome[p] = "success"
     /\ at(r, "event") \/ at(r, "update") \/ at(r, "mark") =>
          w \in Webhooks /\ p = Notification[w].payment
     /\ at(r, "update") \/ at(r, "mark") => signatureValid(w) /\ event[w] # "none"
     /\ at(r, "recon") \/ at(r, "ledger") \/ at(r, "apply") => Reason(p)
     /\ at(r, "ledger") \/ at(r, "apply") => req[r].needRecon \/ recon[p] > 0

PostingInv ==
  /\ LedgerHasRecon /\ MoneyMovesForAReason
  /\ \A r \in Requests : RequestIsBacked(r)
  /\ \A p \in Payments : payment[p].ref => provider[p] > 0

\* Repeated confirmations, verifications and notifications of one payment
\* post it once and reconcile it once.
PostedOnce == \A p \in Payments : ledger[p] <= 1 /\ recon[p] <= 1

\* One payment row never becomes two payments at the provider.
InitiatedOnce == \A p \in Payments : provider[p] <= 1

\* Whatever confirmed it (provider, webhook, operator, financing service), a
\* confirmed payment is eventually reconciled and, if it belongs to a financing,
\* on the ledger, whatever overlaps with the handler that has to post it.
ConfirmationIsBooked ==
  \A p \in Payments :
    payment[p].status = "CONFIRMED" ~>
      /\ recon[p] > 0
      /\ p \in linked =>
           ledger[p] > 0 \/ booked[FinancingOf[p]][Direction[p]] > 0

\* The provider delivers a notification until it is answered.
DeliveredUntilAnswered(w) ==
  SF_vars((\E r \in Requests : processProviderWebhook(r, w)) /\ UNCHANGED linked)

\* What a confirmation has to leave behind.
ConfirmationApplied(p) == recon[p] > 0 /\ (p \in linked => ledger[p] > 0)

\* A notification nobody has begun to handle, of a payment the handler will find.
Undelivered(w) ==
  /\ findPaymentForWebhook(w) /\ event[w] = "none"
  /\ \A r \in Requests : req[r] # Idle => req[r].webhook # w

\* A success notification the provider keeps delivering is reconciled and ends
\* on the ledger of its financing, if it has one, even if it arrives before the
\* provider's answer is stored.
SuccessWebhookIsBooked ==
  \A w \in Webhooks :
    DeliveredUntilAnswered(w) =>
      ((signatureValid(w) /\ Notification[w].status = "success" /\ Undelivered(w))
         ~> ConfirmationApplied(Notification[w].payment))

\* "Confirm posts ledger and reconciliation entries once": the cash of one
\* outbound payment leaves the books once, whichever service settles it.
CashLeavesOnce ==
  \A p \in Payments :
    Direction[p] = "OUTBOUND" /\ p \in linked =>
      ledger[p] + booked[FinancingOf[p]].OUTBOUND <= 1
=============================================================================
