----------------------- MODULE PaymentSettlementProofs -----------------------
(***************************************************************************)
(* Proofs about PaymentSettlement for any number of payments, requests and *)
(* notifications, with or without crashes and overlapping requests.        *)
(***************************************************************************)
EXTENDS PaymentSettlement, TLAPS

USE SettlementAssumption

LEMMA StatusOfResult ==
  ASSUME NEW s
  PROVE  mapProviderStatus(s) \in PaymentStatus
  BY DEF mapProviderStatus, PaymentStatus

LEMMA ParsedType ==
  ASSUME NEW w \in Webhooks
  PROVE  Notification[w] \in Notifications /\ Notification[w].payment \in Payments
  BY DEF Notifications

LEMMA InFlightFields ==
  ASSUME TypeOK, NEW r \in Requests, req[r] # Idle
  PROVE  /\ req[r] \in InFlight /\ req[r].payment \in Payments
         /\ req[r].result \in ProviderStatus
         /\ req[r].webhook \in Webhooks \cup {"none"}
  BY DEF TypeOK, InFlight, Phases

\* A request that moves on, or ends, remains a request.
LEMMA MoveType ==
  ASSUME TypeOK, NEW r \in Requests, NEW q \in {Idle} \cup InFlight,
         req' = [req EXCEPT ![r] = q]
  PROVE  req' \in [Requests -> {Idle} \cup InFlight]
  BY DEF TypeOK

LEMMA UpdatedType ==
  ASSUME NEW q \in InFlight, NEW phase \in Phases, NEW s \in ProviderStatus, NEW b \in BOOLEAN
  PROVE  /\ [q EXCEPT !.phase = phase] \in InFlight
         /\ [q EXCEPT !.phase = phase, !.result = s] \in InFlight
         /\ [q EXCEPT !.phase = phase, !.needRecon = b] \in InFlight
         /\ [q EXCEPT !.phase = phase, !.needLedger = b] \in InFlight
  BY DEF InFlight

LEMMA PhaseType ==
  ASSUME TypeOK, NEW r \in Requests, req[r] # Idle,
         NEW phase \in {"recon", "mark", "update"}
  PROVE  [req[r] EXCEPT !.phase = phase] \in InFlight
  <1>1. phase \in Phases
    BY DEF Phases
  <1> QED
    BY <1>1, InFlightFields, UpdatedType

LEMMA ApplyType ==
  ASSUME TypeOK, NEW r \in Requests, req[r] # Idle, NEW s, applyIfConfirmed(r, s)
  PROVE  req' \in [Requests -> {Idle} \cup InFlight]
  <1> DEFINE q == IF s = "CONFIRMED" THEN [req[r] EXCEPT !.phase = "recon"] ELSE Idle
  <1>1. q \in {Idle} \cup InFlight
    BY PhaseType
  <1>2. req' = [req EXCEPT ![r] = q]
    BY DEF applyIfConfirmed
  <1> QED
    BY <1>1, <1>2, MoveType

LEMMA NewRequestType ==
  ASSUME TypeOK, NEW r \in Requests, NEW p \in Payments,
         NEW kind \in {"initiate", "verify", "confirm"}, NEW phase \in {"call", "recon"},
         start(r, newRequest(kind, p, phase))
  PROVE  req' \in [Requests -> {Idle} \cup InFlight]
  <1>1. newRequest(kind, p, phase) \in InFlight
    BY DEF newRequest, InFlight, Phases, ProviderStatus
  <1> QED
    BY <1>1, MoveType DEF start
-----------------------------------------------------------------------------
LEMMA InitType == Init => TypeOK
  <1> SUFFICES ASSUME Init PROVE TypeOK
    OBVIOUS
  <1>1. payment \in [Payments -> PaymentRow]
    BY DEF Init, PaymentRow, PaymentStatus
  <1> QED
    BY <1>1 DEF Init, TypeOK, FinancingStatus

LEMMA LinkedStays == [Next]_vars => linked' = linked
  BY DEF Next, vars

LEMMA RowType ==
  ASSUME TypeOK, NEW p \in Payments, NEW s \in PaymentStatus
  PROVE  [payment EXCEPT ![p].status = s] \in [Payments -> PaymentRow]
  <1>1. [payment[p] EXCEPT !.status = s] \in PaymentRow
    BY DEF TypeOK, PaymentRow
  <1> QED
    BY <1>1 DEF TypeOK

LEMMA NextType == TypeOK /\ [Next]_vars => TypeOK'
  <1> SUFFICES ASSUME TypeOK, [Next]_vars PROVE TypeOK'
    OBVIOUS
  <1> linked' \in SUBSET Payments
    BY DEF Next, vars, TypeOK
  <1>1. ASSUME NEW r \in Requests, NEW p \in Payments,
               initiateProviderPayment(r, p) \/ verifyProviderPayment(r, p)
        PROVE  TypeOK'
    BY <1>1, NewRequestType DEF initiateProviderPayment, verifyProviderPayment, TypeOK
  <1>2. ASSUME NEW r \in Requests, NEW p \in Payments, confirm(r, p)
        PROVE  TypeOK'
    <2>1. payment' \in [Payments -> PaymentRow]
      BY <1>2, RowType DEF confirm, PaymentStatus
    <2> QED
      BY <1>2, <2>1, NewRequestType DEF confirm, TypeOK
  <1>3. ASSUME NEW r \in Requests, NEW w \in Webhooks, processProviderWebhook(r, w)
        PROVE  TypeOK'
    <2> DEFINE q == [newRequest("webhook", Notification[w].payment, "event") EXCEPT
                       !.webhook = w, !.found = findPaymentForWebhook(w)]
    <2>1. findPaymentForWebhook(w) \in BOOLEAN
      BY ParsedType DEF findPaymentForWebhook, TypeOK, PaymentRow
    <2>2. q \in InFlight
      BY <2>1, ParsedType DEF newRequest, InFlight, Phases, ProviderStatus
    <2> QED
      BY <1>3, <2>2, MoveType DEF processProviderWebhook, start, TypeOK
  <1>4. ASSUME NEW r \in Requests, callProvider(r)
        PROVE  TypeOK'
    <2>1. req[r] # Idle
      BY <1>4 DEF callProvider, at
    <2>2. ASSUME NEW s \in ProviderStatus
          PROVE  [req[r] EXCEPT !.phase = "store", !.result = s] \in InFlight
      BY <2>1, InFlightFields, UpdatedType DEF Phases
    <2>3. req[r].payment \in Payments
      BY <2>1, InFlightFields
    <2>4. initiateResult(req[r].payment) \in ProviderStatus
      BY <2>3 DEF initiateResult, ProviderStatus
    <2>5. verifyResult(req[r].payment) \in ProviderStatus
      BY <2>3 DEF verifyResult, ProviderStatus
    <2>6. req' \in [Requests -> {Idle} \cup InFlight]
      BY <1>4, <2>2, <2>4, <2>5, MoveType DEF callProvider
    <2>7. provider' \in [Payments -> Nat]
      BY <1>4, <2>3 DEF callProvider, TypeOK
    <2> QED
      BY <1>4, <2>6, <2>7 DEF callProvider, TypeOK
  <1>5. ASSUME NEW r \in Requests, storeResult(r)
        PROVE  TypeOK'
    <2> DEFINE s == mapProviderStatus(req[r].result)
    <2>1. req[r] # Idle /\ req[r].payment \in Payments
      BY <1>5, InFlightFields DEF storeResult, at
    <2>2. [status |-> s, ref |-> TRUE] \in PaymentRow
      BY StatusOfResult DEF PaymentRow
    <2>3. payment' \in [Payments -> PaymentRow]
      BY <1>5, <2>1, <2>2 DEF storeResult, TypeOK
    <2> QED
      BY <1>5, <2>1, <2>3, ApplyType DEF storeResult, TypeOK
  <1>6. ASSUME NEW r \in Requests, createEvent(r)
        PROVE  TypeOK'
    <2>1. req[r] # Idle
      BY <1>6 DEF createEvent, at
    <2>2. [req[r] EXCEPT !.phase = "update"] \in InFlight
      BY <2>1, PhaseType
    <2>3. req' \in [Requests -> {Idle} \cup InFlight]
      BY <1>6, <2>2, MoveType DEF createEvent
    <2> QED
      BY <1>6, <2>3 DEF createEvent, TypeOK
  <1>7. ASSUME NEW r \in Requests, updatePayment(r)
        PROVE  TypeOK'
    <2>1. req[r] # Idle /\ req[r].payment \in Payments
      BY <1>7, InFlightFields DEF updatePayment, at
    <2>2. payment' \in [Payments -> PaymentRow]
      BY <1>7, <2>1, RowType, StatusOfResult DEF updatePayment
    <2>3. req' \in [Requests -> {Idle} \cup InFlight]
      BY <1>7, <2>1, PhaseType, MoveType DEF updatePayment, goto
    <2> QED
      BY <1>7, <2>2, <2>3 DEF updatePayment, TypeOK
  <1>8. ASSUME NEW r \in Requests, markProcessed(r)
        PROVE  TypeOK'
    <2>1. req[r] # Idle
      BY <1>8 DEF markProcessed, at
    <2> QED
      BY <1>8, <2>1, ApplyType DEF markProcessed, TypeOK
  <1>9. ASSUME NEW r \in Requests, findReconciliation(r)
        PROVE  TypeOK'
    <2>1. req[r] \in InFlight /\ "ledger" \in Phases /\ "pending" \in ProviderStatus
      BY <1>9, InFlightFields DEF findReconciliation, at, Phases, ProviderStatus
    <2>2. PICK b \in BOOLEAN : b = (recon[req[r].payment] = 0)
      OBVIOUS
    <2>3. [req[r] EXCEPT !.phase = "ledger", !.needRecon = b] \in InFlight
      BY <2>1, UpdatedType
    <2>4. req' = [req EXCEPT ![r] = [req[r] EXCEPT !.phase = "ledger", !.needRecon = b]]
      BY <1>9, <2>2 DEF findReconciliation
    <2>5. req' \in [Requests -> {Idle} \cup InFlight]
      BY <2>3, <2>4, MoveType
    <2> QED
      BY <1>9, <2>5 DEF findReconciliation, TypeOK
  <1>10. ASSUME NEW r \in Requests, findLedger(r)
         PROVE  TypeOK'
    <2>1. req[r] \in InFlight /\ "apply" \in Phases /\ "pending" \in ProviderStatus
      BY <1>10, InFlightFields DEF findLedger, at, Phases, ProviderStatus
    <2>2. PICK b \in BOOLEAN : b = (req[r].payment \in linked /\ ledger[req[r].payment] = 0)
      OBVIOUS
    <2>3. [req[r] EXCEPT !.phase = "apply", !.needLedger = b] \in InFlight
      BY <2>1, UpdatedType
    <2>4. req' = [req EXCEPT ![r] = [req[r] EXCEPT !.phase = "apply", !.needLedger = b]]
      BY <1>10, <2>2 DEF findLedger
    <2>5. req' \in [Requests -> {Idle} \cup InFlight]
      BY <2>3, <2>4, MoveType
    <2> QED
      BY <1>10, <2>5 DEF findLedger, TypeOK
  <1>11. ASSUME NEW r \in Requests, applyConfirmedPayment(r)
         PROVE  TypeOK'
    <2>1. req[r].payment \in Payments
      BY <1>11, InFlightFields DEF applyConfirmedPayment, at
    <2>2. recon' \in [Payments -> Nat] /\ ledger' \in [Payments -> Nat]
      BY <1>11, <2>1 DEF applyConfirmedPayment, TypeOK
    <2>3. fin' \in [Financings -> FinancingStatus]
      BY <1>11, <2>1 DEF applyConfirmedPayment, TypeOK, FinancingStatus
    <2>4. req' \in [Requests -> {Idle} \cup InFlight]
      BY <1>11, MoveType DEF applyConfirmedPayment
    <2> QED
      BY <1>11, <2>2, <2>3, <2>4 DEF applyConfirmedPayment, TypeOK
  <1>12. ASSUME NEW r \in Requests, abandon(r)
         PROVE  TypeOK'
    BY <1>12, MoveType DEF abandon, TypeOK
  <1>13. ASSUME NEW p \in Payments, create(p) \/ fail(p) \/ markPaymentReturned(p)
         PROVE  TypeOK'
    <2>1. PICK st \in PaymentStatus : payment' = [payment EXCEPT ![p].status = st]
      BY <1>13 DEF create, fail, markPaymentReturned, PaymentStatus
    <2>2. payment' \in [Payments -> PaymentRow]
      BY <2>1, RowType
    <2> QED
      BY <1>13, <2>2 DEF create, fail, markPaymentReturned, TypeOK
  <1>14. ASSUME NEW f \in Financings, disburse(f)
         PROVE  TypeOK'
    <2>1. \A p \in Payments : [payment[p] EXCEPT !.status = "CONFIRMED"] \in PaymentRow
      BY DEF TypeOK, PaymentRow, PaymentStatus
    <2>2. payment' \in [Payments -> PaymentRow]
      BY <1>14, <2>1 DEF disburse, TypeOK
    <2>3. recon' \in [Payments -> Nat]
      BY <1>14 DEF disburse, TypeOK
    <2>4. [booked[f] EXCEPT !.OUTBOUND = booked[f].OUTBOUND + 1]
            \in [OUTBOUND : Nat, INBOUND : Nat]
      BY DEF TypeOK
    <2>5. booked' \in [Financings -> [OUTBOUND : Nat, INBOUND : Nat]]
      BY <1>14, <2>4 DEF disburse, TypeOK
    <2>6. fin' \in [Financings -> FinancingStatus]
      BY <1>14 DEF disburse, TypeOK, FinancingStatus
    <2> QED
      BY <1>14, <2>2, <2>3, <2>5, <2>6 DEF disburse, TypeOK
  <1>15. ASSUME NEW f \in Financings, collect(f)
         PROVE  TypeOK'
    <2> PICK p \in Payments : /\ payment' = [payment EXCEPT ![p].status = "CONFIRMED"]
                              /\ recon' = [recon EXCEPT ![p] = @ + 1]
      BY <1>15 DEF collect, PaymentsOf, TypeOK
    <2>1. payment' \in [Payments -> PaymentRow]
      BY RowType DEF PaymentStatus
    <2>2. recon' \in [Payments -> Nat]
      BY DEF TypeOK
    <2>3. [booked[f] EXCEPT !.INBOUND = booked[f].INBOUND + 1]
            \in [OUTBOUND : Nat, INBOUND : Nat]
      BY DEF TypeOK
    <2>4. booked' \in [Financings -> [OUTBOUND : Nat, INBOUND : Nat]]
      BY <1>15, <2>3 DEF collect, TypeOK
    <2>5. fin' \in [Financings -> FinancingStatus]
      BY <1>15 DEF collect, TypeOK, FinancingStatus
    <2> QED
      BY <1>15, <2>1, <2>2, <2>4, <2>5 DEF collect, TypeOK
  <1>16. CASE UNCHANGED vars
    BY <1>16 DEF vars, TypeOK
  <1> QED
    BY <1>1, <1>2, <1>3, <1>4, <1>5, <1>6, <1>7, <1>8, <1>9, <1>10, <1>11, <1>12,
       <1>13, <1>14, <1>15, <1>16 DEF Next, Step, Continue

\* Whatever overlaps or crashes, every row keeps its type.
THEOREM TypeCorrect == Spec => []TypeOK
  <1>1. Init => TypeOK
    BY InitType
  <1>2. TypeOK /\ [Next]_vars => TypeOK'
    BY NextType
  <1> QED
    BY <1>1, <1>2, PTL DEF Spec
-----------------------------------------------------------------------------
(* LedgerHasRecon and MoneyMovesForAReason *)

\* What no step takes back.
Growth ==
  /\ \A p \in Payments : /\ p \in manual => p \in manual'
                         /\ provider[p] > 0 => provider'[p] > 0
                         /\ recon[p] > 0 => recon'[p] > 0
                         /\ payment[p].ref => payment'[p].ref
  /\ \A w \in Webhooks : event[w] # "none" => event'[w] # "none"

LEMMA StatusKeepsReferences ==
  ASSUME TypeOK, NEW p \in Payments, NEW s,
         payment' = [payment EXCEPT ![p].status = s]
  PROVE  \A x \in Payments : payment'[x].ref = payment[x].ref
  <1> TAKE x \in Payments
  <1>1. payment[p] \in PaymentRow
    BY DEF TypeOK
  <1>2. [payment[p] EXCEPT !.status = s].ref = payment[p].ref
    BY <1>1 DEF PaymentRow
  <1> QED
    BY <1>2 DEF TypeOK

LEMMA NothingIsTakenBack ==
  ASSUME TypeOK, [Next]_vars
  PROVE  Growth
  <1>1. ASSUME NEW r \in Requests, NEW p \in Payments,
               initiateProviderPayment(r, p) \/ verifyProviderPayment(r, p)
        PROVE  Growth
    BY <1>1 DEF initiateProviderPayment, verifyProviderPayment, Growth
  <1>2. ASSUME NEW r \in Requests, NEW p \in Payments, confirm(r, p)
        PROVE  Growth
    <2>1. \A x \in Payments : payment'[x].ref = payment[x].ref
      BY <1>2, StatusKeepsReferences DEF confirm
    <2> QED
      BY <1>2, <2>1 DEF confirm, Growth
  <1>3. ASSUME NEW r \in Requests, NEW w \in Webhooks, processProviderWebhook(r, w)
        PROVE  Growth
    BY <1>3 DEF processProviderWebhook, Growth
  <1>4. ASSUME NEW r \in Requests, callProvider(r)
        PROVE  Growth
    <2>1. req[r].payment \in Payments
      BY <1>4, InFlightFields DEF callProvider, at
    <2>2. \A p \in Payments : provider[p] > 0 => provider'[p] > 0
      BY <1>4, <2>1 DEF callProvider, TypeOK
    <2> QED
      BY <1>4, <2>2 DEF callProvider, Growth
  <1>5. ASSUME NEW r \in Requests, storeResult(r)
        PROVE  Growth
    <2>1. req[r].payment \in Payments
      BY <1>5, InFlightFields DEF storeResult, at
    <2>2. \A p \in Payments : payment[p].ref => payment'[p].ref
      BY <1>5, <2>1 DEF storeResult, TypeOK
    <2> QED
      BY <1>5, <2>2 DEF storeResult, Growth
  <1>6. ASSUME NEW r \in Requests, createEvent(r) \/ markProcessed(r)
        PROVE  Growth
    BY <1>6 DEF createEvent, markProcessed, Growth, TypeOK
  <1>7. ASSUME NEW r \in Requests, updatePayment(r)
        PROVE  Growth
    <2>1. req[r].payment \in Payments
      BY <1>7, InFlightFields DEF updatePayment, at
    <2>2. \A p \in Payments : payment'[p].ref = payment[p].ref
      BY <1>7, <2>1, StatusKeepsReferences DEF updatePayment
    <2> QED
      BY <1>7, <2>2 DEF updatePayment, Growth
  <1>8. ASSUME NEW r \in Requests, findReconciliation(r) \/ findLedger(r) \/ abandon(r)
        PROVE  Growth
    BY <1>8 DEF findReconciliation, findLedger, abandon, Growth
  <1>9. ASSUME NEW r \in Requests, applyConfirmedPayment(r)
        PROVE  Growth
    <2>1. req[r].payment \in Payments
      BY <1>9, InFlightFields DEF applyConfirmedPayment, at
    <2>2. \A p \in Payments : recon[p] > 0 => recon'[p] > 0
      BY <1>9, <2>1 DEF applyConfirmedPayment, TypeOK
    <2> QED
      BY <1>9, <2>2 DEF applyConfirmedPayment, Growth
  <1>10. ASSUME NEW p \in Payments, create(p) \/ fail(p) \/ markPaymentReturned(p)
         PROVE  Growth
    <2>1. \A x \in Payments : payment'[x].ref = payment[x].ref
      BY <1>10, StatusKeepsReferences DEF create, fail, markPaymentReturned
    <2> QED
      BY <1>10, <2>1 DEF create, fail, markPaymentReturned, Growth
  <1>11. ASSUME NEW f \in Financings, disburse(f)
         PROVE  Growth
    <2>1. \A x \in Payments : payment'[x].ref = payment[x].ref
      BY <1>11 DEF disburse, TypeOK, PaymentRow
    <2>2. \A x \in Payments : recon[x] > 0 => recon'[x] > 0
      BY <1>11 DEF disburse, TypeOK
    <2> QED
      BY <1>11, <2>1, <2>2 DEF disburse, Growth
  <1>12. ASSUME NEW f \in Financings, collect(f)
         PROVE  Growth
    <2> PICK p \in Payments : /\ payment' = [payment EXCEPT ![p].status = "CONFIRMED"]
                              /\ recon' = [recon EXCEPT ![p] = @ + 1]
      BY <1>12 DEF collect, PaymentsOf, TypeOK
    <2>1. \A x \in Payments : payment'[x].ref = payment[x].ref
      BY StatusKeepsReferences
    <2>2. \A x \in Payments : recon[x] > 0 => recon'[x] > 0
      BY DEF TypeOK
    <2> QED
      BY <1>12, <2>1, <2>2 DEF collect, Growth
  <1>13. CASE UNCHANGED vars
    BY <1>13 DEF vars, Growth
  <1> QED
    BY <1>1, <1>2, <1>3, <1>4, <1>5, <1>6, <1>7, <1>8, <1>9, <1>10, <1>11, <1>12,
       <1>13 DEF Next, Step, Continue

LEMMA ReasonsStay ==
  ASSUME TypeOK, [Next]_vars, NEW p \in Payments, Reason(p)
  PROVE  Reason(p)'
  BY NothingIsTakenBack DEF Reason, Growth, signatureValid

LEMMA ConfirmedIsSuccess ==
  ASSUME NEW s, mapProviderStatus(s) = "CONFIRMED"
  PROVE  s = "success"
  BY DEF mapProviderStatus

LEMMA UntouchedRequest ==
  ASSUME TypeOK, [Next]_vars, NEW r \in Requests, RequestIsBacked(r), req'[r] = req[r]
  PROVE  RequestIsBacked(r)'
  <1>1. CASE req[r] = Idle
    BY <1>1 DEF RequestIsBacked, at
  <1>2. CASE req[r] # Idle
    <2>1. req[r].payment \in Payments
      BY <1>2, InFlightFields
    <2>2. Reason(req[r].payment) => Reason(req[r].payment)'
      BY <2>1, ReasonsStay
    <2> QED
      BY <1>2, <2>1, <2>2, NothingIsTakenBack
      DEF RequestIsBacked, Growth, at, signatureValid
  <1> QED
    BY <1>1, <1>2

\* A request that applies a confirmation next, or ends, is backed when its
\* payment has a reason.
LEMMA AppliedRequest ==
  ASSUME TypeOK, [Next]_vars, NEW r \in Requests, req[r] # Idle, NEW s,
         applyIfConfirmed(r, s), s = "CONFIRMED" => Reason(req[r].payment)
  PROVE  RequestIsBacked(r)'
  <1>1. CASE s # "CONFIRMED"
    <2>1. req'[r] = Idle
      BY <1>1 DEF applyIfConfirmed, TypeOK
    <2> QED
      BY <2>1 DEF RequestIsBacked, at
  <1>2. CASE s = "CONFIRMED"
    <2>1. req'[r] = [req[r] EXCEPT !.phase = "recon"]
      BY <1>2 DEF applyIfConfirmed, TypeOK
    <2>2. /\ req'[r].phase = "recon" /\ req'[r].payment = req[r].payment
      BY <2>1, InFlightFields DEF InFlight, Phases
    <2> PICK p \in Payments : p = req[r].payment
      BY InFlightFields
    <2>3. Reason(p)'
      BY <1>2, ReasonsStay
    <2> QED
      BY <2>2, <2>3 DEF RequestIsBacked, at, Reason
  <1> QED
    BY <1>1, <1>2
-----------------------------------------------------------------------------
LEMMA RequestsStayBacked ==
  ASSUME TypeOK, PostingInv, [Next]_vars, NEW x \in Requests
  PROVE  RequestIsBacked(x)'
  <1> USE SettlementAssumption
  <1>0. RequestIsBacked(x)
    BY DEF PostingInv
  <1>1. CASE req'[x] = req[x]
    BY <1>0, <1>1, UntouchedRequest
  <1>2. CASE req'[x] = Idle
    BY <1>2 DEF RequestIsBacked, at
  <1> SUFFICES ASSUME req'[x] # req[x], req'[x] # Idle PROVE RequestIsBacked(x)'
    BY <1>1, <1>2
  <1>3. ASSUME NEW p \in Payments, initiateProviderPayment(x, p)
        PROVE  RequestIsBacked(x)'
    <2>1. req'[x] = newRequest("initiate", p, "call")
      BY <1>3 DEF initiateProviderPayment, start, TypeOK
    <2> QED
      BY <2>1 DEF newRequest, RequestIsBacked, at
  <1>4. ASSUME NEW p \in Payments, verifyProviderPayment(x, p)
        PROVE  RequestIsBacked(x)'
    <2>1. req'[x] = newRequest("verify", p, "call")
      BY <1>4 DEF verifyProviderPayment, start, TypeOK
    <2>2. provider'[p] > 0
      BY <1>4 DEF verifyProviderPayment, PostingInv
    <2> QED
      BY <2>1, <2>2 DEF newRequest, RequestIsBacked, at
  <1>5. ASSUME NEW p \in Payments, confirm(x, p)
        PROVE  RequestIsBacked(x)'
    <2>1. req'[x] = newRequest("confirm", p, "recon")
      BY <1>5 DEF confirm, start, TypeOK
    <2>2. Reason(p)'
      BY <1>5 DEF confirm, Reason
    <2>3. req'[x].payment = p /\ req'[x].phase = "recon"
      BY <2>1 DEF newRequest
    <2> QED
      BY <2>2, <2>3 DEF RequestIsBacked, at, Reason
  <1>6. ASSUME NEW w \in Webhooks, processProviderWebhook(x, w)
        PROVE  RequestIsBacked(x)'
    <2>1. req'[x] = [newRequest("webhook", Notification[w].payment, "event") EXCEPT
                       !.webhook = w, !.found = findPaymentForWebhook(w)]
      BY <1>6 DEF processProviderWebhook, start, TypeOK
    <2>2. /\ req'[x].phase = "event" /\ req'[x].webhook = w
          /\ req'[x].payment = Notification[w].payment
      BY <2>1 DEF newRequest
    <2> QED
      BY <2>2 DEF RequestIsBacked, at
  <1>7. CASE callProvider(x)
    <2>1. req[x] # Idle
      BY <1>7 DEF callProvider, at
    <2> PICK p \in Payments : p = req[x].payment
      BY <2>1, InFlightFields
    <2>2. PICK s : /\ req' = [req EXCEPT ![x] = [@ EXCEPT !.phase = "store", !.result = s]]
                   /\ s = "success" => Outcome[p] = "success"
                   /\ provider'[p] > 0
      <3>1. CASE req[x].kind = "initiate" /\ provider' = [provider EXCEPT ![p] = @ + 1]
                 /\ req' = [req EXCEPT ![x] = [@ EXCEPT !.phase = "store",
                                                        !.result = initiateResult(p)]]
        <4>1. initiateResult(p) = "success" => Outcome[p] = "success"
          BY DEF initiateResult
        <4>2. provider'[p] > 0
          BY <3>1 DEF TypeOK
        <4> QED
          BY <3>1, <4>1, <4>2
      <3>2. CASE /\ req[x].kind = "verify"
                 /\ req' = [req EXCEPT ![x] = [@ EXCEPT !.phase = "store",
                                                        !.result = verifyResult(p)]]
                 /\ provider' = provider
        <4>1. verifyResult(p) = "success" => Outcome[p] = "success"
          BY DEF verifyResult
        <4>2. provider'[p] > 0
          BY <1>0, <1>7, <3>2 DEF callProvider, RequestIsBacked
        <4> QED
          BY <3>2, <4>1, <4>2
      <3> QED
        BY <1>7, <3>1, <3>2 DEF callProvider
    <2>3. /\ req'[x].phase = "store" /\ req'[x].payment = p /\ req'[x].result = s
      <3>1. req'[x] = [req[x] EXCEPT !.phase = "store", !.result = s]
        BY <2>2 DEF TypeOK
      <3> QED
        BY <2>1, <3>1, InFlightFields DEF InFlight, Phases
    <2> QED
      BY <2>2, <2>3 DEF RequestIsBacked, at
  <1>8. CASE storeResult(x)
    <2> DEFINE s == mapProviderStatus(req[x].result)
    <2>1. req[x] # Idle
      BY <1>8 DEF storeResult, at
    <2>2. s = "CONFIRMED" => Reason(req[x].payment)
      BY <1>0, <1>8, ConfirmedIsSuccess DEF storeResult, RequestIsBacked, Reason
    <2>3. applyIfConfirmed(x, s)
      BY <1>8 DEF storeResult
    <2> HIDE DEF s
    <2> QED
      BY <2>1, <2>2, <2>3, AppliedRequest
  <1>9. CASE createEvent(x)
    <2>1. req[x] # Idle
      BY <1>9 DEF createEvent, at
    <2> PICK w \in Webhooks : w = req[x].webhook
      BY <1>0, <1>9 DEF createEvent, RequestIsBacked
    <2>2. req'[x] = [req[x] EXCEPT !.phase = "update"] /\ signatureValid(w)
      BY <1>9 DEF createEvent, TypeOK
    <2>3. /\ req'[x].phase = "update" /\ req'[x].webhook = w
          /\ req'[x].payment = req[x].payment
      BY <2>1, <2>2, InFlightFields DEF InFlight, Phases
    <2>4. event'[w] # "none"
      BY <1>9 DEF createEvent, TypeOK
    <2>5. req[x].payment = Notification[w].payment
      BY <1>0, <1>9 DEF createEvent, RequestIsBacked
    <2> QED
      BY <2>2, <2>3, <2>4, <2>5 DEF RequestIsBacked, at, signatureValid
  <1>10. CASE updatePayment(x)
    <2>1. req[x] # Idle
      BY <1>10 DEF updatePayment, at
    <2>2. req'[x] = [req[x] EXCEPT !.phase = "mark"]
      BY <1>10 DEF updatePayment, goto, TypeOK
    <2>3. /\ req'[x].phase = "mark" /\ req'[x].webhook = req[x].webhook
          /\ req'[x].payment = req[x].payment
      BY <2>1, <2>2, InFlightFields DEF InFlight, Phases
    <2> QED
      BY <1>0, <1>10, <2>3 DEF updatePayment, RequestIsBacked, at, signatureValid
  <1>11. CASE markProcessed(x)
    <2> PICK w \in Webhooks : w = req[x].webhook
      BY <1>0, <1>11 DEF markProcessed, RequestIsBacked
    <2> DEFINE s == mapProviderStatus(parsedStatus(w))
    <2>1. req[x] # Idle
      BY <1>11 DEF markProcessed, at
    <2>2. s = "CONFIRMED" => Reason(req[x].payment)
      <3>1. s = "CONFIRMED" => Notification[w].status = "success"
        BY ConfirmedIsSuccess DEF parsedStatus
      <3> QED
        BY <1>0, <1>11, <3>1 DEF markProcessed, RequestIsBacked, Reason
    <2>3. applyIfConfirmed(x, s)
      BY <1>11 DEF markProcessed
    <2> HIDE DEF s
    <2> QED
      BY <2>1, <2>2, <2>3, AppliedRequest
  <1>12. CASE findReconciliation(x)
    <2>1. req[x] # Idle
      BY <1>12 DEF findReconciliation, at
    <2> PICK p \in Payments : p = req[x].payment
      BY <2>1, InFlightFields
    <2>2. req'[x] = [req[x] EXCEPT !.phase = "ledger", !.needRecon = (recon[p] = 0)]
      BY <1>12 DEF findReconciliation, TypeOK
    <2>3. /\ req'[x].phase = "ledger" /\ req'[x].payment = p
          /\ req'[x].needRecon = (recon[p] = 0)
      BY <2>1, <2>2, InFlightFields DEF InFlight, Phases
    <2>4. req'[x].needRecon \/ recon'[p] > 0
      <3>1. recon[p] \in Nat /\ recon'[p] = recon[p]
        BY <1>12 DEF findReconciliation, TypeOK
      <3>2. CASE recon[p] = 0
        BY <2>3, <3>2, Zenon
      <3>3. CASE recon[p] > 0
        BY <3>1, <3>3
      <3> QED
        BY <3>1, <3>2, <3>3
    <2>5. Reason(p)'
      BY <1>0, <1>12, ReasonsStay DEF findReconciliation, RequestIsBacked
    <2> QED
      BY <2>3, <2>4, <2>5 DEF RequestIsBacked, at, Reason
  <1>13. CASE findLedger(x)
    <2>1. req[x] # Idle
      BY <1>13 DEF findLedger, at
    <2> PICK p \in Payments : p = req[x].payment
      BY <2>1, InFlightFields
    <2>2. req'[x] = [req[x] EXCEPT !.phase = "apply", !.needLedger = (p \in linked /\ ledger[p] = 0)]
      BY <1>13 DEF findLedger, TypeOK
    <2>3. /\ req'[x].phase = "apply" /\ req'[x].payment = p
          /\ req'[x].needRecon = req[x].needRecon
      BY <2>1, <2>2, InFlightFields DEF InFlight, Phases
    <2>4. req'[x].needRecon \/ recon'[p] > 0
      BY <1>0, <1>13, <2>3 DEF findLedger, RequestIsBacked
    <2>5. Reason(p)'
      BY <1>0, <1>13, ReasonsStay DEF findLedger, RequestIsBacked
    <2> QED
      BY <2>3, <2>4, <2>5 DEF RequestIsBacked, at, Reason
  <1>14. CASE applyConfirmedPayment(x) \/ abandon(x)
    BY <1>14 DEF applyConfirmedPayment, abandon, TypeOK
  <1>15. ASSUME NEW r \in Requests, r # x,
                \/ \E p \in Payments : \/ initiateProviderPayment(r, p)
                                       \/ verifyProviderPayment(r, p) \/ confirm(r, p)
                \/ \E w \in Webhooks : processProviderWebhook(r, w)
                \/ Continue(r) \/ abandon(r)
         PROVE  req'[x] = req[x]
    BY <1>15 DEF initiateProviderPayment, verifyProviderPayment, confirm, start,
         processProviderWebhook, Continue, callProvider, storeResult, applyIfConfirmed,
         createEvent, updatePayment, goto, markProcessed, findReconciliation, findLedger,
         applyConfirmedPayment, abandon, TypeOK
  <1>16. ASSUME \/ \E p \in Payments : create(p) \/ fail(p) \/ markPaymentReturned(p)
                \/ \E f \in Financings : disburse(f) \/ collect(f)
                \/ UNCHANGED vars
         PROVE  req'[x] = req[x]
    BY <1>16 DEF create, fail, markPaymentReturned, disburse, collect, vars
  <1>17. PICK r \in Requests :
           \/ \E p \in Payments : \/ initiateProviderPayment(r, p)
                                  \/ verifyProviderPayment(r, p) \/ confirm(r, p)
           \/ \E w \in Webhooks : processProviderWebhook(r, w)
           \/ Continue(r) \/ abandon(r)
    BY <1>16 DEF Next, Step
  <1>18. r = x
    BY <1>15, <1>17
  <1> QED
    BY <1>3, <1>4, <1>5, <1>6, <1>7, <1>8, <1>9, <1>10, <1>11, <1>12, <1>13, <1>14,
       <1>17, <1>18 DEF Continue

LEMMA PostingsStayBacked ==
  ASSUME TypeOK, PostingInv, [Next]_vars
  PROVE  LedgerHasRecon' /\ MoneyMovesForAReason'
  <1>1. CASE \E r \in Requests : applyConfirmedPayment(r)
    <2> PICK r \in Requests : applyConfirmedPayment(r)
      BY <1>1
    <2> PICK p \in Payments : p = req[r].payment
      BY InFlightFields DEF applyConfirmedPayment, at
    <2>1. (req[r].needRecon \/ recon[p] > 0) /\ Reason(p)
      BY DEF PostingInv, RequestIsBacked, applyConfirmedPayment
    <2>2. recon'[p] > 0
      BY <2>1 DEF applyConfirmedPayment, TypeOK
    <2>3. \A q \in Payments : q # p => ledger'[q] = ledger[q] /\ recon'[q] = recon[q]
      BY DEF applyConfirmedPayment, TypeOK
    <2>4. LedgerHasRecon'
      BY <2>2, <2>3 DEF LedgerHasRecon, PostingInv
    <2>5. ASSUME NEW q \in Payments, ledger'[q] > 0
          PROVE  Reason(q)'
      BY <2>1, <2>3, <2>5, ReasonsStay DEF MoneyMovesForAReason, PostingInv
    <2> QED
      BY <2>4, <2>5 DEF MoneyMovesForAReason
  <1>2. CASE ~ \E r \in Requests : applyConfirmedPayment(r)
    <2>1. ledger' = ledger
      BY <1>2 DEF Next, Step, vars, initiateProviderPayment, verifyProviderPayment, confirm,
         processProviderWebhook, Continue, callProvider, storeResult, createEvent,
         updatePayment, markProcessed, findReconciliation, findLedger, abandon,
         create, fail, markPaymentReturned, disburse, collect
    <2>2. LedgerHasRecon'
      BY <2>1, NothingIsTakenBack DEF LedgerHasRecon, PostingInv, Growth
    <2>3. ASSUME NEW q \in Payments, ledger'[q] > 0
          PROVE  Reason(q)'
      BY <2>1, <2>3, ReasonsStay DEF MoneyMovesForAReason, PostingInv
    <2> QED
      BY <2>2, <2>3 DEF MoneyMovesForAReason
  <1> QED
    BY <1>1, <1>2

\* A reference is stored only after the provider was called.
LEMMA ReferencesStayBacked ==
  ASSUME TypeOK, PostingInv, [Next]_vars, NEW p \in Payments, payment'[p].ref
  PROVE  provider'[p] > 0
  <1>1. CASE payment[p].ref
    BY <1>1, NothingIsTakenBack DEF PostingInv, Growth
  <1>2. CASE ~ payment[p].ref
    <2>1. PICK r \in Requests : storeResult(r)
      <3>1. ASSUME NEW x \in Payments, NEW s, payment' = [payment EXCEPT ![x].status = s]
            PROVE  FALSE
        BY <1>2, <3>1, StatusKeepsReferences
      <3>2. ASSUME NEW f \in Financings, disburse(f)
            PROVE  FALSE
        BY <1>2, <3>2 DEF disburse, TypeOK, PaymentRow
      <3>3. ASSUME NEW f \in Financings, collect(f)
            PROVE  FALSE
        BY <3>1, <3>3 DEF collect, PaymentsOf, TypeOK
      <3>4. ASSUME NEW x \in Payments, create(x) \/ fail(x) \/ markPaymentReturned(x)
            PROVE  FALSE
        BY <3>1, <3>4 DEF create, fail, markPaymentReturned
      <3>5. ASSUME NEW r \in Requests, NEW x \in Payments, confirm(r, x)
            PROVE  FALSE
        BY <3>1, <3>5 DEF confirm
      <3>6. ASSUME NEW r \in Requests, updatePayment(r)
            PROVE  FALSE
        <4>1. req[r].payment \in Payments
          BY <3>6, InFlightFields DEF updatePayment, at
        <4> QED
          BY <3>1, <3>6, <4>1 DEF updatePayment
      <3>7. payment' # payment
        BY <1>2
      <3> QED
        BY <3>2, <3>3, <3>4, <3>5, <3>6, <3>7
        DEF Next, Step, vars, initiateProviderPayment, verifyProviderPayment,
            processProviderWebhook, Continue, callProvider, createEvent, markProcessed,
            findReconciliation, findLedger, applyConfirmedPayment, abandon
    <2>2. req[r].payment \in Payments
      BY <2>1, InFlightFields DEF storeResult, at
    <2>3. p = req[r].payment
      BY <1>2, <2>1, <2>2 DEF storeResult, TypeOK
    <2> QED
      BY <2>1, <2>3 DEF storeResult, PostingInv, RequestIsBacked
  <1> QED
    BY <1>1, <1>2

LEMMA InitPosting == Init => PostingInv
  BY DEF Init, PostingInv, LedgerHasRecon, MoneyMovesForAReason, RequestIsBacked, at, Idle

LEMMA PostingCorrect == Spec => [](TypeOK /\ PostingInv)
  <1>1. Init => TypeOK /\ PostingInv
    BY InitType, InitPosting
  <1>2. TypeOK /\ PostingInv /\ [Next]_vars => (TypeOK /\ PostingInv)'
    <2> SUFFICES ASSUME TypeOK, PostingInv, [Next]_vars PROVE (TypeOK /\ PostingInv)'
      OBVIOUS
    <2>1. TypeOK'
      BY NextType
    <2>2. \A r \in Requests : RequestIsBacked(r)'
      BY RequestsStayBacked
    <2>3. LedgerHasRecon' /\ MoneyMovesForAReason'
      BY PostingsStayBacked
    <2>4. \A p \in Payments : payment'[p].ref => provider'[p] > 0
      BY ReferencesStayBacked
    <2> QED
      BY <2>1, <2>2, <2>3, <2>4 DEF PostingInv
  <1> QED
    BY <1>1, <1>2, PTL DEF Spec

\* No overlap and no crash leaves a posted payment without its reconciliation
\* item.
THEOREM PostingIsReconciled == Spec => []LedgerHasRecon
  <1>1. PostingInv => LedgerHasRecon
    BY DEF PostingInv
  <1> QED
    BY <1>1, PostingCorrect, PTL

\* No failed, pending, returned or badly signed notification, and no answer
\* that is not a success, ever reaches the ledger.
THEOREM PostingHasAReason == Spec => []MoneyMovesForAReason
  <1>1. PostingInv => MoneyMovesForAReason
    BY DEF PostingInv
  <1> QED
    BY <1>1, PostingCorrect, PTL
-----------------------------------------------------------------------------
(* Deployments whose clients and provider do not overlap two requests on one *)
(* payment: what a handler has read of the payment is still so when it acts  *)
(* on it.                                                                    *)

Apart ==
  \A r, q \in Requests :
    req[r] # Idle /\ req[q] # Idle /\ req[r].payment = req[q].payment => r = q

\* A payment that is not created yet, or that is still to be paid out of a
\* funded financing, is not reconciled.
Settled(p) ==
  /\ ledger[p] <= 1 /\ recon[p] <= 1
  /\ payment[p].status = "NONE" => recon[p] = 0 /\ ~payment[p].ref
  /\ p \in linked /\ Direction[p] = "OUTBOUND" /\ fin[FinancingOf[p]] = "FUNDED" =>
       recon[p] = 0

\* A handler past the lookup of its payment works on an existing one, and what
\* applyConfirmedPayment has read inside its transaction is still so.
Current(r) ==
  LET p == req[r].payment
  IN req[r] # Idle =>
       /\ req[r].phase # "event" \/ req[r].found => payment[p].status # "NONE"
       /\ req[r].phase \in {"ledger", "apply"} => (req[r].needRecon <=> recon[p] = 0)
       /\ req[r].phase = "apply" => (req[r].needLedger <=> p \in linked /\ ledger[p] = 0)

SettledInv == /\ Apart
              /\ \A p \in Payments : Settled(p)
              /\ \A r \in Requests : Current(r)

\* The provider was called once for a payment: its reference is stored, or the
\* handler that called is about to store it.
Called(p) ==
  /\ provider[p] <= 1
  /\ provider[p] > 0 => \/ payment[p].ref
                        \/ \E r \in Requests : at(r, "store") /\ req[r].payment = p

CallsInv ==
  /\ \A p \in Payments : Called(p)
  /\ \A r \in Requests : at(r, "call") /\ req[r].kind = "initiate" =>
       ~payment[req[r].payment].ref

\* How the entry of a request changes: it starts, moves on, or ends.
Starts(r) ==
  /\ req[r] = Idle
  /\ \/ \E p \in Payments : \/ initiateProviderPayment(r, p)
                            \/ verifyProviderPayment(r, p) \/ confirm(r, p)
     \/ \E w \in Webhooks : processProviderWebhook(r, w)

LEMMA RequestSteps ==
  ASSUME TypeOK, [Next]_vars
  PROVE  \/ req' = req
         \/ \E r \in Requests :
              /\ \A x \in Requests : x # r => req'[x] = req[x]
              /\ \/ Starts(r)
                 \/ req[r] # Idle /\ (Continue(r) \/ abandon(r))
  <1>1. ASSUME NEW r \in Requests, NEW p \in Payments,
               initiateProviderPayment(r, p) \/ verifyProviderPayment(r, p) \/ confirm(r, p)
        PROVE  Starts(r) /\ \A x \in Requests : x # r => req'[x] = req[x]
    <2>1. req[r] = Idle /\ \A x \in Requests : x # r => req'[x] = req[x]
      BY <1>1 DEF initiateProviderPayment, verifyProviderPayment, confirm, start, TypeOK
    <2> QED
      BY <1>1, <2>1 DEF Starts
  <1>2. ASSUME NEW r \in Requests, NEW w \in Webhooks, processProviderWebhook(r, w)
        PROVE  Starts(r) /\ \A x \in Requests : x # r => req'[x] = req[x]
    <2>1. req[r] = Idle /\ \A x \in Requests : x # r => req'[x] = req[x]
      BY <1>2 DEF processProviderWebhook, start, TypeOK
    <2> QED
      BY <1>2, <2>1 DEF Starts
  <1>3. ASSUME NEW r \in Requests, Continue(r) \/ abandon(r)
        PROVE  req[r] # Idle /\ \A x \in Requests : x # r => req'[x] = req[x]
    BY <1>3
    DEF Continue, abandon, callProvider, storeResult, applyIfConfirmed, createEvent,
        updatePayment, goto, markProcessed, findReconciliation, findLedger,
        applyConfirmedPayment, at, TypeOK
  <1>4. ASSUME \/ \E p \in Payments : create(p) \/ fail(p) \/ markPaymentReturned(p)
               \/ \E f \in Financings : disburse(f) \/ collect(f)
               \/ UNCHANGED vars
        PROVE  req' = req
    BY <1>4 DEF create, fail, markPaymentReturned, disburse, collect, vars
  <1> QED
    BY <1>1, <1>2, <1>3, <1>4 DEF Next, Step

\* The entry of a request that moves on or ends.
LEMMA Continued ==
  ASSUME TypeOK, NEW r \in Requests, Continue(r) \/ abandon(r)
  PROVE  /\ req[r] \in InFlight /\ req[r] # Idle
         /\ req'[r] # Idle => /\ req'[r].payment = req[r].payment
                              /\ req'[r].kind = req[r].kind
                              /\ req'[r].found = req[r].found
                              /\ req'[r].phase # "call"
  <1>1. req[r] # Idle /\ req[r] \in InFlight
    BY InFlightFields
    DEF Continue, abandon, callProvider, storeResult, createEvent, updatePayment,
        markProcessed, findReconciliation, findLedger, applyConfirmedPayment, at
  <1>2. CASE callProvider(r)
    <2>1. \/ req'[r] = [req[r] EXCEPT !.phase = "store",
                                     !.result = initiateResult(req[r].payment)]
          \/ req'[r] = [req[r] EXCEPT !.phase = "store",
                                     !.result = verifyResult(req[r].payment)]
      BY <1>2 DEF callProvider, TypeOK
    <2> QED
      BY <1>1, <2>1 DEF InFlight
  <1>3. CASE storeResult(r) \/ markProcessed(r)
    <2>1. req'[r] = Idle \/ req'[r] = [req[r] EXCEPT !.phase = "recon"]
      BY <1>3 DEF storeResult, markProcessed, applyIfConfirmed, TypeOK
    <2> QED
      BY <1>1, <2>1 DEF InFlight
  <1>4. CASE createEvent(r)
    <2>1. req'[r] = Idle \/ req'[r] = [req[r] EXCEPT !.phase = "update"]
      BY <1>4 DEF createEvent, TypeOK
    <2> QED
      BY <1>1, <2>1 DEF InFlight
  <1>5. CASE updatePayment(r)
    <2>1. req'[r] = [req[r] EXCEPT !.phase = "mark"]
      BY <1>5 DEF updatePayment, goto, TypeOK
    <2> QED
      BY <1>1, <2>1 DEF InFlight
  <1>6. CASE findReconciliation(r) \/ findLedger(r)
    <2>1. \/ req'[r] = [req[r] EXCEPT !.phase = "ledger",
                                     !.needRecon = (recon[req[r].payment] = 0)]
          \/ req'[r] = [req[r] EXCEPT !.phase = "apply",
                !.needLedger = (req[r].payment \in linked /\ ledger[req[r].payment] = 0)]
      BY <1>6 DEF findReconciliation, findLedger, TypeOK
    <2> QED
      BY <1>1, <2>1 DEF InFlight
  <1>7. CASE applyConfirmedPayment(r) \/ abandon(r)
    BY <1>1, <1>7 DEF applyConfirmedPayment, abandon, TypeOK
  <1> QED
    BY <1>1, <1>2, <1>3, <1>4, <1>5, <1>6, <1>7 DEF Continue

\* The entry of a request that starts.
LEMMA Started ==
  ASSUME TypeOK, SerialPerPayment, NEW r \in Requests, Starts(r)
  PROVE  /\ req'[r] # Idle => ~ Busy(req'[r].payment)
         /\ req'[r].payment \in Payments
         /\ \/ /\ req'[r].phase = "call"
               /\ payment[req'[r].payment].status # "NONE" \/ payment[req'[r].payment].ref
               /\ req'[r].kind = "initiate" => ~ payment[req'[r].payment].ref
               /\ payment' = payment
            \/ /\ req'[r].phase = "recon"
               /\ payment[req'[r].payment].status # "NONE"
            \/ /\ req'[r].phase = "event" /\ payment' = payment
               /\ req'[r].found => \/ payment[req'[r].payment].status # "NONE"
                                   \/ payment[req'[r].payment].ref
  <1>1. ASSUME NEW q, start(r, q)
        PROVE  req'[r] = q /\ ~ Busy(q.payment)
    BY <1>1 DEF start, TypeOK
  <1>2. ASSUME NEW p \in Payments, initiateProviderPayment(r, p)
        PROVE  /\ req'[r].payment = p /\ req'[r].kind = "initiate"
               /\ req'[r].phase = "call" /\ ~ Busy(p)
               /\ payment[p].status # "NONE" /\ ~ payment[p].ref /\ payment' = payment
    BY <1>1, <1>2 DEF initiateProviderPayment, newRequest
  <1>3. ASSUME NEW p \in Payments, verifyProviderPayment(r, p)
        PROVE  /\ req'[r].payment = p /\ req'[r].kind = "verify"
               /\ req'[r].phase = "call" /\ ~ Busy(p)
               /\ payment[p].ref /\ payment' = payment
    BY <1>1, <1>3 DEF verifyProviderPayment, newRequest
  <1>4. ASSUME NEW p \in Payments, confirm(r, p)
        PROVE  /\ req'[r].payment = p /\ req'[r].kind = "confirm"
               /\ req'[r].phase = "recon" /\ ~ Busy(p)
               /\ payment[p].status # "NONE"
    BY <1>1, <1>4 DEF confirm, newRequest
  <1>5. ASSUME NEW w \in Webhooks, processProviderWebhook(r, w)
        PROVE  LET p == Notification[w].payment
               IN /\ req'[r].payment = p /\ req'[r].phase = "event"
                  /\ req'[r].found = findPaymentForWebhook(w) /\ ~ Busy(p)
                  /\ payment' = payment /\ p \in Payments
    <2> DEFINE q == [newRequest("webhook", Notification[w].payment, "event") EXCEPT
                       !.webhook = w, !.found = findPaymentForWebhook(w)]
    <2>1. /\ q.payment = Notification[w].payment /\ q.phase = "event"
          /\ q.found = findPaymentForWebhook(w)
      BY DEF newRequest
    <2>2. start(r, q) /\ payment' = payment
      BY <1>5 DEF processProviderWebhook
    <2> HIDE DEF q
    <2> QED
      BY <1>1, <2>1, <2>2, ParsedType
  <1>6. CASE \E p \in Payments : initiateProviderPayment(r, p)
    BY <1>2, <1>6
  <1>7. CASE \E p \in Payments : verifyProviderPayment(r, p)
    BY <1>3, <1>7
  <1>8. CASE \E p \in Payments : confirm(r, p)
    BY <1>4, <1>8
  <1>9. CASE \E w \in Webhooks : processProviderWebhook(r, w)
    BY <1>5, <1>9 DEF findPaymentForWebhook
  <1> QED
    BY <1>6, <1>7, <1>8, <1>9 DEF Starts

LEMMA ApartStep ==
  ASSUME TypeOK, SerialPerPayment, Apart, [Next]_vars
  PROVE  Apart'
  <1>1. CASE req' = req
    BY <1>1 DEF Apart
  <1>2. ASSUME NEW r \in Requests, \A x \in Requests : x # r => req'[x] = req[x],
               Starts(r)
        PROVE  Apart'
    BY <1>2, Started DEF Apart, Busy
  <1>3. ASSUME NEW r \in Requests, \A x \in Requests : x # r => req'[x] = req[x],
               Continue(r) \/ abandon(r)
        PROVE  Apart'
    BY <1>3, Continued DEF Apart
  <1> QED
    BY <1>1, <1>2, <1>3, RequestSteps

LEMMA StatusWritten ==
  ASSUME TypeOK, NEW x \in Payments, NEW s, s # "NONE",
         payment' = [payment EXCEPT ![x].status = s],
         NEW p \in Payments, payment'[p].status = "NONE"
  PROVE  payment'[p] = payment[p]
  <1>1. [payment[x] EXCEPT !.status = s].status = s
    BY DEF TypeOK, PaymentRow
  <1> QED
    BY <1>1 DEF TypeOK

LEMMA StatusOfAnswer ==
  ASSUME NEW s
  PROVE  mapProviderStatus(s) # "NONE"
  BY StatusOfResult DEF PaymentStatus

\* A payment that is not created after a step was not touched by it.
LEMMA UncreatedRow ==
  ASSUME TypeOK, [Next]_vars, NEW p \in Payments, payment'[p].status = "NONE"
  PROVE  payment'[p] = payment[p]
  <1>1. ASSUME NEW r \in Requests, NEW x \in Payments, confirm(r, x)
        PROVE  payment'[p] = payment[p]
    BY <1>1, StatusWritten DEF confirm
  <1>2. ASSUME NEW x \in Payments, create(x) \/ fail(x) \/ markPaymentReturned(x)
        PROVE  payment'[p] = payment[p]
    BY <1>2, StatusWritten DEF create, fail, markPaymentReturned
  <1>3. ASSUME NEW r \in Requests, updatePayment(r)
        PROVE  payment'[p] = payment[p]
    <2>1. req[r].payment \in Payments
      BY <1>3, InFlightFields DEF updatePayment, at
    <2> QED
      BY <1>3, <2>1, StatusWritten, StatusOfAnswer DEF updatePayment
  <1>4. ASSUME NEW r \in Requests, storeResult(r)
        PROVE  payment'[p] = payment[p]
    <2>1. req[r].payment \in Payments
      BY <1>4, InFlightFields DEF storeResult, at
    <2> QED
      BY <1>4, <2>1, StatusOfAnswer DEF storeResult, TypeOK
  <1>5. ASSUME NEW f \in Financings, disburse(f)
        PROVE  payment'[p] = payment[p]
    <2>1. [payment[p] EXCEPT !.status = "CONFIRMED"].status = "CONFIRMED"
      BY DEF TypeOK, PaymentRow
    <2> QED
      BY <1>5, <2>1 DEF disburse
  <1>6. ASSUME NEW f \in Financings, collect(f)
        PROVE  payment'[p] = payment[p]
    BY <1>6, StatusWritten DEF collect, PaymentsOf
  <1>7. CASE payment' = payment
    BY <1>7
  <1> QED
    BY <1>1, <1>2, <1>3, <1>4, <1>5, <1>6, <1>7
    DEF Next, Step, vars, initiateProviderPayment, verifyProviderPayment,
        processProviderWebhook, Continue, callProvider, createEvent, markProcessed,
        findReconciliation, findLedger, applyConfirmedPayment, abandon

LEMMA MoneyMoves ==
  ASSUME [Next]_vars, ~ \E r \in Requests : applyConfirmedPayment(r),
         ~ \E f \in Financings : disburse(f) \/ collect(f)
  PROVE  ledger' = ledger /\ recon' = recon /\ fin' = fin
  BY DEF Next, Step, vars, initiateProviderPayment, verifyProviderPayment, confirm,
     processProviderWebhook, Continue, callProvider, storeResult, createEvent,
     updatePayment, markProcessed, findReconciliation, findLedger, abandon,
     create, fail, markPaymentReturned

\* What a confirmation that is applied, a disbursement and a collection do to
\* each payment's ledger entries and reconciliation items.
LEMMA AppliedRows ==
  ASSUME TypeOK, NEW r \in Requests, applyConfirmedPayment(r)
  PROVE  LET q == req[r].payment
         IN /\ q \in Payments /\ req[r] # Idle /\ req[r].phase = "apply"
            /\ payment' = payment
            /\ \A p \in Payments : p # q => ledger'[p] = ledger[p] /\ recon'[p] = recon[p]
            /\ recon'[q] = IF req[r].needRecon THEN recon[q] + 1 ELSE recon[q]
            /\ ledger'[q] = IF req[r].needLedger THEN ledger[q] + 1 ELSE ledger[q]
            /\ req[r].needLedger => fin'[FinancingOf[q]] # "FUNDED"
            /\ \A f \in Financings : fin'[f] = "FUNDED" => fin[f] = "FUNDED"
  BY InFlightFields DEF applyConfirmedPayment, at, TypeOK

LEMMA DisbursedRows ==
  ASSUME TypeOK, NEW f \in Financings, disburse(f)
  PROVE  /\ ledger' = ledger /\ fin' = [fin EXCEPT ![f] = "DISBURSED"]
         /\ \A p \in Payments :
              IF p \in linked /\ FinancingOf[p] = f /\ Direction[p] = "OUTBOUND"
              THEN /\ recon'[p] = recon[p] + 1 /\ payment'[p].status = "CONFIRMED"
                   /\ fin[FinancingOf[p]] = "FUNDED"
                   /\ SerialPerPayment => ~ Busy(p)
              ELSE recon'[p] = recon[p] /\ payment'[p] = payment[p]
  <1>1. \A p \in Payments : [payment[p] EXCEPT !.status = "CONFIRMED"].status = "CONFIRMED"
    BY DEF TypeOK, PaymentRow
  <1> QED
    BY <1>1 DEF disburse, PaymentsOf

LEMMA CollectedRows ==
  ASSUME TypeOK, NEW f \in Financings, collect(f)
  PROVE  /\ ledger' = ledger /\ fin' = [fin EXCEPT ![f] = "COLLECTED"]
         /\ \E q \in Payments :
              /\ Direction[q] = "INBOUND" /\ payment[q].status = "NONE"
              /\ payment'[q].status = "CONFIRMED"
              /\ recon'[q] = recon[q] + 1
              /\ \A p \in Payments : p # q => recon'[p] = recon[p]
  <1>1. \A p \in Payments : [payment[p] EXCEPT !.status = "CONFIRMED"].status = "CONFIRMED"
    BY DEF TypeOK, PaymentRow
  <1> QED
    BY <1>1 DEF collect, PaymentsOf, TypeOK

LEMMA SettledStep ==
  ASSUME TypeOK, LedgerHasRecon, SettledInv, [Next]_vars, NEW p \in Payments
  PROVE  Settled(p)'
  <1>1. Settled(p) /\ ledger[p] \in Nat /\ recon[p] \in Nat
    BY DEF SettledInv, TypeOK
  <1>2. payment'[p].status = "NONE" => payment'[p] = payment[p]
    BY UncreatedRow
  <1>3. FinancingOf[p] \in Financings
    OBVIOUS
  <1> linked' = linked
    BY LinkedStays
  <1>4. ASSUME NEW r \in Requests, applyConfirmedPayment(r)
        PROVE  Settled(p)'
    <2>1. CASE p # req[r].payment
      BY <1>1, <1>2, <1>3, <1>4, <2>1, AppliedRows DEF Settled
    <2>2. CASE p = req[r].payment
      <3>1. /\ payment[p].status # "NONE"
            /\ req[r].needRecon <=> recon[p] = 0
            /\ req[r].needLedger <=> p \in linked /\ ledger[p] = 0
        BY <1>4, <2>2, AppliedRows DEF SettledInv, Current
      <3>2. ledger'[p] <= 1 /\ recon'[p] <= 1
        BY <1>1, <1>4, <2>2, <3>1, AppliedRows DEF Settled
      <3>3. p \in linked /\ fin'[FinancingOf[p]] = "FUNDED" =>
              ledger[p] # 0 /\ fin[FinancingOf[p]] = "FUNDED"
        BY <1>3, <1>4, <2>2, <3>1, AppliedRows
      <3>4. ledger[p] # 0 => recon[p] # 0
        BY <1>1 DEF LedgerHasRecon
      <3> QED
        BY <1>1, <1>4, <3>1, <3>2, <3>3, <3>4, AppliedRows DEF Settled
    <2> QED
      BY <2>1, <2>2
  <1>5. ASSUME NEW f \in Financings, disburse(f)
        PROVE  Settled(p)'
    BY <1>1, <1>2, <1>3, <1>5, DisbursedRows DEF Settled, TypeOK
  <1>6. ASSUME NEW f \in Financings, collect(f)
        PROVE  Settled(p)'
    BY <1>1, <1>2, <1>3, <1>6, CollectedRows DEF Settled, TypeOK
  <1>7. CASE ledger' = ledger /\ recon' = recon /\ fin' = fin
    BY <1>1, <1>2, <1>7 DEF Settled
  <1> QED
    BY <1>4, <1>5, <1>6, <1>7, MoneyMoves

LEMMA CurrentStep ==
  ASSUME TypeOK, SerialPerPayment, SettledInv, [Next]_vars, NEW x \in Requests
  PROVE  Current(x)'
  <1>1. \A p \in Payments : payment[p].ref => payment[p].status # "NONE"
    BY DEF SettledInv, Settled
  <1>2. \A p \in Payments : payment[p].status # "NONE" => payment'[p].status # "NONE"
    BY UncreatedRow
  <1> linked' = linked
    BY LinkedStays
  <1>3. ASSUME req'[x] # Idle, req[x] # Idle, req[x] = req'[x]
        PROVE  Current(x)'
    <2>1. PICK p \in Payments : p = req[x].payment
      BY <1>3, InFlightFields
    <2>2. /\ req[x].phase # "event" \/ req[x].found => payment[p].status # "NONE"
          /\ req[x].phase \in {"ledger", "apply"} => (req[x].needRecon <=> recon[p] = 0)
          /\ req[x].phase = "apply" => (req[x].needLedger <=> p \in linked /\ ledger[p] = 0)
      BY <1>3, <2>1 DEF SettledInv, Current
    <2>3. req[x].phase \in {"ledger", "apply"} => recon'[p] = recon[p] /\ ledger'[p] = ledger[p]
      <3>1. ASSUME NEW r \in Requests, applyConfirmedPayment(r)
            PROVE  recon'[p] = recon[p] /\ ledger'[p] = ledger[p]
        <4>1. r # x
          BY <1>3, <3>1 DEF applyConfirmedPayment, TypeOK
        <4>2. req[r].payment # p
          BY <1>3, <2>1, <3>1, <4>1, AppliedRows DEF SettledInv, Apart
        <4> QED
          BY <3>1, <4>2, AppliedRows
      <3>2. ASSUME NEW f \in Financings, disburse(f)
            PROVE  recon'[p] = recon[p] /\ ledger'[p] = ledger[p]
        <4>1. Busy(p)
          BY <1>3, <2>1 DEF Busy
        <4> QED
          BY <3>2, <4>1, DisbursedRows
      <3>3. ASSUME NEW f \in Financings, collect(f), req[x].phase \in {"ledger", "apply"}
            PROVE  recon'[p] = recon[p] /\ ledger'[p] = ledger[p]
        BY <2>2, <3>3, CollectedRows
      <3> QED
        BY <3>1, <3>2, <3>3, MoneyMoves
    <2> QED
      BY <1>2, <1>3, <2>1, <2>2, <2>3 DEF Current
  <1>4. ASSUME Starts(x)
        PROVE  Current(x)'
    <2>1. PICK p \in Payments : p = req'[x].payment
      BY <1>4, Started
    <2>2. req'[x].phase # "event" \/ req'[x].found => payment[p].status # "NONE"
      BY <1>1, <1>4, <2>1, Started
    <2>3. req'[x].phase \notin {"ledger", "apply"}
      BY <1>4, Started
    <2> QED
      BY <1>2, <2>1, <2>2, <2>3 DEF Current
  <1>5. ASSUME Continue(x) \/ abandon(x), req'[x] # Idle
        PROVE  Current(x)'
    <2>1. /\ req[x] \in InFlight /\ req[x] # Idle /\ req[x].payment \in Payments
          /\ req'[x].payment = req[x].payment /\ req'[x].found = req[x].found
      BY <1>5, Continued, InFlightFields
    <2>2. PICK p \in Payments : p = req[x].payment
      BY <2>1
    <2>3. /\ req[x].phase # "event" \/ req[x].found => payment[p].status # "NONE"
          /\ req[x].phase = "ledger" => (req[x].needRecon <=> recon[p] = 0)
      BY <2>1, <2>2 DEF SettledInv, Current
    <2>4. payment'[p].status # "NONE"
      <3>1. CASE createEvent(x)
        BY <1>2, <1>5, <2>2, <2>3, <3>1 DEF createEvent, TypeOK
      <3>2. CASE ~ createEvent(x)
        <4>1. req[x].phase # "event"
          BY <1>5, <3>2
          DEF Continue, abandon, callProvider, storeResult, updatePayment, markProcessed,
              findReconciliation, findLedger, applyConfirmedPayment, at, TypeOK
        <4> QED
          BY <1>2, <2>3, <4>1
      <3> QED
        BY <3>1, <3>2
    <2>5. CASE findReconciliation(x)
      <3>1. req'[x] = [req[x] EXCEPT !.phase = "ledger", !.needRecon = (recon[p] = 0)]
        BY <2>2, <2>5 DEF findReconciliation, TypeOK
      <3>2. req'[x].phase = "ledger" /\ (req'[x].needRecon <=> recon[p] = 0)
        BY <2>1, <3>1 DEF InFlight
      <3>3. recon' = recon
        BY <2>5 DEF findReconciliation
      <3> QED
        BY <2>1, <2>2, <2>4, <3>2, <3>3 DEF Current
    <2>6. CASE findLedger(x)
      <3>1. req'[x] = [req[x] EXCEPT !.phase = "apply", !.needLedger = (p \in linked /\ ledger[p] = 0)]
        BY <2>2, <2>6 DEF findLedger, TypeOK
      <3>2. /\ req'[x].phase = "apply" /\ (req'[x].needLedger <=> p \in linked /\ ledger[p] = 0)
            /\ req'[x].needRecon = req[x].needRecon
        BY <2>1, <3>1 DEF InFlight
      <3>3. /\ recon' = recon /\ ledger' = ledger /\ req[x].phase = "ledger"
        BY <2>6 DEF findLedger, at
      <3> QED
        BY <2>1, <2>2, <2>3, <2>4, <3>2, <3>3 DEF Current
    <2>7. CASE ~ findReconciliation(x) /\ ~ findLedger(x)
      <3>1. \/ req'[x] = Idle
            \/ \E phase \in {"recon", "update", "mark"} :
                 req'[x] = [req[x] EXCEPT !.phase = phase]
            \/ callProvider(x)
        BY <1>5, <2>7
        DEF Continue, abandon, storeResult, applyIfConfirmed, createEvent, updatePayment,
            goto, markProcessed, applyConfirmedPayment, TypeOK
      <3>2. callProvider(x) =>
              \/ req'[x] = [req[x] EXCEPT !.phase = "store", !.result = initiateResult(p)]
              \/ req'[x] = [req[x] EXCEPT !.phase = "store", !.result = verifyResult(p)]
        BY <2>2 DEF callProvider, TypeOK
      <3>3. req'[x].phase \notin {"ledger", "apply"}
        BY <1>5, <2>1, <3>1, <3>2 DEF InFlight
      <3> QED
        BY <2>1, <2>2, <2>4, <3>3 DEF Current
    <2> QED
      BY <2>5, <2>6, <2>7
  <1>6. CASE req'[x] = Idle
    BY <1>6 DEF Current
  <1> QED
    BY <1>3, <1>4, <1>5, <1>6, RequestSteps

LEMMA SettledInit == Init => SettledInv
  BY DEF Init, SettledInv, Apart, Settled, Current

LEMMA SettledCorrect ==
  ASSUME SerialPerPayment
  PROVE  Spec => []SettledInv
  <1>1. TypeOK /\ LedgerHasRecon /\ SettledInv /\ [Next]_vars => SettledInv'
    BY ApartStep, SettledStep, CurrentStep DEF SettledInv
  <1> QED
    BY <1>1, SettledInit, TypeCorrect, PostingIsReconciled, PTL DEF Spec

\* However often a payment is initiated, verified, confirmed by hand and
\* notified, and wherever the process stops in between, it is posted once and
\* reconciled once when its requests do not overlap.
THEOREM PaymentsPostOnce ==
  ASSUME SerialPerPayment
  PROVE  Spec => []PostedOnce
  <1>1. SettledInv => PostedOnce
    BY DEF SettledInv, Settled, PostedOnce
  <1> QED
    BY <1>1, SettledCorrect, PTL
-----------------------------------------------------------------------------
(* One call of the provider for each payment                                  *)

LEMMA CallsStep ==
  ASSUME TypeOK, SerialPerPayment, "store" \notin Crashes, Apart, CallsInv, [Next]_vars
  PROVE  CallsInv'
  <1>1. \A p \in Payments : payment[p].ref => payment'[p].ref
    BY NothingIsTakenBack DEF Growth
  <1>2. ASSUME NEW p \in Payments, payment'[p].ref, ~ payment[p].ref
        PROVE  \E r \in Requests : storeResult(r) /\ req[r].payment = p
    <2>1. \A x \in Payments : \A s :
            payment' = [payment EXCEPT ![x].status = s] => payment'[p].ref = payment[p].ref
      BY StatusKeepsReferences
    <2>2. ASSUME NEW f \in Financings, disburse(f)
          PROVE  FALSE
      BY <1>2, <2>2 DEF disburse, TypeOK, PaymentRow
    <2>3. ASSUME NEW f \in Financings, collect(f)
          PROVE  FALSE
      BY <1>2, <2>1, <2>3 DEF collect, PaymentsOf
    <2>4. ASSUME NEW x \in Payments, create(x) \/ fail(x) \/ markPaymentReturned(x)
          PROVE  FALSE
      BY <1>2, <2>1, <2>4 DEF create, fail, markPaymentReturned
    <2>5. ASSUME NEW r \in Requests, NEW x \in Payments, confirm(r, x)
          PROVE  FALSE
      BY <1>2, <2>1, <2>5 DEF confirm
    <2>6. ASSUME NEW r \in Requests, updatePayment(r)
          PROVE  FALSE
      <3>1. req[r].payment \in Payments
        BY <2>6, InFlightFields DEF updatePayment, at
      <3> QED
        BY <1>2, <2>1, <2>6, <3>1 DEF updatePayment
    <2>7. PICK r \in Requests : storeResult(r)
      BY <1>2, <2>2, <2>3, <2>4, <2>5, <2>6
      DEF Next, Step, vars, initiateProviderPayment, verifyProviderPayment,
          processProviderWebhook, Continue, callProvider, createEvent, markProcessed,
          findReconciliation, findLedger, applyConfirmedPayment, abandon
    <2>8. req[r].payment = p
      BY <1>2, <2>7 DEF storeResult, TypeOK
    <2> QED
      BY <2>7, <2>8
  <1>3. ASSUME NEW x \in Requests, at(x, "call")', req'[x].kind = "initiate"
        PROVE  ~ payment'[req'[x].payment].ref
    <2>1. PICK p : p = req'[x].payment
      OBVIOUS
    <2>2. CASE req'[x] = req[x]
      <3>1. /\ p \in Payments /\ ~ payment[p].ref /\ req[x] # Idle
            /\ req[x].phase = "call"
        BY <1>3, <2>1, <2>2, InFlightFields DEF CallsInv, at
      <3>2. \A r \in Requests : req[r] # Idle /\ req[r].payment = p => r = x
        BY <2>1, <2>2, <3>1 DEF Apart
      <3>3. ~ \E r \in Requests : storeResult(r) /\ req[r].payment = p
        BY <3>1, <3>2 DEF storeResult, at
      <3> QED
        BY <1>2, <2>1, <3>1, <3>3
    <2>3. CASE Starts(x)
      <3>1. /\ p \in Payments /\ ~ payment[p].ref /\ payment' = payment
        BY <1>3, <2>1, <2>3, Started DEF at
      <3> QED
        BY <2>1, <3>1
    <2>4. CASE Continue(x) \/ abandon(x)
      <3>1. req'[x].phase # "call"
        BY <1>3, <2>4, Continued DEF at
      <3> QED
        BY <1>3, <3>1 DEF at
    <2> QED
      BY <2>2, <2>3, <2>4, RequestSteps
  <1>4. ASSUME NEW p \in Payments
        PROVE  Called(p)'
    <2>1. Called(p) /\ provider[p] \in Nat
      BY DEF CallsInv, TypeOK
    <2>2. CASE \E r \in Requests : callProvider(r) /\ req[r].payment = p
                                   /\ req[r].kind = "initiate"
      <3>1. PICK r \in Requests : /\ callProvider(r) /\ req[r].payment = p
                                  /\ req[r].kind = "initiate"
        BY <2>2
      <3>2. at(r, "call") /\ ~ payment[p].ref
        BY <3>1 DEF callProvider, CallsInv
      <3>3. provider[p] = 0
        <4>1. ASSUME NEW q \in Requests, at(q, "store"), req[q].payment = p
              PROVE  FALSE
          BY <3>1, <3>2, <4>1 DEF Apart, at
        <4> QED
          BY <2>1, <3>2, <4>1 DEF Called
      <3>4. provider'[p] = 1
        BY <3>1, <3>3 DEF callProvider, TypeOK
      <3>5. req'[r] = [req[r] EXCEPT !.phase = "store", !.result = initiateResult(p)]
        BY <3>1 DEF callProvider, TypeOK
      <3>6. at(r, "store")' /\ req'[r].payment = p
        <4>1. req[r] \in InFlight
          BY <3>2, InFlightFields DEF at
        <4> QED
          BY <3>1, <3>5, <4>1 DEF at, InFlight, Idle
      <3> QED
        BY <3>4, <3>6 DEF Called
    <2>3. CASE ~ \E r \in Requests : callProvider(r) /\ req[r].payment = p
                                     /\ req[r].kind = "initiate"
      <3>1. provider'[p] = provider[p]
        BY <2>3
        DEF Next, Step, vars, initiateProviderPayment, verifyProviderPayment, confirm,
            processProviderWebhook, Continue, callProvider, storeResult, createEvent,
            updatePayment, markProcessed, findReconciliation, findLedger,
            applyConfirmedPayment, abandon, create, fail, markPaymentReturned, disburse,
            collect, TypeOK
      <3>2. ASSUME NEW r \in Requests, at(r, "store"), req[r].payment = p
            PROVE  payment'[p].ref \/ (at(r, "store")' /\ req'[r].payment = p)
        <4>1. CASE req'[r] = req[r]
          BY <3>2, <4>1 DEF at
        <4>2. CASE req'[r] # req[r]
          <5>1. Continue(r) \/ abandon(r)
            BY <3>2, <4>2, RequestSteps DEF Starts, at
          <5>2. storeResult(r)
            BY <3>2, <5>1
            DEF Continue, abandon, callProvider, createEvent, updatePayment,
                markProcessed, findReconciliation, findLedger, applyConfirmedPayment, at
          <5> QED
            BY <3>2, <5>2 DEF storeResult, TypeOK
        <4> QED
          BY <4>1, <4>2
      <3> QED
        BY <1>1, <2>1, <3>1, <3>2 DEF Called
    <2> QED
      BY <2>2, <2>3
  <1> QED
    BY <1>3, <1>4 DEF CallsInv

LEMMA CallsInit == Init => CallsInv
  BY DEF Init, CallsInv, Called, at

\* One payment row never becomes two payments at the provider, when its requests
\* do not overlap and the process does not stop between the provider's answer
\* and the update that stores it.
THEOREM ProviderPaysOnce ==
  ASSUME SerialPerPayment, "store" \notin Crashes
  PROVE  Spec => []InitiatedOnce
  <1>1. TypeOK /\ SettledInv /\ CallsInv /\ [Next]_vars => CallsInv'
    BY CallsStep DEF SettledInv
  <1>2. CallsInv => InitiatedOnce
    BY DEF CallsInv, Called, InitiatedOnce
  <1> QED
    BY <1>1, <1>2, CallsInit, SettledCorrect, TypeCorrect, PTL DEF Spec
=============================================================================
