--------------------------- MODULE FinancingProofs ---------------------------
(***************************************************************************)
(* Proofs about Financing for any number of invoices and requests, any set *)
(* of endpoints and any bound.                                             *)
(***************************************************************************)
EXTENDS Financing, TLAPS, SumTheorems

LEMMA PostLedgerType ==
  ASSUME NEW l \in [Accounts -> Totals], NEW d \in Accounts, NEW c \in Accounts,
         NEW n \in Nat
  PROVE  postLedgerEntries(l, d, c, n) \in [Accounts -> Totals]
  BY DEF postLedgerEntries, Accounts, Totals

LEMMA ConfirmOutboundType ==
  ASSUME NEW ps \in Seq(Payment), NEW seen \in Nat, NEW n
  PROVE  /\ confirmOutbound(ps, seen, n) \in Seq(Payment)
         /\ Len(confirmOutbound(ps, seen, n)) = Len(ps)
  <1> DEFINE cs == confirmOutbound(ps, seen, n)
  <1>1. DOMAIN ps = 1..Len(ps) /\ Len(ps) \in Nat
    OBVIOUS
  <1>2. \A k \in 1..Len(ps) : ps[k] \in Payment
    OBVIOUS
  <1>3. DOMAIN cs = 1..Len(ps)
    BY <1>1 DEF confirmOutbound
  <1>4. ASSUME NEW k \in 1..Len(ps)
        PROVE  cs[k] \in Payment
    <2>1. ps[k] \in Payment /\ ps[k].recon \in Nat /\ ps[k].amount \in Nat
      BY <1>2 DEF Payment
    <2>2. newPayment("OUTBOUND", ps[k].amount, "CONFIRMED",
                     IF k <= seen THEN ps[k].recon + 1 ELSE ps[k].recon) \in Payment
      BY <2>1 DEF Payment, newPayment
    <2> QED
      BY <1>1, <2>1, <2>2 DEF confirmOutbound
  <1>5. cs \in [1..Len(ps) -> Payment]
    BY <1>1, <1>3, <1>4 DEF confirmOutbound
  <1> QED
    BY <1>1, <1>5

LEMMA SettlementsType ==
  ASSUME NEW obs \in Seq(Obligation), NEW b, NEW new \in settlements(obs, b)
  PROVE  /\ new \in Seq(Obligation)
         /\ Len(new) = Len(obs)
         /\ \A k \in 1..Len(obs) :
              \/ new[k] = obs[k]
              \/ /\ k \in DOMAIN b.obligations /\ collectionCovers(b, k)
                 /\ new[k] = paidObligation(obs[k])
  <1>1. CASE new = obs
    BY <1>1
  <1>2. CASE b.obligations # <<>>
    <2>1. PICK m \in DOMAIN b.obligations :
            collectionCovers(b, m) /\ new = settle(obs, m)
      BY <1>2 DEF settlements
    <2>2. \A k \in 1..Len(obs) : paidObligation(obs[k]) \in Obligation
      <3> TAKE k \in 1..Len(obs)
      <3>1. obs[k] \in Obligation
        OBVIOUS
      <3> QED
        BY <3>1 DEF paidObligation, Obligation
    <2>3. /\ DOMAIN new = 1..Len(obs) /\ new = [k \in 1..Len(obs) |-> new[k]]
          /\ \A k \in 1..Len(obs) :
               new[k] = IF k = m THEN paidObligation(obs[k]) ELSE obs[k]
      <3>1. DOMAIN obs = 1..Len(obs)
        OBVIOUS
      <3>2. new = [k \in DOMAIN obs |->
                     IF k = m THEN paidObligation(obs[m]) ELSE obs[k]]
        BY <2>1, Zenon DEF settle
      <3> QED
        BY <3>1, <3>2
    <2>4. \A k \in 1..Len(obs) : new[k] \in Obligation
      BY <2>2, <2>3
    <2>5. new \in [1..Len(obs) -> Obligation]
      BY <2>3, <2>4
    <2> QED
      BY <2>1, <2>3, <2>5
  <1> QED
    BY <1>1, <1>2 DEF settlements

LEMMA InFlightFields ==
  ASSUME TypeOK, NEW r \in Requests, req[r] # Idle
  PROVE  /\ req[r] \in InFlight
         /\ req[r].target \in Invoices /\ req[r].before \in Snapshot
         /\ req[r].before.fin \in Financing
         /\ req[r].before.fin.amount \in Nat /\ req[r].before.fin.net \in Nat
         /\ req[r].before.obligations \in Seq(Obligation)
         /\ req[r].seen \in Nat
  BY DEF TypeOK, InFlight, Snapshot, Financing

LEMMA CommittedType ==
  ASSUME TypeOK, NEW r \in Requests, req[r] # Idle, Committed(r)
  PROVE  req' \in [Requests -> {Idle} \cup InFlight]
  <1>1. req[r] \in InFlight
    BY InFlightFields
  <1>2. [req[r] EXCEPT !.phase = "committed"] \in InFlight
    BY <1>1 DEF InFlight
  <1> QED
    BY <1>2 DEF Committed, TypeOK

LEMMA StatusType ==
  ASSUME NEW f \in [Invoices -> Financing], NEW i \in Invoices,
         NEW s \in FinancingStatus
  PROVE  /\ [f EXCEPT ![i].status = s] \in [Invoices -> Financing]
         /\ [f EXCEPT ![i].status = s][i].status = s
         /\ \A j \in Invoices : j # i => [f EXCEPT ![i].status = s][j] = f[j]
  <1>1. [f[i] EXCEPT !.status = s] \in Financing
    BY DEF Financing
  <1>2. [f[i] EXCEPT !.status = s].status = s
    BY DEF Financing
  <1> QED
    BY <1>1, <1>2

LEMMA InitType == Init => TypeOK
  <1> SUFFICES ASSUME Init PROVE TypeOK
    OBVIOUS
  <1>1. \A i \in Invoices : fin[i] \in Financing
    BY DEF Init, NoFinancing, Financing, FinancingStatus
  <1>2. ledger \in [Invoices -> [Accounts -> Totals]]
    BY DEF Init, Totals
  <1> QED
    BY <1>1, <1>2 DEF Init, TypeOK, InvoiceStatus

LEMMA NextType == TypeOK /\ [Next]_vars => TypeOK'
  <1> SUFFICES ASSUME TypeOK, [Next]_vars PROVE TypeOK'
    OBVIOUS
  <1> USE FinancingAssumption
  <1>1. ASSUME NEW r \in Requests, NEW i \in Invoices, NEW op \in Ops,
               findOne(r, i, op)
        PROVE  TypeOK'
    <2> DEFINE b == [fin |-> fin[i], invoice |-> invoice[i],
                     obligations |-> obligations[i]]
               q == [phase |-> "read", op |-> op, target |-> i, before |-> b, seen |-> 0]
    <2>1. b \in Snapshot
      BY DEF Snapshot, TypeOK
    <2>2. q \in InFlight
      BY <2>1 DEF InFlight
    <2>3. req' = [req EXCEPT ![r] = q]
      BY <1>1 DEF findOne
    <2> QED
      BY <1>1, <2>2, <2>3 DEF findOne, TypeOK
  <1>2. ASSUME NEW r \in Requests, checkOutbound(r) \/ countOpenObligations(r)
        PROVE  TypeOK'
    <2>1. req[r] # Idle /\ req[r] \in InFlight /\ req[r].target \in Invoices
      BY <1>2, InFlightFields DEF checkOutbound, countOpenObligations
    <2>2. Len(payments[req[r].target]) \in Nat
      BY <2>1 DEF TypeOK
    <2>3. \A n \in Nat : [req[r] EXCEPT !.phase = "checked", !.seen = n] \in InFlight
      BY <2>1 DEF InFlight
    <2>4. [req[r] EXCEPT !.phase = "checked"] \in InFlight
      BY <2>1 DEF InFlight
    <2>5. req' \in [Requests -> {Idle} \cup InFlight]
      BY <1>2, <2>2, <2>3, <2>4 DEF checkOutbound, countOpenObligations, TypeOK
    <2> QED
      BY <1>2, <2>5 DEF checkOutbound, countOpenObligations, TypeOK
  <1>3. ASSUME NEW r \in Requests, Commit(r)
        PROVE  TypeOK'
    <2> DEFINE i == req[r].target  b == req[r].before
    <2>1. req[r] # Idle /\ Committed(r)
      BY <1>3 DEF Commit, createOfferFromInvoice, accept, fund, disburse, collect,
                  close, remove, approveInvoice, removeInvoice, ReadyToCommit
    <2>2. req' \in [Requests -> {Idle} \cup InFlight]
      BY <2>1, CommittedType
    <2>3. /\ i \in Invoices /\ b \in Snapshot /\ b.fin.amount \in Nat
          /\ b.fin.net \in Nat /\ req[r].seen \in Nat
      BY <2>1, InFlightFields
    <2>4. \A s \in FinancingStatus :
            [fin EXCEPT ![i].status = s] \in [Invoices -> Financing]
      BY <2>3, StatusType DEF TypeOK
    <2>5. \A s \in InvoiceStatus :
            [invoice EXCEPT ![i] = s] \in [Invoices -> InvoiceStatus]
      BY <2>3 DEF TypeOK
    <2>6. ledger[i] \in [Accounts -> Totals] /\ payments[i] \in Seq(Payment)
          /\ obligations[i] \in Seq(Obligation)
      BY <2>3 DEF TypeOK
    <2> HIDE DEF i, b
    <2> USE DEF ReadyToCommit
    <2>7. CASE createOfferFromInvoice(r)
      <3>1. [status |-> "OFFERED", amount |-> InvoiceAmount[i],
             net |-> NetProceeds[i]] \in Financing
        BY <2>3 DEF Financing, FinancingStatus
      <3> QED
        BY <2>7, <2>2, <2>3, <2>5, <3>1 DEF createOfferFromInvoice, TypeOK, InvoiceStatus, i
    <2>8. CASE accept(r)
      BY <2>8, <2>2, <2>4, <2>5 DEF accept, TypeOK, InvoiceStatus, FinancingStatus, i
    <2>9. CASE fund(r)
      <3>1. Append(payments[i], newPayment("OUTBOUND", b.fin.net, "INITIATED", 0))
              \in Seq(Payment)
        BY <2>3, <2>6 DEF newPayment, Payment
      <3>2. Append(obligations[i], newObligation(b.fin.amount)) \in Seq(Obligation)
        BY <2>3, <2>6 DEF newObligation, Obligation
      <3>3. postLedgerEntries(ledger[i], "1200", "2100", b.fin.amount)
              \in [Accounts -> Totals]
        BY <2>3, <2>6, PostLedgerType DEF Accounts
      <3>4. "FUNDED" \in FinancingStatus
        BY DEF FinancingStatus
      <3>5. /\ payments' = [payments EXCEPT ![i] =
                  Append(payments[i], newPayment("OUTBOUND", b.fin.net, "INITIATED", 0))]
            /\ obligations' = [obligations EXCEPT ![i] =
                  Append(obligations[i], newObligation(b.fin.amount))]
            /\ ledger' = [ledger EXCEPT ![i] =
                  postLedgerEntries(ledger[i], "1200", "2100", b.fin.amount)]
            /\ allocations' = [allocations EXCEPT ![i] = allocations[i] + 1]
            /\ fin' = [fin EXCEPT ![i].status = "FUNDED"]
            /\ UNCHANGED <<invoice, events>>
        BY <2>9, <2>3 DEF fund, i, b, TypeOK
      <3> QED
        BY <2>2, <2>3, <2>4, <3>1, <3>2, <3>3, <3>4, <3>5 DEF TypeOK
    <2>10. CASE disburse(r)
      <3> PICK n \in req[r].seen .. Len(payments[i]) :
               payments' = [payments EXCEPT
                              ![i] = confirmOutbound(payments[i], req[r].seen, n)]
        BY <2>10, <2>3 DEF disburse, i, TypeOK
      <3>1. confirmOutbound(payments[i], req[r].seen, n) \in Seq(Payment)
        BY <2>3, <2>6, ConfirmOutboundType
      <3>2. postLedgerEntries(ledger[i], "2100", "1000", b.fin.net)
              \in [Accounts -> Totals]
        BY <2>3, <2>6, PostLedgerType DEF Accounts
      <3>3. "DISBURSED" \in FinancingStatus /\ "FINANCED" \in InvoiceStatus
        BY DEF FinancingStatus, InvoiceStatus
      <3>4. /\ invoice' = [invoice EXCEPT ![i] = "FINANCED"]
            /\ ledger' = [ledger EXCEPT ![i] =
                  postLedgerEntries(ledger[i], "2100", "1000", b.fin.net)]
            /\ fin' = [fin EXCEPT ![i].status = "DISBURSED"]
            /\ UNCHANGED <<obligations, allocations, events>>
        BY <2>10, <2>3 DEF disburse, i, b, TypeOK
      <3> QED
        BY <2>2, <2>3, <2>4, <2>5, <3>1, <3>2, <3>3, <3>4 DEF TypeOK
    <2>11. CASE collect(r)
      <3>1. Append(payments[i], newPayment("INBOUND", b.fin.amount, "CONFIRMED", 1))
              \in Seq(Payment)
        BY <2>3, <2>6 DEF newPayment, Payment
      <3> PICK obs \in settlements(obligations[i], b) :
               obligations' = [obligations EXCEPT ![i] = obs]
        BY <2>11, <2>3 DEF collect, i, b
      <3>2. obs \in Seq(Obligation)
        BY <2>6, SettlementsType
      <3>3. postLedgerEntries(ledger[i], "1000", "1200", b.fin.amount)
              \in [Accounts -> Totals]
        BY <2>3, <2>6, PostLedgerType DEF Accounts
      <3>4. "COLLECTED" \in FinancingStatus /\ "SETTLED" \in InvoiceStatus
        BY DEF FinancingStatus, InvoiceStatus
      <3>5. /\ payments' = [payments EXCEPT ![i] =
                  Append(payments[i], newPayment("INBOUND", b.fin.amount, "CONFIRMED", 1))]
            /\ invoice' = [invoice EXCEPT ![i] = "SETTLED"]
            /\ ledger' = [ledger EXCEPT ![i] =
                  postLedgerEntries(ledger[i], "1000", "1200", b.fin.amount)]
            /\ fin' = [fin EXCEPT ![i].status = "COLLECTED"]
            /\ UNCHANGED <<allocations, events>>
        BY <2>11, <2>3 DEF collect, i, b, TypeOK
      <3> QED
        BY <2>2, <2>3, <2>4, <2>5, <3>1, <3>2, <3>3, <3>4, <3>5 DEF TypeOK
    <2>12. CASE close(r)
      BY <2>12, <2>2, <2>4 DEF close, TypeOK, FinancingStatus, i
    <2>13. CASE remove(r)
      BY <2>13, <2>2, <2>4, <2>5 DEF remove, TypeOK, FinancingStatus, InvoiceStatus, i
    <2>14. CASE approveInvoice(r)
      BY <2>14, <2>2, <2>5 DEF approveInvoice, TypeOK, InvoiceStatus, i
    <2>15. CASE removeInvoice(r)
      BY <2>15, <2>2, <2>5 DEF removeInvoice, TypeOK, InvoiceStatus, i
    <2> QED
      BY <1>3, <2>7, <2>8, <2>9, <2>10, <2>11, <2>12, <2>13, <2>14, <2>15 DEF Commit
  <1>4. ASSUME NEW r \in Requests, queueWebhookDeliveries(r)
        PROVE  TypeOK'
    <2>1. req[r] # Idle
      BY <1>4 DEF queueWebhookDeliveries, Idle
    <2>2. req[r].op \in FinancingOps \cup InvoiceOps /\ req[r].target \in Invoices
      BY <2>1, InFlightFields DEF InFlight
    <2> QED
      BY <1>4, <2>2 DEF queueWebhookDeliveries, TypeOK
  <1>5. ASSUME NEW r \in Requests, abandon(r)
        PROVE  TypeOK'
    BY <1>5 DEF abandon, TypeOK
  <1>6. ASSUME NEW i \in Invoices, update(i)
        PROVE  TypeOK'
    <2>1. fin[i] \in Financing
      BY DEF TypeOK
    <2>2. \A a \in AmountPatches \cup NetPatches :
            /\ [fin[i] EXCEPT !.amount = a] \in Financing
            /\ [fin[i] EXCEPT !.net = a] \in Financing
      BY <2>1 DEF Financing
    <2>3. \A p \in StatusPatches : [fin[i] EXCEPT !.status = p[2]] \in Financing
      BY <2>1 DEF Financing
    <2>4. PICK row \in Financing : fin' = [fin EXCEPT ![i] = row]
      <3>1. CASE \E p \in StatusPatches : fin' = [fin EXCEPT ![i].status = p[2]]
        BY <3>1, <2>3
      <3>2. CASE \E a \in AmountPatches : fin' = [fin EXCEPT ![i].amount = a]
        BY <3>2, <2>2
      <3>3. CASE \E a \in NetPatches : fin' = [fin EXCEPT ![i].net = a]
        BY <3>3, <2>2
      <3> QED
        BY <1>6, <3>1, <3>2, <3>3 DEF update
    <2> QED
      BY <1>6, <2>4 DEF update, TypeOK
  <1>7. ASSUME NEW i \in Invoices, updateInvoice(i)
        PROVE  TypeOK'
    BY <1>7, FinancingAssumption DEF updateInvoice, TypeOK
  <1>8. CASE UNCHANGED vars
    BY <1>8 DEF vars, TypeOK
  <1> QED
    BY <1>1, <1>2, <1>3, <1>4, <1>5, <1>6, <1>7, <1>8 DEF Next

\* Every value of every row stays in its type, whatever the endpoints called.
THEOREM TypeCorrect == Spec => []TypeOK
  BY InitType, NextType, PTL DEF Spec
-----------------------------------------------------------------------------
(* The record invariant: statuses, obligations and events are backed by the   *)
(* records.  Records only grow, so what was on record when a handler read its *)
(* snapshot is still on record when it commits.                               *)

\* What one step may do to the payments and obligations of an invoice.
PaymentsGrow(old, new) ==
  /\ DOMAIN old \subseteq DOMAIN new
  /\ \A k \in DOMAIN old :
       /\ new[k].direction = old[k].direction
       /\ new[k].amount = old[k].amount
       /\ old[k].status = "CONFIRMED" => new[k].status = "CONFIRMED"

ObligationsGrow(old, new) ==
  /\ DOMAIN old \subseteq DOMAIN new
  /\ \A k \in DOMAIN old :
       /\ new[k].principal = old[k].principal
       /\ old[k].status = "PAID" => new[k].status = "PAID"

LEMMA NothingGrows ==
  ASSUME NEW x
  PROVE  PaymentsGrow(x, x) /\ ObligationsGrow(x, x)
  BY DEF PaymentsGrow, ObligationsGrow

LEMMA AppendPayment ==
  ASSUME NEW ps \in Seq(Payment), NEW p \in Payment
  PROVE  /\ PaymentsGrow(ps, Append(ps, p))
         /\ Len(ps) + 1 \in DOMAIN Append(ps, p)
         /\ Append(ps, p)[Len(ps) + 1] = p
  BY DEF PaymentsGrow

LEMMA AppendObligation ==
  ASSUME NEW os \in Seq(Obligation), NEW o \in Obligation
  PROVE  /\ ObligationsGrow(os, Append(os, o))
         /\ DOMAIN Append(os, o) = DOMAIN os \cup {Len(os) + 1}
         /\ Append(os, o)[Len(os) + 1] = o
         /\ \A k \in DOMAIN os : Append(os, o)[k] = os[k]
  BY DEF ObligationsGrow

LEMMA ConfirmGrows ==
  ASSUME NEW ps \in Seq(Payment), NEW seen \in Nat, NEW n
  PROVE  /\ PaymentsGrow(ps, confirmOutbound(ps, seen, n))
         /\ \A k \in OutboundIndices(ps) : k <= n =>
              /\ k \in OutboundIndices(confirmOutbound(ps, seen, n))
              /\ confirmOutbound(ps, seen, n)[k].status = "CONFIRMED"
  <1>1. DOMAIN confirmOutbound(ps, seen, n) = DOMAIN ps
    BY DEF confirmOutbound
  <1>2. ASSUME NEW k \in DOMAIN ps
        PROVE  LET q == confirmOutbound(ps, seen, n)[k]
               IN /\ q.direction = ps[k].direction /\ q.amount = ps[k].amount
                  /\ ps[k].direction = "OUTBOUND" /\ k <= n => q.status = "CONFIRMED"
                  /\ ps[k].status = "CONFIRMED" => q.status = "CONFIRMED"
    <2>1. CASE ps[k].direction = "OUTBOUND" /\ k <= n
      BY <2>1 DEF confirmOutbound, newPayment
    <2>2. CASE ~(ps[k].direction = "OUTBOUND" /\ k <= n)
      <3>1. confirmOutbound(ps, seen, n)[k] = ps[k]
        BY <2>2 DEF confirmOutbound
      <3> QED
        BY <2>2, <3>1
    <2> QED
      BY <2>1, <2>2
  <1> QED
    BY <1>1, <1>2 DEF PaymentsGrow, OutboundIndices

LEMMA SettleGrows ==
  ASSUME NEW obs \in Seq(Obligation), NEW b, NEW new \in settlements(obs, b)
  PROVE  ObligationsGrow(obs, new)
  <1>1. /\ DOMAIN new = 1..Len(obs) /\ DOMAIN obs = 1..Len(obs)
        /\ \A k \in 1..Len(obs) :
              new[k] = obs[k] \/ new[k] = paidObligation(obs[k])
    BY SettlementsType
  <1>2. \A o : paidObligation(o).principal = o.principal /\ paidObligation(o).status = "PAID"
    BY DEF paidObligation
  <1> QED
    BY <1>1, <1>2 DEF ObligationsGrow

\* No step forgets a payment, a confirmation or a paid obligation.
LEMMA RecordsGrow ==
  ASSUME TypeOK, [Next]_vars, NEW i \in Invoices
  PROVE  PaymentsGrow(payments[i], payments'[i])
         /\ ObligationsGrow(obligations[i], obligations'[i])
  <1> USE FinancingAssumption
  <1>1. payments[i] \in Seq(Payment) /\ obligations[i] \in Seq(Obligation)
    BY DEF TypeOK
  <1>2. CASE payments' = payments /\ obligations' = obligations
    BY <1>2, NothingGrows
  <1>3. ASSUME NEW r \in Requests, fund(r) \/ disburse(r) \/ collect(r)
        PROVE  PaymentsGrow(payments[i], payments'[i])
               /\ ObligationsGrow(obligations[i], obligations'[i])
    <2> DEFINE t == req[r].target  b == req[r].before
    <2>1. /\ req[r] # Idle
      BY <1>3 DEF fund, disburse, collect, ReadyToCommit
    <2>2. /\ t \in Invoices /\ b \in Snapshot /\ b.fin.amount \in Nat
          /\ b.fin.net \in Nat /\ req[r].seen \in Nat
      BY <2>1, InFlightFields
    <2>3. CASE fund(r)
      <3>1. newPayment("OUTBOUND", b.fin.net, "INITIATED", 0) \in Payment
        BY <2>2 DEF newPayment, Payment
      <3>2. newObligation(b.fin.amount) \in Obligation
        BY <2>2 DEF newObligation, Obligation
      <3>3. i # t => payments'[i] = payments[i] /\ obligations'[i] = obligations[i]
        BY <2>3, <2>2 DEF fund, TypeOK
      <3>4. i = t => /\ payments'[i] = Append(payments[i],
                             newPayment("OUTBOUND", b.fin.net, "INITIATED", 0))
                     /\ obligations'[i] = Append(obligations[i], newObligation(b.fin.amount))
        BY <2>3, <2>2 DEF fund, TypeOK
      <3> QED
        BY <1>1, <1>2, <3>1, <3>2, <3>3, <3>4, AppendPayment, AppendObligation,
           NothingGrows
    <2>4. CASE disburse(r)
      <3>1. obligations' = obligations
        BY <2>4 DEF disburse
      <3>2. i # t => payments'[i] = payments[i]
        BY <2>4, <2>2 DEF disburse, TypeOK
      <3>3. i = t => \E n \in Int : payments'[i] = confirmOutbound(payments[i], req[r].seen, n)
        BY <2>4, <2>2 DEF disburse, TypeOK
      <3> QED
        BY <1>1, <2>2, <3>1, <3>2, <3>3, ConfirmGrows, NothingGrows
    <2>5. CASE collect(r)
      <3>1. newPayment("INBOUND", b.fin.amount, "CONFIRMED", 1) \in Payment
        BY <2>2 DEF newPayment, Payment
      <3>2. i # t => payments'[i] = payments[i] /\ obligations'[i] = obligations[i]
        BY <2>5, <2>2 DEF collect, TypeOK
      <3>3. i = t => /\ payments'[i] = Append(payments[i],
                             newPayment("INBOUND", b.fin.amount, "CONFIRMED", 1))
                     /\ obligations'[i] \in settlements(obligations[i], b)
        BY <2>5, <2>2 DEF collect, TypeOK
      <3> QED
        <4>1. CASE i # t
          BY <4>1, <3>2, NothingGrows
        <4>2. CASE i = t
          <5>1. PaymentsGrow(payments[i], payments'[i])
            BY <1>1, <4>2, <3>1, <3>3, AppendPayment
          <5>2. PICK new \in settlements(obligations[i], b) : obligations'[i] = new
            BY <4>2, <3>3
          <5>3. ObligationsGrow(obligations[i], new)
            BY <1>1, SettleGrows
          <5> QED
            BY <5>1, <5>2, <5>3
        <4> QED
          BY <4>1, <4>2
    <2> QED
      BY <1>3, <2>3, <2>4, <2>5
  <1>4. \/ payments' = payments /\ obligations' = obligations
        \/ \E r \in Requests : fund(r) \/ disburse(r) \/ collect(r)
    BY DEF Next, vars, Commit, findOne, checkOutbound, countOpenObligations,
           createOfferFromInvoice, accept, close, remove, approveInvoice,
           removeInvoice, update, updateInvoice, queueWebhookDeliveries, abandon
  <1> QED
    BY <1>2, <1>3, <1>4

\* What is on record stays on record.
LEMMA EvidenceStays ==
  ASSUME TypeOK, [Next]_vars, NEW i \in Invoices
  PROVE  /\ Funded(i) => Funded(i)'
         /\ PaidOut(i) => PaidOut(i)'
         /\ Collected(i) => Collected(i)'
         /\ \A n \in 0..3 : Evidence(i, n) => Evidence(i, n)'
  <1>1. /\ PaymentsGrow(payments[i], payments'[i])
        /\ ObligationsGrow(obligations[i], obligations'[i])
    BY RecordsGrow
  <1>2. obligations[i] \in Seq(Obligation) /\ obligations'[i] \in Seq(Obligation)
    BY NextType DEF TypeOK
  <1>3. obligations[i] # <<>> => obligations'[i] # <<>>
    <2>1. obligations[i] # <<>> => 1 \in DOMAIN obligations[i]
      BY <1>2
    <2> QED
      BY <1>1, <1>2, <2>1 DEF ObligationsGrow
  <1>4. /\ OutboundIndices(payments[i]) \subseteq OutboundIndices(payments'[i])
        /\ InboundIndices(payments[i]) \subseteq InboundIndices(payments'[i])
    BY <1>1 DEF PaymentsGrow, OutboundIndices, InboundIndices
  <1>5. Funded(i) => Funded(i)'
    BY <1>3, <1>4 DEF Funded
  <1>6. PaidOut(i) => PaidOut(i)'
    BY <1>1, <1>4 DEF PaidOut, PaymentsGrow, OutboundIndices
  <1>7. Collected(i) => Collected(i)'
    BY <1>4 DEF Collected
  <1> QED
    BY <1>5, <1>6, <1>7 DEF Evidence

LEMMA LevelValues ==
  /\ \A s \in FinancingStatus \cup {"NONE"} : Level[s] \in 0..3
  /\ \A s \in {"NONE", "OFFERED", "ACCEPTED", "CANCELLED"} : Level[s] = 0
  /\ Level["FUNDED"] = 1
  /\ \A s \in {"DISBURSED", "MATURED", "DEFAULTED"} : Level[s] = 2
  /\ \A s \in {"COLLECTED", "CLOSED"} : Level[s] = 3
  BY DEF Level, FinancingStatus

LEMMA EvidenceDown ==
  ASSUME NEW i, NEW m \in 0..3, NEW n \in 0..3, n <= m, Evidence(i, m)
  PROVE  Evidence(i, n)
  BY DEF Evidence

\* What each of the three money movements puts on record.
LEMMA FundRecords ==
  ASSUME TypeOK, NEW r \in Requests, fund(r), NEW t, t = req[r].target
  PROVE  Funded(t)'
  <1> DEFINE b == req[r].before
             p == newPayment("OUTBOUND", b.fin.net, "INITIATED", 0)
             o == newObligation(b.fin.amount)
  <1>1. t \in Invoices /\ b.fin.amount \in Nat /\ b.fin.net \in Nat
    BY InFlightFields DEF fund, ReadyToCommit
  <1>2. /\ payments'[t] = Append(payments[t], p)
        /\ obligations'[t] = Append(obligations[t], o)
    BY <1>1 DEF fund, TypeOK
  <1>3. p \in Payment /\ p.direction = "OUTBOUND" /\ o \in Obligation
    BY <1>1 DEF newPayment, Payment, newObligation, Obligation
  <1>4. payments[t] \in Seq(Payment) /\ obligations[t] \in Seq(Obligation)
    BY <1>1 DEF TypeOK
  <1>5. Len(payments[t]) + 1 \in OutboundIndices(payments'[t])
    BY <1>2, <1>3, <1>4, AppendPayment DEF OutboundIndices
  <1>6. obligations'[t] # <<>>
    <2> HIDE DEF o
    <2>1. Len(Append(obligations[t], o)) = Len(obligations[t]) + 1
          /\ Len(obligations[t]) \in Nat
      BY <1>3, <1>4
    <2> QED
      BY <1>2, <2>1
  <1> QED
    BY <1>5, <1>6 DEF Funded

LEMMA DisburseRecords ==
  ASSUME TypeOK, NEW r \in Requests, disburse(r), NEW t, t = req[r].target,
         NEW k \in OutboundIndices(payments[t]), k <= req[r].seen
  PROVE  PaidOut(t)'
  <1>1. t \in Invoices /\ req[r].seen \in Nat
    BY InFlightFields DEF disburse, ReadyToCommit
  <1>2. payments[t] \in Seq(Payment)
    BY <1>1 DEF TypeOK
  <1>3. PICK n \in req[r].seen .. Len(payments[t]) :
          payments'[t] = confirmOutbound(payments[t], req[r].seen, n)
    BY <1>1 DEF disburse, TypeOK
  <1>4. k \in Nat /\ k <= n
    BY <1>1, <1>2, <1>3 DEF OutboundIndices
  <1>5. /\ k \in OutboundIndices(payments'[t])
        /\ payments'[t][k].status = "CONFIRMED"
    BY <1>1, <1>2, <1>3, <1>4, ConfirmGrows
  <1> QED
    BY <1>5 DEF PaidOut

LEMMA CollectRecords ==
  ASSUME TypeOK, NEW r \in Requests, collect(r), NEW t, t = req[r].target
  PROVE  /\ Collected(t)'
         /\ \E k \in InboundIndices(payments'[t]) :
              payments'[t][k].amount = req[r].before.fin.amount
  <1> DEFINE b == req[r].before
             p == newPayment("INBOUND", b.fin.amount, "CONFIRMED", 1)
  <1>1. t \in Invoices /\ b.fin.amount \in Nat
    BY InFlightFields DEF collect, ReadyToCommit
  <1>2. payments'[t] = Append(payments[t], p) /\ payments[t] \in Seq(Payment)
    BY <1>1 DEF collect, TypeOK
  <1>3. p \in Payment /\ p.direction = "INBOUND" /\ p.amount = b.fin.amount
    BY <1>1 DEF newPayment, Payment
  <1>4. /\ Len(payments[t]) + 1 \in InboundIndices(payments'[t])
        /\ payments'[t][Len(payments[t]) + 1].amount = b.fin.amount
    BY <1>2, <1>3, AppendPayment DEF InboundIndices
  <1> QED
    BY <1>4 DEF Collected

\* The committed transaction puts on record what its new status claims.
LEMMA CommitEvidence ==
  ASSUME TypeOK, SnapshotsAreBacked, NEW r \in Requests, Commit(r),
         NEW t, t = req[r].target, Evidence(t, Level[fin[t].status])
  PROVE  Evidence(t, Level[fin[t].status])'
  <1> DEFINE s == req[r].before.fin.status
  <1>1. req[r] # Idle
    BY DEF Commit, createOfferFromInvoice, accept, fund, disburse, collect, close,
           remove, approveInvoice, removeInvoice, ReadyToCommit
  <1>2. t \in Invoices /\ fin[t] \in Financing
    BY <1>1, InFlightFields DEF TypeOK
  <1>3. [Next]_vars
    BY DEF Next
  <1>4. req[r].op \in FinancingOps => s \in AllowedFrom[req[r].op] /\ Evidence(t, Level[s])
    BY <1>1 DEF SnapshotsAreBacked
  <1>5. /\ Funded(t) => Funded(t)'
        /\ PaidOut(t) => PaidOut(t)'
        /\ Collected(t) => Collected(t)'
    BY <1>2, <1>3, EvidenceStays
  <1>7. \A st \in FinancingStatus :
          fin' = [fin EXCEPT ![t].status = st] => fin'[t].status = st
    BY <1>2, StatusType DEF TypeOK
  <1>8. CASE createOfferFromInvoice(r)
    <2>1. Level[fin'[t].status] = 0
      BY <1>8, <1>2, LevelValues DEF createOfferFromInvoice, TypeOK
    <2> QED
      BY <2>1 DEF Evidence
  <1>9. CASE accept(r) \/ remove(r)
    <2>1. Level[fin'[t].status] = 0
      BY <1>9, <1>7, LevelValues DEF accept, remove, FinancingStatus
    <2> QED
      BY <2>1 DEF Evidence
  <1>10. CASE fund(r)
    <2>1. Level[fin'[t].status] = 1
      BY <1>10, <1>7, LevelValues DEF fund, FinancingStatus
    <2> QED
      BY <2>1, <1>10, FundRecords DEF Evidence
  <1>11. CASE disburse(r)
    <2>1. Level[fin'[t].status] = 2
      BY <1>11, <1>7, LevelValues DEF disburse, FinancingStatus
    <2>2. Funded(t)
      BY <1>11, <1>4, LevelValues
      DEF disburse, ReadyToCommit, FinancingOps, AllowedFrom, Evidence
    <2>3. \E k \in OutboundIndices(payments[t]) : k <= req[r].seen
      BY <1>11, <1>1 DEF disburse, ReadyToCommit, CheckingOps, SnapshotsAreBacked
    <2> QED
      BY <2>1, <2>2, <2>3, <1>5, <1>11, DisburseRecords DEF Evidence
  <1>12. CASE collect(r)
    <2>1. Level[fin'[t].status] = 3
      BY <1>12, <1>7, LevelValues DEF collect, FinancingStatus
    <2>2. Funded(t) /\ PaidOut(t)
      BY <1>12, <1>4, LevelValues
      DEF collect, ReadyToCommit, FinancingOps, AllowedFrom, Evidence
    <2> QED
      BY <2>1, <2>2, <1>5, <1>12, CollectRecords DEF Evidence
  <1>13. CASE close(r)
    <2>1. Level[fin'[t].status] = 3
      BY <1>13, <1>7, LevelValues DEF close, FinancingStatus
    <2>2. Funded(t) /\ PaidOut(t) /\ Collected(t)
      BY <1>13, <1>4, LevelValues
      DEF close, ReadyToCommit, FinancingOps, AllowedFrom, Evidence
    <2> QED
      BY <2>1, <2>2, <1>5 DEF Evidence
  <1>14. CASE approveInvoice(r) \/ removeInvoice(r)
    <2>1. fin' = fin
      BY <1>14 DEF approveInvoice, removeInvoice
    <2> QED
      BY <2>1, <1>5 DEF Evidence
  <1> QED
    BY <1>8, <1>9, <1>10, <1>11, <1>12, <1>13, <1>14 DEF Commit

\* A commit changes the financing of its target only.
LEMMA CommitTarget ==
  ASSUME TypeOK, NEW r \in Requests, Commit(r)
  PROVE  /\ req[r] # Idle
         /\ \A j \in Invoices : j # req[r].target => fin'[j] = fin[j]
  <1>1. req[r] # Idle
    BY DEF Commit, createOfferFromInvoice, accept, fund, disburse, collect, close,
           remove, approveInvoice, removeInvoice, ReadyToCommit
  <1>2. req[r].target \in Invoices
    BY <1>1, InFlightFields
  <1>3. ASSUME NEW j \in Invoices, j # req[r].target
        PROVE  fin'[j] = fin[j]
    <2>1. \A st \in FinancingStatus :
            fin' = [fin EXCEPT ![req[r].target].status = st] => fin'[j] = fin[j]
      BY <1>2, <1>3, StatusType DEF TypeOK
    <2>2. CASE createOfferFromInvoice(r)
      BY <2>2, <1>2, <1>3 DEF createOfferFromInvoice, TypeOK
    <2>3. CASE accept(r) \/ fund(r) \/ disburse(r) \/ collect(r) \/ close(r) \/ remove(r)
      BY <2>1, <2>3 DEF accept, fund, disburse, collect, close, remove, FinancingStatus
    <2>4. CASE approveInvoice(r) \/ removeInvoice(r)
      BY <2>4 DEF approveInvoice, removeInvoice
    <2> QED
      BY <1>3, <2>2, <2>3, <2>4 DEF Commit
  <1> QED
    BY <1>1, <1>3

LEMMA LadderStep ==
  ASSUME TypeOK, RecordInv, PatchesAreBacked, [Next]_vars
  PROVE  EvidenceLadder'
  <1> SUFFICES ASSUME NEW j \in Invoices
               PROVE  Evidence(j, Level[fin[j].status])'
    BY DEF EvidenceLadder
  <1>1. Evidence(j, Level[fin[j].status])
    BY DEF RecordInv, EvidenceLadder
  <1>2. fin[j] \in Financing /\ Level[fin[j].status] \in 0..3
    BY LevelValues DEF TypeOK, Financing
  <1>3. \A n \in 0..3 : Evidence(j, n) => Evidence(j, n)'
    BY EvidenceStays
  <1>4. CASE fin'[j].status = fin[j].status
    <2>1. PICK n \in 0..3 : n = Level[fin[j].status]
      BY <1>2
    <2>2. Evidence(j, n)'
      BY <1>1, <1>3, <2>1
    <2>3. n = Level[fin'[j].status]
      BY <1>4, <2>1
    <2> QED
      BY <2>2, <2>3 DEF Evidence
  <1>5. ASSUME NEW r \in Requests, Commit(r)
        PROVE  Evidence(j, Level[fin[j].status])'
    <2>1. CASE j = req[r].target
      BY <2>1, <1>1, <1>5, CommitEvidence DEF RecordInv
    <2>2. CASE j # req[r].target
      BY <2>2, <1>4, <1>5, CommitTarget
    <2> QED
      BY <2>1, <2>2
  <1>6. ASSUME NEW i \in Invoices, update(i)
        PROVE  Evidence(j, Level[fin[j].status])'
    <2>1. CASE \E p \in StatusPatches :
                 fin[i].status = p[1] /\ fin' = [fin EXCEPT ![i].status = p[2]]
      <3>1. PICK p \in StatusPatches :
              fin[i].status = p[1] /\ fin' = [fin EXCEPT ![i].status = p[2]]
        BY <2>1
      <3>2. p[1] \in FinancingStatus /\ p[2] \in FinancingStatus
        BY FinancingAssumption
      <3>3. Level[p[2]] <= Level[p[1]] /\ Level[p[2]] \in 0..3
        BY <3>2, LevelValues DEF PatchesAreBacked
      <3>4. fin'[i].status = p[2] /\ (j # i => fin'[j] = fin[j])
        BY <3>1, <3>2, StatusType DEF TypeOK
      <3>5. CASE j = i
        <4>1. Evidence(j, Level[p[2]])
          BY <1>1, <1>2, <3>1, <3>3, <3>5, EvidenceDown
        <4>2. fin'[j].status = p[2]
          BY <3>4, <3>5
        <4> HIDE DEF Level
        <4> QED
          BY <1>3, <3>3, <4>1, <4>2 DEF Evidence
      <3> QED
        BY <1>4, <3>4, <3>5
    <2>2. CASE \E a \in AmountPatches \cup NetPatches :
                 \/ fin' = [fin EXCEPT ![i].amount = a]
                 \/ fin' = [fin EXCEPT ![i].net = a]
      <3>1. fin[i] \in Financing
        BY DEF TypeOK
      <3>2. \A a : /\ [fin[i] EXCEPT !.amount = a].status = fin[i].status
                   /\ [fin[i] EXCEPT !.net = a].status = fin[i].status
        BY <3>1 DEF Financing
      <3>3. fin'[j].status = fin[j].status
        <4>1. PICK a \in AmountPatches \cup NetPatches :
                \/ fin' = [fin EXCEPT ![i].amount = a]
                \/ fin' = [fin EXCEPT ![i].net = a]
          BY <2>2
        <4>2. j # i => fin'[j] = fin[j]
          BY <4>1 DEF TypeOK
        <4>3. \/ fin'[i] = [fin[i] EXCEPT !.amount = a]
              \/ fin'[i] = [fin[i] EXCEPT !.net = a]
          BY <4>1 DEF TypeOK
        <4>4. fin'[i].status = fin[i].status
          BY <4>3, <3>2
        <4> QED
          BY <4>2, <4>4
      <3> QED
        BY <1>4, <3>3
    <2> QED
      BY <1>6, <2>1, <2>2 DEF update
  <1>7. \/ fin' = fin
        \/ \E r \in Requests : Commit(r)
        \/ \E i \in Invoices : update(i)
    BY DEF Next, vars, findOne, checkOutbound, countOpenObligations,
           queueWebhookDeliveries, abandon, updateInvoice
  <1> QED
    BY <1>4, <1>5, <1>6, <1>7

\* An inbound payment on record covers the principal n of an obligation.
Covered(ps, n) == \E p \in InboundIndices(ps) : ps[p].amount >= n

LEMMA CoveredStays ==
  ASSUME NEW ps, NEW qs, NEW n, PaymentsGrow(ps, qs), Covered(ps, n)
  PROVE  Covered(qs, n)
  BY DEF PaymentsGrow, Covered, InboundIndices

\* The obligations a step touches: fund appends one, collect pays the first.
LEMMA ObligationSteps ==
  ASSUME TypeOK, [Next]_vars, NEW i \in Invoices
  PROVE  \/ obligations'[i] = obligations[i]
         \/ \E r \in Requests, o \in Obligation :
              /\ fund(r) /\ req[r].target = i
              /\ o.status = "OPEN" /\ o.outstanding = o.principal
              /\ obligations'[i] = Append(obligations[i], o)
         \/ \E r \in Requests :
              /\ collect(r) /\ req[r].target = i
              /\ obligations'[i] \in settlements(obligations[i], req[r].before)
  <1>1. CASE obligations' = obligations
    BY <1>1
  <1>2. ASSUME NEW r \in Requests, fund(r)
        PROVE  \/ obligations'[i] = obligations[i]
               \/ \E o \in Obligation :
                    /\ req[r].target = i
                    /\ o.status = "OPEN" /\ o.outstanding = o.principal
                    /\ obligations'[i] = Append(obligations[i], o)
    <2> DEFINE o == newObligation(req[r].before.fin.amount)
    <2>1. req[r].target \in Invoices /\ req[r].before.fin.amount \in Nat
      BY <1>2, InFlightFields DEF fund, ReadyToCommit
    <2>2. o \in Obligation /\ o.status = "OPEN" /\ o.outstanding = o.principal
      BY <2>1 DEF newObligation, Obligation
    <2>3. obligations' = [obligations EXCEPT ![req[r].target] =
                            Append(obligations[req[r].target], o)]
      BY <1>2, <2>1 DEF fund, TypeOK
    <2> HIDE DEF o
    <2> QED
      BY <2>1, <2>2, <2>3 DEF TypeOK
  <1>3. ASSUME NEW r \in Requests, collect(r)
        PROVE  \/ obligations'[i] = obligations[i]
               \/ /\ req[r].target = i
                  /\ obligations'[i] \in settlements(obligations[i], req[r].before)
    <2>1. req[r].target \in Invoices
      BY <1>3, InFlightFields DEF collect, ReadyToCommit
    <2> QED
      BY <1>3, <2>1 DEF collect, TypeOK
  <1>4. \/ obligations' = obligations
        \/ \E r \in Requests : fund(r) \/ collect(r)
    BY DEF Next, vars, Commit, findOne, checkOutbound, countOpenObligations,
           createOfferFromInvoice, accept, disburse, close, remove, approveInvoice,
           removeInvoice, update, updateInvoice, queueWebhookDeliveries, abandon
  <1> QED
    BY <1>1, <1>2, <1>3, <1>4

LEMMA OpenStep ==
  ASSUME TypeOK, OpenIsWhole, [Next]_vars
  PROVE  OpenIsWhole'
  <1> SUFFICES ASSUME NEW i \in Invoices, NEW k \in DOMAIN obligations'[i],
                      obligations'[i][k].status = "OPEN"
               PROVE  obligations'[i][k].outstanding = obligations'[i][k].principal
    BY DEF OpenIsWhole
  <1>1. obligations[i] \in Seq(Obligation)
    BY DEF TypeOK
  <1>2. CASE obligations'[i] = obligations[i]
    BY <1>2 DEF OpenIsWhole
  <1>3. ASSUME NEW o \in Obligation, o.outstanding = o.principal,
               obligations'[i] = Append(obligations[i], o)
        PROVE  obligations'[i][k].outstanding = obligations'[i][k].principal
    BY <1>1, <1>3, AppendObligation DEF OpenIsWhole
  <1>4. ASSUME NEW r \in Requests,
               obligations'[i] \in settlements(obligations[i], req[r].before)
        PROVE  obligations'[i][k].outstanding = obligations'[i][k].principal
    <2>1. /\ DOMAIN obligations[i] = 1..Len(obligations[i])
          /\ DOMAIN obligations'[i] = 1..Len(obligations[i])
      BY <1>1, <1>4, SettlementsType
    <2>2. \/ obligations'[i][k] = obligations[i][k]
          \/ obligations'[i][k] = paidObligation(obligations[i][k])
      BY <1>1, <1>4, <2>1, SettlementsType
    <2>3. paidObligation(obligations[i][k]).status = "PAID"
      BY DEF paidObligation
    <2> QED
      BY <2>1, <2>2, <2>3 DEF OpenIsWhole
  <1> QED
    BY <1>2, <1>3, <1>4, ObligationSteps

LEMMA PaidStep ==
  ASSUME TypeOK, RecordInv, [Next]_vars
  PROVE  PaidMeansCollected'
  <1> SUFFICES ASSUME NEW i \in Invoices, NEW k \in DOMAIN obligations'[i],
                      obligations'[i][k].status = "PAID"
               PROVE  Covered(payments'[i], obligations'[i][k].principal)
    BY DEF PaidMeansCollected, Covered
  <1>1. /\ obligations[i] \in Seq(Obligation)
        /\ PaymentsGrow(payments[i], payments'[i])
    BY RecordsGrow DEF TypeOK
  <1>2. ASSUME k \in DOMAIN obligations[i], obligations[i][k].status = "PAID",
               obligations'[i][k].principal = obligations[i][k].principal
        PROVE  Covered(payments'[i], obligations'[i][k].principal)
    <2>1. Covered(payments[i], obligations[i][k].principal)
      BY <1>2 DEF RecordInv, PaidMeansCollected, Covered
    <2> QED
      BY <1>1, <1>2, <2>1, CoveredStays
  <1>3. CASE obligations'[i] = obligations[i]
    BY <1>2, <1>3
  <1>4. ASSUME NEW o \in Obligation, o.status = "OPEN",
               obligations'[i] = Append(obligations[i], o)
        PROVE  Covered(payments'[i], obligations'[i][k].principal)
    <2>1. k \in DOMAIN obligations[i] /\ obligations'[i][k] = obligations[i][k]
      BY <1>1, <1>4, AppendObligation
    <2> QED
      BY <1>2, <2>1
  <1>5. ASSUME NEW r \in Requests, collect(r), req[r].target = i,
               obligations'[i] \in settlements(obligations[i], req[r].before)
        PROVE  Covered(payments'[i], obligations'[i][k].principal)
    <2> DEFINE b == req[r].before
    <2>1. /\ req[r] # Idle /\ b.fin.amount \in Nat
          /\ b.obligations \in Seq(Obligation)
      BY <1>5, InFlightFields DEF collect, ReadyToCommit
    <2>2. /\ k \in DOMAIN obligations[i]
          /\ \/ obligations'[i][k] = obligations[i][k]
             \/ /\ k \in DOMAIN b.obligations /\ collectionCovers(b, k)
                /\ obligations'[i][k] = paidObligation(obligations[i][k])
      <3>1. /\ DOMAIN obligations[i] = 1..Len(obligations[i])
            /\ DOMAIN obligations'[i] = 1..Len(obligations[i])
        BY <1>1, <1>5, SettlementsType
      <3>2. k \in 1..Len(obligations[i])
        BY <3>1
      <3> QED
        BY <1>1, <1>5, <3>1, <3>2, SettlementsType
    <2>3. paidObligation(obligations[i][k]).principal = obligations[i][k].principal
      BY DEF paidObligation
    <2>4. CASE obligations[i][k].status = "PAID"
      BY <1>2, <2>2, <2>3, <2>4
    <2>5. CASE obligations[i][k].status # "PAID"
      <3>1. /\ k \in DOMAIN b.obligations /\ collectionCovers(b, k)
            /\ obligations'[i][k] = paidObligation(obligations[i][k])
        BY <2>2, <2>5
      <3>2. b.obligations[k].outstanding = obligations[i][k].principal
        BY <1>5, <2>1, <2>5, <3>1 DEF RecordInv, SnapshotsAreBacked
      <3>3. b.fin.amount >= obligations'[i][k].principal
        BY <2>3, <3>1, <3>2 DEF collectionCovers
      <3>4. \E p \in InboundIndices(payments'[i]) : payments'[i][p].amount = b.fin.amount
        BY <1>5, CollectRecords
      <3> QED
        BY <3>3, <3>4 DEF Covered
    <2> QED
      BY <2>4, <2>5
  <1> QED
    BY <1>3, <1>4, <1>5, ObligationSteps

\* SnapshotsAreBacked, of one request.
Backed(i, op, phase, b, seen) ==
  /\ op \in FinancingOps =>
       b.fin.status \in AllowedFrom[op] /\ Evidence(i, Level[b.fin.status])
  /\ op = "disburse" /\ phase = "checked" =>
       \E k \in OutboundIndices(payments[i]) : k <= seen
  /\ phase = "committed" =>
       /\ op = "fund" => Funded(i)
       /\ op = "disburse" => PaidOut(i)
       /\ op = "collect" => Collected(i)
  /\ \A k \in DOMAIN b.obligations :
       /\ k \in DOMAIN obligations[i]
       /\ obligations[i][k].principal = b.obligations[k].principal
       /\ \/ b.obligations[k].outstanding = b.obligations[k].principal
          \/ obligations[i][k].status = "PAID"

LEMMA BackedStays ==
  ASSUME TypeOK, [Next]_vars, NEW i \in Invoices, NEW op, NEW phase,
         NEW b \in Snapshot, NEW seen, Backed(i, op, phase, b, seen)
  PROVE  Backed(i, op, phase, b, seen)'
  <1>1. /\ Funded(i) => Funded(i)'
        /\ PaidOut(i) => PaidOut(i)'
        /\ Collected(i) => Collected(i)'
        /\ \A n \in 0..3 : Evidence(i, n) => Evidence(i, n)'
    BY EvidenceStays
  <1>2. PICK n \in 0..3 : n = Level[b.fin.status]
    BY LevelValues DEF Snapshot, Financing
  <1>3. Evidence(i, n) => Evidence(i, n)'
    BY <1>1
  <1>4. op \in FinancingOps =>
          b.fin.status \in AllowedFrom[op] /\ Evidence(i, Level[b.fin.status])'
    BY <1>2, <1>3 DEF Backed, Evidence
  <1>5. ObligationsGrow(obligations[i], obligations'[i])
    BY RecordsGrow
  <1>6. \A k \in DOMAIN obligations[i] :
          /\ k \in DOMAIN obligations'[i]
          /\ obligations'[i][k].principal = obligations[i][k].principal
          /\ obligations[i][k].status = "PAID" => obligations'[i][k].status = "PAID"
    BY <1>5 DEF ObligationsGrow
  <1>7. OutboundIndices(payments[i]) \subseteq OutboundIndices(payments'[i])
    BY RecordsGrow DEF PaymentsGrow, OutboundIndices
  <1> QED
    BY <1>1, <1>4, <1>6, <1>7 DEF Backed

\* findOne starts from what is on record.
LEMMA FindOneBacked ==
  ASSUME TypeOK, RecordInv, NEW r \in Requests, NEW i \in Invoices, NEW op \in Ops,
         findOne(r, i, op), NEW n
  PROVE  /\ req'[r].target = i /\ req'[r].op = op /\ req'[r].phase = "read"
         /\ Backed(i, op, "read", req'[r].before, n)
  <1> DEFINE b == [fin |-> fin[i], invoice |-> invoice[i],
                   obligations |-> obligations[i]]
  <1>1. /\ guardHolds(op, b)
        /\ req'[r] = [phase |-> "read", op |-> op, target |-> i,
                      before |-> b, seen |-> 0]
    BY DEF findOne, TypeOK
  <1>2. op \in FinancingOps => fin[i].status \in AllowedFrom[op]
    BY <1>1 DEF guardHolds, FinancingOps, InvoiceOps
  <1>3. Evidence(i, Level[fin[i].status])
    BY DEF RecordInv, EvidenceLadder
  <1>4. \A k \in DOMAIN obligations[i] :
          \/ obligations[i][k].outstanding = obligations[i][k].principal
          \/ obligations[i][k].status = "PAID"
    <2> SUFFICES ASSUME NEW k \in DOMAIN obligations[i], obligations[i][k].status # "PAID"
                 PROVE  obligations[i][k].outstanding = obligations[i][k].principal
      OBVIOUS
    <2>1. obligations[i][k] \in Obligation
      BY DEF TypeOK
    <2>2. obligations[i][k].status = "OPEN"
      BY <2>1 DEF Obligation
    <2> QED
      BY <2>2 DEF RecordInv, OpenIsWhole
  <1> QED
    BY <1>1, <1>2, <1>3, <1>4 DEF Backed

LEMMA SnapshotsStep ==
  ASSUME TypeOK, RecordInv, [Next]_vars
  PROVE  SnapshotsAreBacked'
  <1> SUFFICES ASSUME NEW r \in Requests, req'[r] # Idle,
                      NEW i, i = req'[r].target, NEW op, op = req'[r].op,
                      NEW ph, ph = req'[r].phase, NEW b, b = req'[r].before,
                      NEW n, n = req'[r].seen
               PROVE  Backed(i, op, ph, b, n)'
    BY DEF SnapshotsAreBacked, Backed
  <1>1. \A q \in Requests : req[q] # Idle =>
          Backed(req[q].target, req[q].op, req[q].phase, req[q].before,
                 req[q].seen)
    BY DEF RecordInv, SnapshotsAreBacked, Backed
  <1>2. CASE req'[r] = req[r]
    BY <1>1, <1>2, InFlightFields, BackedStays
  <1>3. ASSUME NEW j \in Invoices, NEW o \in Ops, findOne(r, j, o)
        PROVE  Backed(i, op, ph, b, n)'
    <2>1. i = j /\ Backed(i, op, ph, b, n) /\ i \in Invoices
      BY <1>3, FindOneBacked
    <2>2. req'[r] \in InFlight
      BY NextType DEF TypeOK
    <2>3. b \in Snapshot
      BY <2>2 DEF InFlight
    <2> QED
      BY <2>1, <2>3, BackedStays
  <1>4. ASSUME checkOutbound(r) \/ countOpenObligations(r)
        PROVE  Backed(i, op, ph, b, n)'
    <2>1. req[r] # Idle /\ req[r] \in InFlight
      BY <1>4, InFlightFields DEF checkOutbound, countOpenObligations
    <2>2. \A m : LET q == [req[r] EXCEPT !.phase = "checked", !.seen = m]
                 IN /\ q.seen = m /\ q.target = req[r].target /\ q.op = req[r].op
                    /\ q.before = req[r].before /\ q.phase = "checked"
      BY <2>1 DEF InFlight
    <2>3. LET q == [req[r] EXCEPT !.phase = "checked"]
          IN /\ q.target = req[r].target /\ q.op = req[r].op
             /\ q.before = req[r].before /\ q.phase = "checked"
      BY <2>1 DEF InFlight
    <2>4. i = req[r].target /\ op = req[r].op /\ b = req[r].before /\ ph = "checked"
      <3>1. CASE checkOutbound(r)
        BY <3>1, <2>2 DEF checkOutbound, TypeOK
      <3>2. CASE countOpenObligations(r)
        BY <3>2, <2>3 DEF countOpenObligations, TypeOK
      <3> QED
        BY <1>4, <3>1, <3>2
    <2>5. op = "disburse" => \E k \in OutboundIndices(payments[i]) : k <= n
      <3> SUFFICES ASSUME op = "disburse"
                   PROVE  \E k \in OutboundIndices(payments[i]) : k <= n
        OBVIOUS
      <3>1. checkOutbound(r)
        BY <1>4, <2>4 DEF countOpenObligations
      <3>2. n = Len(payments[i]) /\ OutboundIndices(payments[i]) # {}
        BY <2>2, <2>4, <3>1 DEF checkOutbound, TypeOK
      <3>3. payments[i] \in Seq(Payment)
        BY <2>1, <2>4, InFlightFields DEF TypeOK
      <3> QED
        BY <3>2, <3>3 DEF OutboundIndices
    <2>6. Backed(i, op, ph, b, n)
      BY <1>1, <2>1, <2>4, <2>5 DEF Backed
    <2> QED
      BY <2>1, <2>4, <2>6, InFlightFields, BackedStays
  <1>5. ASSUME Commit(r)
        PROVE  Backed(i, op, ph, b, n)'
    <2>1. req[r] # Idle /\ req[r] \in InFlight /\ Committed(r)
      BY <1>5, CommitTarget, InFlightFields
      DEF Commit, createOfferFromInvoice, accept, fund, disburse, collect, close,
          remove, approveInvoice, removeInvoice
    <2>2. i = req[r].target /\ op = req[r].op /\ b = req[r].before /\ ph = "committed"
      BY <2>1 DEF Committed, TypeOK, InFlight
    <2>3. Backed(i, op, "read", b, n)
      BY <1>1, <2>1, <2>2 DEF Backed
    <2>4. Backed(i, op, "read", b, n)'
      BY <2>1, <2>2, <2>3, InFlightFields, BackedStays
    <2>5. \/ op = "fund" /\ fund(r)
          \/ op = "disburse" /\ disburse(r)
          \/ op = "collect" /\ collect(r)
          \/ op \notin {"fund", "disburse", "collect"}
      BY <1>5, <2>2 DEF Commit, createOfferFromInvoice, accept, fund, disburse, collect,
         close, remove, approveInvoice, removeInvoice, ReadyToCommit
    <2>6. disburse(r) => \E k \in OutboundIndices(payments[i]) : k <= req[r].seen
      BY <1>1, <2>1, <2>2 DEF disburse, ReadyToCommit, CheckingOps, Backed
    <2>7. /\ op = "fund" => Funded(i)'
          /\ op = "disburse" => PaidOut(i)'
          /\ op = "collect" => Collected(i)'
      BY <2>2, <2>5, <2>6, FundRecords, DisburseRecords, CollectRecords
    <2>8. ph = "committed"
      BY <2>2
    <2> QED
      BY <2>4, <2>7, <2>8 DEF Backed
  <1>6. \/ req'[r] = req[r]
        \/ checkOutbound(r) \/ countOpenObligations(r)
        \/ Commit(r)
        \/ \E j \in Invoices, o \in Ops : findOne(r, j, o)
    <2>1. ASSUME NEW q \in Requests, q # r, req[q] # Idle, Committed(q)
          PROVE  req'[r] = req[r]
      BY <2>1 DEF Committed, TypeOK
    <2>2. ASSUME NEW q \in Requests, q # r, Commit(q)
          PROVE  req'[r] = req[r]
      BY <2>1, <2>2, CommitTarget
      DEF Commit, createOfferFromInvoice, accept, fund, disburse, collect, close,
          remove, approveInvoice, removeInvoice
    <2>3. ASSUME NEW q \in Requests, q # r,
                 \/ checkOutbound(q) \/ countOpenObligations(q)
                 \/ \E j \in Invoices, o \in Ops : findOne(q, j, o)
          PROVE  req'[r] = req[r]
      BY <2>3 DEF checkOutbound, countOpenObligations, findOne, TypeOK
    <2>4. ASSUME NEW q \in Requests, queueWebhookDeliveries(q) \/ abandon(q)
          PROVE  req'[r] = req[r]
      BY <2>4 DEF queueWebhookDeliveries, abandon, TypeOK
    <2>5. \A j \in Invoices : update(j) \/ updateInvoice(j) => req' = req
      BY DEF update, updateInvoice
    <2> QED
      BY <2>2, <2>3, <2>4, <2>5 DEF Next, vars
  <1> QED
    BY <1>2, <1>3, <1>4, <1>5, <1>6

LEMMA EventsStep ==
  ASSUME TypeOK, RecordInv, [Next]_vars
  PROVE  EventsAreTruthful'
  <1> SUFFICES ASSUME NEW i \in Invoices
               PROVE  /\ "fund" \in events'[i] => Funded(i)'
                      /\ "disburse" \in events'[i] => PaidOut(i)'
                      /\ "collect" \in events'[i] => Collected(i)'
    BY DEF EventsAreTruthful
  <1>1. /\ Funded(i) => Funded(i)'
        /\ PaidOut(i) => PaidOut(i)'
        /\ Collected(i) => Collected(i)'
    BY EvidenceStays
  <1>2. CASE events'[i] = events[i]
    BY <1>1, <1>2 DEF RecordInv, EventsAreTruthful
  <1>3. ASSUME NEW r \in Requests, queueWebhookDeliveries(r), req[r].target = i
        PROVE  /\ "fund" \in events'[i] => Funded(i)'
               /\ "disburse" \in events'[i] => PaidOut(i)'
               /\ "collect" \in events'[i] => Collected(i)'
    <2>1. req[r] # Idle /\ req[r].phase = "committed"
      BY <1>3 DEF queueWebhookDeliveries, Idle
    <2>2. \A e : e \in events'[i] => e \in events[i] \/ e = req[r].op
      BY <1>3 DEF queueWebhookDeliveries, TypeOK
    <2> QED
      BY <1>1, <1>3, <2>1, <2>2 DEF RecordInv, EventsAreTruthful, SnapshotsAreBacked
  <1>4. \/ events' = events
        \/ \E r \in Requests : queueWebhookDeliveries(r)
    BY DEF Next, vars, Commit, findOne, checkOutbound, countOpenObligations,
           createOfferFromInvoice, accept, fund, disburse, collect, close, remove,
           approveInvoice, removeInvoice, update, updateInvoice, abandon
  <1>5. ASSUME NEW r \in Requests, queueWebhookDeliveries(r), req[r].target # i
        PROVE  events'[i] = events[i]
    BY <1>5 DEF queueWebhookDeliveries, TypeOK
  <1> QED
    BY <1>2, <1>3, <1>4, <1>5

LEMMA RecordsInit == Init => RecordInv
  <1> SUFFICES ASSUME Init PROVE RecordInv
    OBVIOUS
  <1>1. \A i \in Invoices : Level[fin[i].status] = 0
    BY LevelValues DEF Init, NoFinancing
  <1>2. EvidenceLadder
    BY <1>1 DEF EvidenceLadder, Evidence
  <1>3. PaidMeansCollected /\ OpenIsWhole
    BY DEF Init, PaidMeansCollected, OpenIsWhole
  <1>4. EventsAreTruthful /\ SnapshotsAreBacked
    BY DEF Init, EventsAreTruthful, SnapshotsAreBacked
  <1> QED
    BY <1>2, <1>3, <1>4 DEF RecordInv

LEMMA RecordsStep ==
  ASSUME PatchesAreBacked
  PROVE  TypeOK /\ RecordInv /\ [Next]_vars => RecordInv'
  BY LadderStep, PaidStep, EventsStep, SnapshotsStep, OpenStep DEF RecordInv

\* The record invariant, from which the three theorems below are read off.
THEOREM RecordsBacked ==
  ASSUME PatchesAreBacked
  PROVE  Spec => []RecordInv
  <1>1. Spec => []TypeOK
    BY TypeCorrect
  <1>2. Init => RecordInv
    BY RecordsInit
  <1>3. TypeOK /\ RecordInv /\ [Next]_vars => RecordInv'
    BY RecordsStep
  <1> QED
    BY <1>1, <1>2, <1>3, PTL DEF Spec

\* However many handlers overlap, a status is never ahead of the money on
\* record, as long as PATCH claims no more than is on record.
THEOREM StatusIsBacked ==
  ASSUME PatchesAreBacked
  PROVE  Spec => []EvidenceLadder
  <1>1. RecordInv => EvidenceLadder
    BY DEF RecordInv
  <1> QED
    BY <1>1, RecordsBacked, PTL

\* An obligation is PAID only if an inbound payment covers its principal.
THEOREM PaidIsCollected ==
  ASSUME PatchesAreBacked
  PROVE  Spec => []PaidMeansCollected
  <1>1. RecordInv => PaidMeansCollected
    BY DEF RecordInv
  <1> QED
    BY <1>1, RecordsBacked, PTL

\* No subscriber hears of a movement that was not recorded.
THEOREM EventsAreBacked ==
  ASSUME PatchesAreBacked
  PROVE  Spec => []EventsAreTruthful
  <1>1. RecordInv => EventsAreTruthful
    BY DEF RecordInv
  <1> QED
    BY <1>1, RecordsBacked, PTL
-----------------------------------------------------------------------------
(* Cash received: the amounts of the inbound payments, summed.               *)

LEMMA AmountOfIsTotal ==
  ASSUME NEW K, IsFiniteSet(K), NEW ps
  PROVE  AmountOf(ps, K) = Total([k \in K |-> ps[k].amount], K)
  <1> DEFINE f == [k \in K |-> ps[k].amount]
             Q(g) == g = [s \in SUBSET K |->
                            IF s = {} THEN 0 ELSE ps[Pick(s)].amount + g[s \ {Pick(s)}]]
  <1>1. \A s \in SUBSET K : s # {} => f[Pick(s)] = ps[Pick(s)].amount
    BY PickIsMember
  <1> HIDE DEF f
  <1>2. \A g : Q(g) <=> Tabulates(g, f, K)
    BY <1>1 DEF Tabulates
  <1>3. Tabulates(Table(f, K), f, K)
    BY TableExists
  <1>4. AmountOf(ps, K) = (CHOOSE g : Q(g))[K]
    BY DEF AmountOf, MapThenSumSet, MapThenFoldSet, Pick
  <1>5. Q(CHOOSE g : Q(g))
    <2>1. Q(Table(f, K))
      BY <1>2, <1>3
    <2> HIDE DEF Q
    <2> QED
      BY <2>1
  <1>6. Tabulates(CHOOSE g : Q(g), f, K)
    BY <1>2, <1>5
  <1> HIDE DEF Q
  <1>7. (CHOOSE g : Q(g))[K] = Table(f, K)[K]
    BY <1>3, <1>6, TableUnique
  <1> QED
    BY <1>4, <1>7, TotalIsTabulated DEF f

LEMMA IndicesAreFinite ==
  ASSUME NEW ps \in Seq(Payment)
  PROVE  IsFiniteSet(InboundIndices(ps)) /\ IsFiniteSet(OutboundIndices(ps))
         /\ DOMAIN ps = 1..Len(ps) /\ Len(ps) \in Nat
  <1>1. DOMAIN ps = 1..Len(ps) /\ Len(ps) \in Nat
    OBVIOUS
  <1>2. IsFiniteSet(1..Len(ps))
    BY <1>1, FS_Interval
  <1>3. InboundIndices(ps) \subseteq 1..Len(ps) /\ OutboundIndices(ps) \subseteq 1..Len(ps)
    BY <1>1 DEF InboundIndices, OutboundIndices
  <1> QED
    BY <1>1, <1>2, <1>3, FS_Subset

LEMMA AmountOfSame ==
  ASSUME NEW K, IsFiniteSet(K), NEW ps, NEW qs, \A k \in K : ps[k].amount = qs[k].amount
  PROVE  AmountOf(ps, K) = AmountOf(qs, K)
  <1>1. [k \in K |-> ps[k].amount] = [k \in K |-> qs[k].amount]
    OBVIOUS
  <1> QED
    BY <1>1, AmountOfIsTotal

LEMMA AmountOfAdd ==
  ASSUME NEW K, IsFiniteSet(K), NEW ps, NEW e, e \notin K,
         \A k \in K \cup {e} : ps[k].amount \in Nat
  PROVE  AmountOf(ps, K \cup {e}) = AmountOf(ps, K) + ps[e].amount
  <1> DEFINE f == [k \in K \cup {e} |-> ps[k].amount]
             g == [k \in K |-> ps[k].amount]
  <1>1. \A k \in K \cup {e} : f[k] = ps[k].amount
    OBVIOUS
  <1>2. \A k \in K : f[k] = g[k]
    OBVIOUS
  <1>3. AmountOf(ps, K) = Total(g, K)
    BY AmountOfIsTotal
  <1>4. IsFiniteSet(K \cup {e})
    BY FS_AddElement
  <1>5. AmountOf(ps, K \cup {e}) = Total(f, K \cup {e})
    BY <1>4, AmountOfIsTotal
  <1> HIDE DEF f, g
  <1>6. Total(f, K) = Total(g, K)
    BY <1>2, TotalSame
  <1>7. \A k \in K \cup {e} : f[k] \in Nat
    BY <1>1
  <1>8. Total(f, K \cup {e}) = Total(f, K) + f[e]
    BY <1>7, TotalAdd
  <1> QED
    BY <1>1, <1>3, <1>5, <1>6, <1>8

LEMMA AmountOfNone ==
  ASSUME NEW ps
  PROVE  AmountOf(ps, {}) = 0
  BY FS_EmptySet, AmountOfIsTotal, TotalOfNone

LEMMA AmountOfOne ==
  ASSUME NEW ps, NEW e, ps[e].amount \in Nat
  PROVE  AmountOf(ps, {e}) = ps[e].amount
  <1>1. AmountOf(ps, {} \cup {e}) = AmountOf(ps, {}) + ps[e].amount
    BY FS_EmptySet, AmountOfAdd
  <1>2. {} \cup {e} = {e}
    OBVIOUS
  <1> QED
    BY <1>1, <1>2, AmountOfNone

LEMMA AppendedInbound ==
  ASSUME NEW ps \in Seq(Payment), NEW p \in Payment, p.direction = "INBOUND"
  PROVE  AmountOf(Append(ps, p), InboundIndices(Append(ps, p)))
           = AmountOf(ps, InboundIndices(ps)) + p.amount
  <1> DEFINE qs == Append(ps, p)  K == InboundIndices(ps)  n == Len(ps) + 1
  <1>1. IsFiniteSet(K) /\ DOMAIN ps = 1..Len(ps) /\ Len(ps) \in Nat
    BY IndicesAreFinite
  <1>2. DOMAIN qs = 1..n /\ qs[n] = p /\ \A k \in 1..Len(ps) : qs[k] = ps[k]
    BY <1>1
  <1>3. InboundIndices(qs) = K \cup {n} /\ n \notin K
    BY <1>1, <1>2 DEF InboundIndices
  <1>4. \A k \in K : qs[k] = ps[k] /\ qs[k].amount \in Nat
    <2>1. K \subseteq 1..Len(ps) /\ \A k \in 1..Len(ps) : ps[k] \in Payment
      BY <1>1 DEF InboundIndices
    <2>2. \A k \in 1..Len(ps) : ps[k].amount \in Nat
      BY <2>1 DEF Payment
    <2> QED
      BY <1>2, <2>1, <2>2
  <1>5. p.amount \in Nat
    BY DEF Payment
  <1> HIDE DEF qs, K, n
  <1>6. \A k \in K \cup {n} : qs[k].amount \in Nat
    BY <1>2, <1>4, <1>5
  <1>7. IsFiniteSet(K) /\ n \notin K
    BY <1>1, <1>3
  <1>8. AmountOf(qs, K \cup {n}) = AmountOf(qs, K) + qs[n].amount
    BY <1>6, <1>7, AmountOfAdd, Zenon
  <1>9. AmountOf(qs, K) = AmountOf(ps, K)
    BY <1>1, <1>4, AmountOfSame
  <1> QED
    BY <1>2, <1>3, <1>8, <1>9 DEF qs, K

\* Appending an outbound payment and confirming payments leave the inbound sum.
LEMMA InboundKept ==
  ASSUME NEW ps \in Seq(Payment), NEW qs \in Seq(Payment),
         InboundIndices(qs) = InboundIndices(ps),
         \A k \in InboundIndices(ps) : qs[k].amount = ps[k].amount
  PROVE  AmountOf(qs, InboundIndices(qs)) = AmountOf(ps, InboundIndices(ps))
  BY AmountOfSame, IndicesAreFinite

LEMMA AppendedOutbound ==
  ASSUME NEW ps \in Seq(Payment), NEW p \in Payment, p.direction = "OUTBOUND"
  PROVE  AmountOf(Append(ps, p), InboundIndices(Append(ps, p)))
           = AmountOf(ps, InboundIndices(ps))
  <1>1. DOMAIN ps = 1..Len(ps) /\ Len(ps) \in Nat /\ Append(ps, p) \in Seq(Payment)
    OBVIOUS
  <1>2. /\ DOMAIN Append(ps, p) = 1..Len(ps) + 1 /\ Append(ps, p)[Len(ps) + 1] = p
        /\ \A k \in 1..Len(ps) : Append(ps, p)[k] = ps[k]
    BY <1>1
  <1>3. InboundIndices(Append(ps, p)) = InboundIndices(ps)
    BY <1>1, <1>2 DEF InboundIndices
  <1>4. \A k \in InboundIndices(ps) : Append(ps, p)[k].amount = ps[k].amount
    BY <1>1, <1>2 DEF InboundIndices
  <1> QED
    BY <1>1, <1>3, <1>4, InboundKept

LEMMA ConfirmedOutbound ==
  ASSUME NEW ps \in Seq(Payment), NEW seen \in Nat, NEW n
  PROVE  LET qs == confirmOutbound(ps, seen, n)
         IN AmountOf(qs, InboundIndices(qs)) = AmountOf(ps, InboundIndices(ps))
  <1> DEFINE qs == confirmOutbound(ps, seen, n)
  <1>1. qs \in Seq(Payment) /\ PaymentsGrow(ps, qs)
    BY ConfirmOutboundType, ConfirmGrows
  <1>2. DOMAIN qs = DOMAIN ps
    BY DEF confirmOutbound
  <1> HIDE DEF qs
  <1>3. InboundIndices(qs) = InboundIndices(ps)
        /\ \A k \in InboundIndices(ps) : qs[k].amount = ps[k].amount
    BY <1>1, <1>2 DEF PaymentsGrow, InboundIndices
  <1> QED
    BY <1>1, <1>3, InboundKept DEF qs

LEMMA CashInStep ==
  ASSUME TypeOK, CashInMatchesInbound, [Next]_vars
  PROVE  CashInMatchesInbound'
  <1> SUFFICES ASSUME NEW i \in Invoices
               PROVE  ledger'[i]["1000"].debit
                        = AmountOf(payments'[i], InboundIndices(payments'[i]))
    BY DEF CashInMatchesInbound
  <1>1. ledger[i]["1000"].debit = AmountOf(payments[i], InboundIndices(payments[i]))
    BY DEF CashInMatchesInbound
  <1>2. payments[i] \in Seq(Payment) /\ ledger[i] \in [Accounts -> Totals]
    BY DEF TypeOK
  <1>3. ASSUME NEW r \in Requests, fund(r) \/ disburse(r) \/ collect(r)
        PROVE  ledger'[i]["1000"].debit
                 = AmountOf(payments'[i], InboundIndices(payments'[i]))
    <2> DEFINE b == req[r].before
    <2>1. req[r] # Idle
      BY <1>3 DEF fund, disburse, collect, ReadyToCommit
    <2>2. /\ req[r].target \in Invoices /\ b.fin.amount \in Nat /\ b.fin.net \in Nat
          /\ req[r].seen \in Nat
      BY <2>1, InFlightFields
    <2>3. CASE req[r].target # i
      <3>1. payments'[i] = payments[i] /\ ledger'[i] = ledger[i]
        BY <1>3, <2>2, <2>3 DEF fund, disburse, collect, TypeOK
      <3> QED
        BY <1>1, <3>1
    <2>4. CASE req[r].target = i /\ fund(r)
      <3> DEFINE p == newPayment("OUTBOUND", b.fin.net, "INITIATED", 0)
      <3>1. /\ payments'[i] = Append(payments[i], p)
            /\ ledger'[i] = postLedgerEntries(ledger[i], "1200", "2100", b.fin.amount)
        BY <2>2, <2>4 DEF fund, TypeOK
      <3>2. p \in Payment /\ p.direction = "OUTBOUND"
        BY <2>2 DEF newPayment, Payment
      <3>3. ledger'[i]["1000"].debit = ledger[i]["1000"].debit
        BY <1>2, <3>1 DEF postLedgerEntries, Accounts
      <3> QED
        BY <1>1, <1>2, <3>1, <3>2, <3>3, AppendedOutbound
    <2>5. CASE req[r].target = i /\ disburse(r)
      <3>1. PICK n \in req[r].seen .. Len(payments[i]) :
              payments'[i] = confirmOutbound(payments[i], req[r].seen, n)
        BY <2>2, <2>5 DEF disburse, TypeOK
      <3>2. ledger'[i] = postLedgerEntries(ledger[i], "2100", "1000", b.fin.net)
        BY <2>2, <2>5 DEF disburse, TypeOK
      <3>3. ledger'[i]["1000"].debit = ledger[i]["1000"].debit
        BY <1>2, <3>2 DEF postLedgerEntries, Accounts, Totals
      <3> QED
        BY <1>1, <1>2, <2>2, <3>1, <3>3, ConfirmedOutbound
    <2>6. CASE req[r].target = i /\ collect(r)
      <3> DEFINE p == newPayment("INBOUND", b.fin.amount, "CONFIRMED", 1)
      <3>1. /\ payments'[i] = Append(payments[i], p)
            /\ ledger'[i] = postLedgerEntries(ledger[i], "1000", "1200", b.fin.amount)
        BY <2>2, <2>6 DEF collect, TypeOK
      <3>2. p \in Payment /\ p.direction = "INBOUND" /\ p.amount = b.fin.amount
        BY <2>2 DEF newPayment, Payment
      <3>3. ledger'[i]["1000"].debit = ledger[i]["1000"].debit + b.fin.amount
        BY <1>2, <3>1 DEF postLedgerEntries, Accounts, Totals
      <3> QED
        BY <1>1, <1>2, <3>1, <3>2, <3>3, AppendedInbound
    <2> QED
      BY <1>3, <2>3, <2>4, <2>5, <2>6
  <1>4. \/ payments' = payments /\ ledger' = ledger
        \/ \E r \in Requests : fund(r) \/ disburse(r) \/ collect(r)
    BY DEF Next, vars, Commit, findOne, checkOutbound, countOpenObligations,
           createOfferFromInvoice, accept, close, remove, approveInvoice,
           removeInvoice, update, updateInvoice, queueWebhookDeliveries, abandon
  <1> QED
    BY <1>1, <1>3, <1>4

\* However collections overlap and wherever they stop, the cash debited for a
\* financing is the sum of its inbound payments: none is booked twice, none is
\* recorded without being booked.
THEOREM CashInIsBooked == Spec => []CashInMatchesInbound
  <1>1. Init => CashInMatchesInbound
    <2> SUFFICES ASSUME Init, NEW i \in Invoices
                 PROVE  ledger[i]["1000"].debit
                          = AmountOf(payments[i], InboundIndices(payments[i]))
      BY DEF CashInMatchesInbound
    <2>1. payments[i] = <<>> /\ ledger[i]["1000"].debit = 0
      BY DEF Init, Accounts
    <2>2. InboundIndices(<<>>) = {}
      BY DEF InboundIndices
    <2>3. AmountOf(<<>>, {}) = 0
      BY AmountOfNone
    <2> QED
      BY <2>1, <2>2, <2>3
  <1>2. TypeOK /\ CashInMatchesInbound /\ [Next]_vars => CashInMatchesInbound'
    BY CashInStep
  <1> QED
    BY <1>1, <1>2, TypeCorrect, PTL DEF Spec
-----------------------------------------------------------------------------
(* Deployments whose clients do not overlap two requests on one financing.   *)
(* The statuses are then the stages of one course of the money, a snapshot   *)
(* stays true until its handler commits, and the books of a financing follow *)
(* from its stage.                                                           *)

\* Status edits that stay at one stage: no money is claimed or forgotten, and
\* what is cancelled stays cancelled.
PatchesKeepStage ==
  \A p \in StatusPatches : /\ Level[p[1]] = Level[p[2]]
                           /\ p[1] # "CANCELLED" /\ p[2] # "CANCELLED"

\* The rows and the ledger of a financing whose money has moved n times: it was
\* funded, paid out, collected.
Booked(i, n) ==
  LET ps == payments[i]  os == obligations[i]  l == ledger[i]
  IN /\ Len(ps) = (IF n = 0 THEN 0 ELSE IF n = 3 THEN 2 ELSE 1)
     /\ Len(os) = (IF n = 0 THEN 0 ELSE 1)
     /\ n >= 1 => /\ ps[1].direction = "OUTBOUND"
                  /\ ps[1].status = (IF n = 1 THEN "INITIATED" ELSE "CONFIRMED")
                  /\ ps[1].recon = (IF n = 1 THEN 0 ELSE 1)
     /\ n = 3 => /\ ps[2].direction = "INBOUND"
                 /\ ps[2].status = "CONFIRMED" /\ ps[2].recon = 1
     /\ l["1000"].credit = (IF n >= 2 THEN ps[1].amount ELSE 0)
     /\ n <= 2 => l["1000"].debit = 0

\* Where PATCH does not edit amounts, the receivable is what is outstanding.
Owed(i, n) ==
  /\ balance(i, "1200") = (IF n = 0 THEN 0 ELSE obligations[i][1].outstanding)
  /\ n \in {1, 2} => fin[i].amount = obligations[i][1].outstanding
  /\ n = 3 => obligations[i][1].outstanding = 0

AtStage(i, n) ==
  /\ Booked(i, n)
  /\ AmountPatches = {} => Owed(i, n)
  /\ IF fin[i].status = "CANCELLED" THEN n <= 2 ELSE n = Level[fin[i].status]

Staged ==
  \A i \in Invoices :
    /\ \E n \in 0..3 : AtStage(i, n)
    /\ InvoicePatchesSpareFinanced /\ Level[fin[i].status] = 2 => invoice[i] = "FINANCED"

\* No two requests are on one financing.
Apart ==
  \A r, q \in Requests :
    req[r] # Idle /\ req[q] # Idle /\ req[r].target = req[q].target => r = q

\* What a handler has read is still so when it commits.
Fresh ==
  \A r \in Requests : req[r] # Idle /\ req[r].phase # "committed" =>
    LET i == req[r].target  b == req[r].before
    IN /\ b.fin = fin[i] /\ b.invoice = invoice[i] /\ b.obligations = obligations[i]
       /\ guardHolds(req[r].op, b)
       /\ req[r].op = "disburse" /\ req[r].phase = "checked" =>
            /\ req[r].seen = Len(payments[i])
            /\ AmountOf(payments[i], OutboundIndices(payments[i])) = fin[i].net

SerialInv == Staged /\ Apart /\ Fresh

\* Everything AtStage and Fresh read of an invoice.
SameRows(i) ==
  /\ fin'[i] = fin[i] /\ invoice'[i] = invoice[i] /\ payments'[i] = payments[i]
  /\ obligations'[i] = obligations[i] /\ ledger'[i] = ledger[i]

LEMMA StageKept ==
  ASSUME Staged, NEW i \in Invoices, SameRows(i)
  PROVE  /\ \E n \in 0..3 : AtStage(i, n)'
         /\ InvoicePatchesSpareFinanced /\ Level[fin[i].status]' = 2 => invoice'[i] = "FINANCED"
  <1>1. PICK n \in 0..3 : AtStage(i, n)
    BY DEF Staged
  <1>2. AtStage(i, n)'
    BY <1>1 DEF SameRows, AtStage, Booked, Owed, balance
  <1> QED
    BY <1>2 DEF SameRows, Staged

LEMMA CommitRows ==
  ASSUME TypeOK, NEW r \in Requests, Commit(r)
  PROVE  /\ req[r] # Idle /\ req[r].target \in Invoices
         /\ req[r].phase # "committed"
         /\ req' = [req EXCEPT ![r].phase = "committed"]
         /\ \A i \in Invoices : i # req[r].target => SameRows(i)
  <1>1. req[r] # Idle /\ Committed(r) /\ req[r].phase # "committed"
    BY DEF Commit, createOfferFromInvoice, accept, fund, disburse, collect, close,
           remove, approveInvoice, removeInvoice, ReadyToCommit
  <1>2. req[r].target \in Invoices
    BY <1>1, InFlightFields
  <1>3. ASSUME NEW i \in Invoices, i # req[r].target
        PROVE  SameRows(i)
    <2> USE <1>2, <1>3 DEF SameRows, TypeOK
    <2>1. CASE createOfferFromInvoice(r)
      BY <2>1 DEF createOfferFromInvoice
    <2>2. CASE accept(r)
      BY <2>2 DEF accept
    <2>3. CASE fund(r)
      BY <2>3 DEF fund
    <2>4. CASE disburse(r)
      BY <2>4 DEF disburse
    <2>5. CASE collect(r)
      BY <2>5 DEF collect
    <2>6. CASE close(r)
      BY <2>6 DEF close
    <2>7. CASE remove(r)
      BY <2>7 DEF remove
    <2>8. CASE approveInvoice(r)
      BY <2>8 DEF approveInvoice
    <2>9. CASE removeInvoice(r)
      BY <2>9 DEF removeInvoice
    <2> QED
      BY <2>1, <2>2, <2>3, <2>4, <2>5, <2>6, <2>7, <2>8, <2>9 DEF Commit
  <1> QED
    BY <1>1, <1>2, <1>3 DEF Committed

\* Every status has its stage.
LEMMA StageOf ==
  ASSUME Staged, NEW i \in Invoices, fin[i].status # "CANCELLED"
  PROVE  AtStage(i, Level[fin[i].status])
  BY DEF Staged, AtStage

LEMMA PostLedgerEffect ==
  ASSUME NEW l \in [Accounts -> Totals], NEW d \in Accounts, NEW c \in Accounts,
         d # c, NEW n \in Nat
  PROVE  LET m == postLedgerEntries(l, d, c, n)
         IN /\ m[d].debit = l[d].debit + n /\ m[d].credit = l[d].credit
            /\ m[c].credit = l[c].credit + n /\ m[c].debit = l[c].debit
            /\ \A a \in Accounts \ {d, c} : m[a] = l[a]
  <1> DEFINE k == [l EXCEPT ![d].debit = l[d].debit + n]
  <1>1. l[d] \in Totals /\ l[c] \in Totals
    OBVIOUS
  <1>2. /\ k \in [Accounts -> Totals] /\ k[d].debit = l[d].debit + n
        /\ k[d].credit = l[d].credit /\ \A a \in Accounts \ {d} : k[a] = l[a]
    BY <1>1 DEF Totals
  <1>3. postLedgerEntries(l, d, c, n) = [k EXCEPT ![c].credit = l[c].credit + n]
    BY DEF postLedgerEntries
  <1>4. k[c] \in Totals
    BY <1>2
  <1> HIDE DEF k
  <1> QED
    BY <1>1, <1>2, <1>3, <1>4 DEF Totals

\* The money movements, each from its stage to the next.
LEMMA FundStage ==
  ASSUME TypeOK, NEW r \in Requests, fund(r), NEW i \in Invoices, i = req[r].target,
         req[r].before.fin = fin[i], AtStage(i, 0)
  PROVE  AtStage(i, 1)'
  <1> DEFINE b == req[r].before.fin
             p == newPayment("OUTBOUND", b.net, "INITIATED", 0)
             o == newObligation(b.amount)
  <1>1. b.amount \in Nat /\ b.net \in Nat
    BY InFlightFields DEF fund, ReadyToCommit
  <1>2. /\ payments'[i] = Append(payments[i], p)
        /\ obligations'[i] = Append(obligations[i], o)
        /\ ledger'[i] = postLedgerEntries(ledger[i], "1200", "2100", b.amount)
        /\ fin'[i].status = "FUNDED" /\ fin'[i].amount = b.amount
    BY DEF fund, TypeOK, Financing
  <1>3. /\ payments[i] \in Seq(Payment) /\ obligations[i] \in Seq(Obligation)
        /\ ledger[i] \in [Accounts -> Totals]
    BY DEF TypeOK
  <1>4. p \in Payment /\ o \in Obligation
    BY <1>1 DEF newPayment, Payment, newObligation, Obligation
  <1>5. Len(payments[i]) = 0 /\ Len(obligations[i]) = 0
    BY DEF AtStage, Booked
  <1>6. Len(payments'[i]) = 1 /\ payments'[i][1] = p
    <2> HIDE DEF p
    <2> QED
      BY <1>2, <1>3, <1>4, <1>5
  <1>7. Len(obligations'[i]) = 1 /\ obligations'[i][1] = o
    <2> HIDE DEF o
    <2> QED
      BY <1>2, <1>3, <1>4, <1>5
  <1>8. /\ ledger'[i]["1000"] = ledger[i]["1000"]
        /\ ledger'[i]["1200"].debit = ledger[i]["1200"].debit + b.amount
        /\ ledger'[i]["1200"].credit = ledger[i]["1200"].credit
    BY <1>1, <1>2, <1>3, PostLedgerEffect DEF Accounts
  <1>9. /\ ledger[i]["1200"].debit \in Nat /\ ledger[i]["1200"].credit \in Nat
    BY <1>3 DEF Accounts, Totals
  <1>10. Booked(i, 1)'
    BY <1>6, <1>7, <1>8 DEF Booked, AtStage, newPayment
  <1>11. AmountPatches = {} => Owed(i, 1)'
    <2>1. o.outstanding = b.amount
      BY DEF newObligation
    <2>2. AmountPatches = {} => balance(i, "1200")' = b.amount
      BY <1>1, <1>8, <1>9 DEF AtStage, Owed, balance
    <2> HIDE DEF b, o
    <2> QED
      BY <1>2, <1>7, <2>1, <2>2 DEF Owed
  <1>12. fin'[i].status = "FUNDED" /\ Level["FUNDED"] = 1
    BY <1>2, LevelValues
  <1> QED
    BY <1>10, <1>11, <1>12 DEF AtStage

LEMMA DisburseStage ==
  ASSUME TypeOK, NEW r \in Requests, disburse(r), NEW i \in Invoices, i = req[r].target,
         req[r].before.fin = fin[i], req[r].seen = Len(payments[i]),
         AmountOf(payments[i], OutboundIndices(payments[i])) = fin[i].net,
         AtStage(i, 1)
  PROVE  AtStage(i, 2)'
  <1> DEFINE b == req[r].before.fin
             ps == payments[i]
  <1>1. b.net \in Nat /\ req[r].seen \in Nat
    BY InFlightFields DEF disburse, ReadyToCommit
  <1>2. /\ ps \in Seq(Payment) /\ ledger[i] \in [Accounts -> Totals]
    BY DEF TypeOK
  <1>3. /\ Len(ps) = 1 /\ ps[1].direction = "OUTBOUND" /\ ps[1].recon = 0
    BY DEF AtStage, Booked
  <1>4. /\ payments'[i] = confirmOutbound(ps, 1, 1)
        /\ ledger'[i] = postLedgerEntries(ledger[i], "2100", "1000", b.net)
        /\ obligations'[i] = obligations[i]
        /\ fin'[i].status = "DISBURSED" /\ fin'[i].amount = fin[i].amount
    <2>1. PICK n \in req[r].seen .. Len(ps) :
            payments'[i] = confirmOutbound(ps, req[r].seen, n)
      BY DEF disburse, TypeOK
    <2>2. n = 1 /\ req[r].seen = 1
      BY <1>3, <2>1
    <2>3. /\ ledger'[i] = postLedgerEntries(ledger[i], "2100", "1000", b.net)
          /\ obligations'[i] = obligations[i]
          /\ fin'[i].status = "DISBURSED" /\ fin'[i].amount = fin[i].amount
      BY DEF disburse, TypeOK, Financing
    <2> QED
      BY <2>1, <2>2, <2>3
  <1>5. DOMAIN ps = {1} /\ ps[1] \in Payment
    BY <1>2, <1>3
  <1>6. payments'[i] = [k \in {1} |-> newPayment("OUTBOUND", ps[1].amount, "CONFIRMED", 1)]
    BY <1>3, <1>4, <1>5 DEF confirmOutbound
  <1>7. /\ Len(payments'[i]) = 1
        /\ payments'[i][1] = newPayment("OUTBOUND", ps[1].amount, "CONFIRMED", 1)
    <2>1. Len(confirmOutbound(ps, 1, 1)) = Len(ps)
      BY <1>2, ConfirmOutboundType
    <2> QED
      BY <1>3, <1>4, <1>6, <2>1
  <1>8. b.net = ps[1].amount
    <2>1. OutboundIndices(ps) = {1}
      BY <1>3, <1>5 DEF OutboundIndices
    <2>2. AmountOf(ps, {1}) = ps[1].amount
      BY <1>5, AmountOfOne DEF Payment
    <2> QED
      BY <2>1, <2>2
  <1>9. /\ ledger'[i]["1000"].debit = ledger[i]["1000"].debit
        /\ ledger'[i]["1000"].credit = ledger[i]["1000"].credit + b.net
        /\ ledger'[i]["1200"] = ledger[i]["1200"]
    BY <1>1, <1>2, <1>4, PostLedgerEffect DEF Accounts
  <1>10. Booked(i, 2)'
    BY <1>1, <1>4, <1>7, <1>8, <1>9 DEF Booked, AtStage, newPayment
  <1>11. AmountPatches = {} => Owed(i, 2)'
    BY <1>4, <1>9 DEF Owed, AtStage, balance
  <1>12. Level["DISBURSED"] = 2
    BY LevelValues
  <1> QED
    BY <1>4, <1>10, <1>11, <1>12 DEF AtStage

LEMMA CollectStage ==
  ASSUME TypeOK, NEW r \in Requests, collect(r), NEW i \in Invoices, i = req[r].target,
         req[r].before.fin = fin[i], req[r].before.obligations = obligations[i],
         AtStage(i, 2)
  PROVE  AtStage(i, 3)'
  <1> DEFINE b == req[r].before
             ps == payments[i]  os == obligations[i]
             p == newPayment("INBOUND", b.fin.amount, "CONFIRMED", 1)
  <1>1. b.fin.amount \in Nat
    BY InFlightFields DEF collect, ReadyToCommit
  <1>2. /\ ps \in Seq(Payment) /\ os \in Seq(Obligation)
        /\ ledger[i] \in [Accounts -> Totals]
    BY DEF TypeOK
  <1>3. /\ Len(ps) = 1 /\ Len(os) = 1
    BY DEF AtStage, Booked
  <1>4. /\ payments'[i] = Append(ps, p)
        /\ ledger'[i] = postLedgerEntries(ledger[i], "1000", "1200", b.fin.amount)
        /\ obligations'[i] \in settlements(os, b)
        /\ fin'[i].status = "COLLECTED"
    BY DEF collect, TypeOK, Financing
  <1>5. Len(obligations'[i]) = 1 /\ obligations'[i][1] = paidObligation(os[1])
    <2>1. b.obligations = os /\ os # <<>> /\ DOMAIN os = {1}
      <3>1. b.obligations = os
        OBVIOUS
      <3>2. DOMAIN os = 1..1
        BY <1>2, <1>3
      <3>3. ASSUME os = <<>> PROVE FALSE
        BY <1>2, <1>3, <3>3
      <3> QED
        BY <3>1, <3>2, <3>3
    <2>2. obligations'[i] = settle(os, 1)
      BY <1>4, <2>1 DEF settlements
    <2>3. Len(obligations'[i]) = Len(os)
      BY <1>2, <1>4, SettlementsType
    <2>4. settle(os, 1)[1] = paidObligation(os[1])
      BY <2>1 DEF settle
    <2> QED
      BY <1>3, <2>2, <2>3, <2>4
  <1>6. p \in Payment
    BY <1>1 DEF newPayment, Payment
  <1>7. Len(payments'[i]) = 2 /\ payments'[i][1] = ps[1] /\ payments'[i][2] = p
    <2> HIDE DEF p
    <2> QED
      BY <1>2, <1>3, <1>4, <1>6
  <1>8. /\ ledger'[i]["1000"].credit = ledger[i]["1000"].credit
        /\ ledger'[i]["1200"].debit = ledger[i]["1200"].debit
        /\ ledger'[i]["1200"].credit = ledger[i]["1200"].credit + b.fin.amount
    BY <1>1, <1>2, <1>4, PostLedgerEffect DEF Accounts
  <1>9. Booked(i, 3)'
    <2>1. /\ p.direction = "INBOUND" /\ p.status = "CONFIRMED" /\ p.recon = 1
      BY DEF newPayment
    <2> HIDE DEF p
    <2> QED
      BY <1>5, <1>7, <1>8, <2>1 DEF Booked, AtStage
  <1>10. AmountPatches = {} => Owed(i, 3)'
    <2>1. ledger[i]["1200"].debit \in Nat /\ ledger[i]["1200"].credit \in Nat
      BY <1>2 DEF Accounts, Totals
    <2>2. paidObligation(os[1]).outstanding = 0
      BY DEF paidObligation
    <2>3. AmountPatches = {} => balance(i, "1200") = b.fin.amount
      BY DEF AtStage, Owed
    <2>4. AmountPatches = {} => balance(i, "1200")' = 0
      BY <1>1, <1>8, <2>1, <2>3 DEF balance
    <2> QED
      BY <1>5, <2>2, <2>4 DEF Owed
  <1>11. Level["COLLECTED"] = 3
    BY LevelValues
  <1> QED
    BY <1>4, <1>9, <1>10, <1>11 DEF AtStage

\* A committed transaction takes its financing to the stage its status names.
LEMMA CommitStaged ==
  ASSUME TypeOK, SerialInv, NEW r \in Requests, Commit(r), NEW i \in Invoices,
         i = req[r].target
  PROVE  /\ \E n \in 0..3 : AtStage(i, n)'
         /\ InvoicePatchesSpareFinanced /\ Level[fin[i].status]' = 2 => invoice'[i] = "FINANCED"
  <1> DEFINE b == req[r].before  op == req[r].op
  <1>1. req[r] # Idle /\ req[r].phase # "committed"
    BY CommitRows
  <1>2. /\ b.fin = fin[i] /\ b.invoice = invoice[i] /\ b.obligations = obligations[i]
        /\ guardHolds(op, b)
    BY <1>1 DEF SerialInv, Fresh
  <1>3. /\ op \in FinancingOps => fin[i].status \in AllowedFrom[op]
        /\ op \in InvoiceOps => invoice[i] \in InvoiceAllowedFrom[op]
    BY <1>2 DEF guardHolds, FinancingOps, InvoiceOps
  <1>4. PICK n \in 0..3 : AtStage(i, n)
    BY DEF SerialInv, Staged
  <1>5. fin[i].status # "CANCELLED" => n = Level[fin[i].status]
    BY <1>4 DEF AtStage
  <1>6. fin[i] \in Financing
    BY DEF TypeOK
  <1> USE DEF ReadyToCommit
  <1>7. CASE createOfferFromInvoice(r)
    <2>1. /\ fin[i] = NoFinancing /\ fin'[i].status = "OFFERED"
          /\ payments' = payments /\ obligations' = obligations /\ ledger' = ledger
      BY <1>7 DEF createOfferFromInvoice, TypeOK
    <2>2. n = 0 /\ Level["OFFERED"] = 0
      BY <1>5, <2>1, LevelValues DEF NoFinancing
    <2>3. AtStage(i, 0)'
      BY <1>4, <2>1, <2>2 DEF AtStage, Booked, Owed, balance
    <2> QED
      BY <2>1, <2>2, <2>3
  <1>8. CASE accept(r)
    <2>1. /\ fin[i].status = "OFFERED" /\ fin'[i].status = "ACCEPTED"
          /\ payments' = payments /\ obligations' = obligations /\ ledger' = ledger
      BY <1>3, <1>6, <1>8 DEF accept, FinancingOps, AllowedFrom, TypeOK, Financing
    <2>2. n = 0 /\ Level["ACCEPTED"] = 0
      BY <1>5, <2>1, LevelValues
    <2>3. AtStage(i, 0)'
      BY <1>4, <2>1, <2>2 DEF AtStage, Booked, Owed, balance
    <2> QED
      BY <2>1, <2>2, <2>3
  <1>9. CASE fund(r)
    <2>1. fin[i].status = "ACCEPTED"
      BY <1>3, <1>9 DEF fund, FinancingOps, AllowedFrom
    <2>2. n = 0
      BY <1>5, <2>1, LevelValues
    <2>3. AtStage(i, 1)'
      BY <1>2, <1>4, <1>9, <2>2, FundStage
    <2>4. Level[fin[i].status]' = 1
      BY <1>6, <1>9, LevelValues DEF fund, TypeOK, Financing
    <2> QED
      BY <2>3, <2>4
  <1>10. CASE disburse(r)
    <2>1. fin[i].status = "FUNDED" /\ req[r].phase = "checked" /\ op = "disburse"
      BY <1>3, <1>10 DEF disburse, FinancingOps, AllowedFrom, CheckingOps
    <2>2. n = 1
      BY <1>5, <2>1, LevelValues
    <2>3. /\ req[r].seen = Len(payments[i])
          /\ AmountOf(payments[i], OutboundIndices(payments[i])) = fin[i].net
      BY <1>1, <2>1 DEF SerialInv, Fresh
    <2>4. AtStage(i, 2)'
      BY <1>2, <1>4, <1>10, <2>2, <2>3, DisburseStage
    <2>5. invoice'[i] = "FINANCED"
      BY <1>10 DEF disburse, TypeOK
    <2> QED
      BY <2>4, <2>5
  <1>11. CASE collect(r)
    <2>1. fin[i].status \in {"DISBURSED", "MATURED"}
      BY <1>3, <1>11 DEF collect, FinancingOps, AllowedFrom
    <2>2. n = 2
      BY <1>5, <2>1, LevelValues
    <2>3. AtStage(i, 3)'
      BY <1>2, <1>4, <1>11, <2>2, CollectStage
    <2>4. Level[fin[i].status]' = 3
      BY <1>6, <1>11, LevelValues DEF collect, TypeOK, Financing
    <2> QED
      BY <2>3, <2>4
  <1>12. CASE close(r)
    <2>1. /\ fin[i].status = "COLLECTED" /\ fin'[i].status = "CLOSED"
          /\ payments' = payments /\ obligations' = obligations /\ ledger' = ledger
      BY <1>3, <1>6, <1>12 DEF close, FinancingOps, AllowedFrom, TypeOK, Financing
    <2>2. n = 3 /\ Level["CLOSED"] = 3
      BY <1>5, <2>1, LevelValues
    <2>3. AtStage(i, 3)'
      BY <1>4, <2>1, <2>2 DEF AtStage, Booked, Owed, balance
    <2> QED
      BY <2>1, <2>2, <2>3
  <1>13. CASE remove(r)
    <2>1. /\ fin[i].status \in FinancingStatus \ {"DISBURSED", "COLLECTED", "CLOSED"}
          /\ fin'[i].status = "CANCELLED" /\ fin'[i].amount = fin[i].amount
          /\ payments' = payments /\ obligations' = obligations /\ ledger' = ledger
      BY <1>3, <1>6, <1>13 DEF remove, FinancingOps, AllowedFrom, TypeOK, Financing
    <2>2. n <= 2 /\ Level["CANCELLED"] = 0
      <3>1. CASE fin[i].status = "CANCELLED"
        BY <1>4, <3>1, LevelValues DEF AtStage
      <3>2. CASE fin[i].status # "CANCELLED"
        BY <1>5, <2>1, <3>2, LevelValues DEF FinancingStatus
      <3> QED
        BY <3>1, <3>2
    <2>3. AtStage(i, n)'
      BY <1>4, <2>1, <2>2 DEF AtStage, Booked, Owed, balance
    <2> QED
      BY <2>1, <2>2, <2>3
  <1>14. CASE approveInvoice(r) \/ removeInvoice(r)
    <2>1. /\ fin' = fin /\ payments' = payments /\ obligations' = obligations
          /\ ledger' = ledger
      BY <1>14 DEF approveInvoice, removeInvoice
    <2>2. invoice[i] # "FINANCED"
      BY <1>3, <1>14 DEF approveInvoice, removeInvoice, InvoiceOps, InvoiceAllowedFrom
    <2>3. InvoicePatchesSpareFinanced => Level[fin[i].status] # 2
      BY <2>2 DEF SerialInv, Staged
    <2>4. AtStage(i, n)'
      BY <1>4, <2>1 DEF AtStage, Booked, Owed, balance
    <2> QED
      BY <2>1, <2>3, <2>4
  <1> QED
    BY <1>7, <1>8, <1>9, <1>10, <1>11, <1>12, <1>13, <1>14 DEF Commit

\* PATCH, between the requests of a financing.
LEMMA UpdateStaged ==
  ASSUME SerialPerFinancing, PatchesKeepStage, TypeOK, SerialInv,
         NEW j \in Invoices, update(j)
  PROVE  /\ Staged'
         /\ ~Busy(j)
         /\ \A i \in Invoices : i # j => SameRows(i)
  <1>1. ~Busy(j)
    BY DEF update
  <1>2. /\ invoice' = invoice /\ payments' = payments /\ obligations' = obligations
        /\ ledger' = ledger /\ \A i \in Invoices : i # j => fin'[i] = fin[i]
    BY DEF update, TypeOK
  <1>3. \A i \in Invoices : i # j => SameRows(i)
    BY <1>2 DEF SameRows
  <1>4. PICK n \in 0..3 : AtStage(j, n)
    BY DEF SerialInv, Staged
  <1>5. fin[j] \in Financing
    BY DEF TypeOK
  <1>6. /\ Level[fin'[j].status] = Level[fin[j].status]
        /\ fin'[j].status = "CANCELLED" <=> fin[j].status = "CANCELLED"
        /\ AmountPatches = {} => fin'[j].amount = fin[j].amount
    <2>1. CASE \E p \in StatusPatches :
                 fin[j].status = p[1] /\ fin' = [fin EXCEPT ![j].status = p[2]]
      BY <1>5, <2>1 DEF PatchesKeepStage, TypeOK, Financing
    <2>2. CASE \E a \in AmountPatches : fin' = [fin EXCEPT ![j].amount = a]
      BY <1>5, <2>2 DEF TypeOK, Financing
    <2>3. CASE \E a \in NetPatches : fin' = [fin EXCEPT ![j].net = a]
      BY <1>5, <2>3 DEF TypeOK, Financing
    <2> QED
      BY <2>1, <2>2, <2>3 DEF update
  <1>7. AtStage(j, n)'
    BY <1>2, <1>4, <1>6 DEF AtStage, Booked, Owed, balance
  <1>8. InvoicePatchesSpareFinanced /\ Level[fin[j].status]' = 2 => invoice'[j] = "FINANCED"
    BY <1>2, <1>6 DEF SerialInv, Staged
  <1>9. \A i \in Invoices : i # j =>
          /\ \E m \in 0..3 : AtStage(i, m)'
          /\ InvoicePatchesSpareFinanced /\ Level[fin[i].status]' = 2 => invoice'[i] = "FINANCED"
    BY <1>3, StageKept DEF SerialInv
  <1> QED
    BY <1>1, <1>3, <1>7, <1>8, <1>9 DEF Staged

\* The step of a request, seen from the requests.
LEMMA ApartStep ==
  ASSUME SerialPerFinancing, TypeOK, SerialInv, [Next]_vars
  PROVE  Apart'
  <1>1. Apart
    BY DEF SerialInv
  <1>2. ASSUME NEW r \in Requests, NEW q, q = req'[r],
               req' = [req EXCEPT ![r] = q],
               \/ q = Idle
               \/ req[r] # Idle /\ q.target = req[r].target
               \/ ~Busy(q.target)
        PROVE  Apart'
    <2> SUFFICES ASSUME NEW x \in Requests, NEW y \in Requests,
                        req'[x] # Idle, req'[y] # Idle,
                        req'[x].target = req'[y].target
                 PROVE  x = y
      BY DEF Apart
    <2>1. \A z \in Requests : z # r => req'[z] = req[z]
      BY <1>2 DEF TypeOK
    <2> QED
      BY <1>1, <1>2, <2>1 DEF Apart, Busy
  <1>3. ASSUME NEW r \in Requests, NEW i \in Invoices, NEW op \in Ops, findOne(r, i, op)
        PROVE  Apart'
    <2> DEFINE q == [phase |-> "read", op |-> op, target |-> i,
                     before |-> [fin |-> fin[i], invoice |-> invoice[i],
                                 obligations |-> obligations[i]],
                     seen |-> 0]
    <2>1. req' = [req EXCEPT ![r] = q] /\ q.target = i /\ ~Busy(i)
      BY <1>3 DEF findOne
    <2>2. req'[r] = q
      BY <2>1 DEF TypeOK
    <2> HIDE DEF q
    <2> QED
      BY <1>2, <2>1, <2>2
  <1>4. ASSUME NEW r \in Requests, req[r] # Idle, NEW q, req' = [req EXCEPT ![r] = q],
               q.target = req[r].target
        PROVE  Apart'
    BY <1>2, <1>4 DEF TypeOK
  <1>5. ASSUME NEW r \in Requests, checkOutbound(r) \/ countOpenObligations(r)
        PROVE  Apart'
    <2>1. req[r] # Idle /\ req[r] \in InFlight
      BY <1>5, InFlightFields DEF checkOutbound, countOpenObligations
    <2>2. \A n : [req[r] EXCEPT !.phase = "checked", !.seen = n].target = req[r].target
      BY <2>1 DEF InFlight
    <2>3. [req[r] EXCEPT !.phase = "checked"].target = req[r].target
      BY <2>1 DEF InFlight
    <2>4. \/ req' = [req EXCEPT ![r] = [req[r] EXCEPT !.phase = "checked",
                                              !.seen = Len(payments[req[r].target])]]
          \/ req' = [req EXCEPT ![r] = [req[r] EXCEPT !.phase = "checked"]]
      BY <1>5 DEF checkOutbound, countOpenObligations
    <2> QED
      BY <1>4, <2>1, <2>2, <2>3, <2>4
  <1>6. ASSUME NEW r \in Requests, Commit(r)
        PROVE  Apart'
    <2>1. req[r] # Idle /\ req[r] \in InFlight
      BY <1>6, CommitRows, InFlightFields
    <2>2. [req[r] EXCEPT !.phase = "committed"].target = req[r].target
      BY <2>1 DEF InFlight
    <2>3. req' = [req EXCEPT ![r] = [req[r] EXCEPT !.phase = "committed"]]
      BY <1>6, CommitRows
    <2> QED
      BY <1>4, <2>1, <2>2, <2>3
  <1>7. ASSUME NEW r \in Requests, queueWebhookDeliveries(r) \/ abandon(r)
        PROVE  Apart'
    BY <1>2, <1>7 DEF queueWebhookDeliveries, abandon, TypeOK
  <1>8. CASE UNCHANGED req
    BY <1>1, <1>8 DEF Apart
  <1>9. \A i \in Invoices : update(i) \/ updateInvoice(i) => UNCHANGED req
    BY DEF update, updateInvoice
  <1> QED
    BY <1>3, <1>5, <1>6, <1>7, <1>8, <1>9 DEF Next, vars

\* PATCH of an invoice, between the requests of its financing.
LEMMA InvoiceEdited ==
  ASSUME SerialPerFinancing, TypeOK, SerialInv, NEW j \in Invoices, updateInvoice(j)
  PROVE  /\ Staged'
         /\ ~Busy(j)
         /\ \A i \in Invoices : i # j => SameRows(i)
  <1>1. ~Busy(j)
    BY DEF updateInvoice
  <1>2. PICK p \in InvoicePatches : invoice[j] = p[1] /\ invoice' = [invoice EXCEPT ![j] = p[2]]
    BY DEF updateInvoice
  <1>3. UNCHANGED <<fin, payments, obligations, allocations, ledger, events, req>>
    BY DEF updateInvoice
  <1>4. \A i \in Invoices : i # j => SameRows(i)
    BY <1>2, <1>3 DEF SameRows, TypeOK
  <1>5. ASSUME NEW i \in Invoices
        PROVE  \E n \in 0..3 : AtStage(i, n)'
    <2>1. PICK n \in 0..3 : AtStage(i, n)
      BY DEF SerialInv, Staged
    <2>2. AtStage(i, n)'
      BY <1>3, <2>1 DEF AtStage, Booked, Owed, balance
    <2> QED
      BY <2>2
  <1>6. ASSUME InvoicePatchesSpareFinanced, NEW i \in Invoices, Level[fin[i].status] = 2
        PROVE  invoice'[i] = "FINANCED"
    <2>1. invoice[i] = "FINANCED"
      BY <1>6 DEF SerialInv, Staged
    <2>2. CASE i = j
      BY <1>2, <1>6, <2>1, <2>2 DEF InvoicePatchesSpareFinanced, TypeOK
    <2>3. CASE i # j
      BY <1>2, <2>1, <2>3 DEF TypeOK
    <2> QED
      BY <2>2, <2>3
  <1>7. \A i \in Invoices : Level[fin[i].status]' = Level[fin[i].status]
    BY <1>3
  <1> QED
    BY <1>1, <1>4, <1>5, <1>6, <1>7 DEF Staged

\* Fresh, of one request.
FreshRequest(q) ==
  LET i == q.target  b == q.before
  IN /\ b.fin = fin[i] /\ b.invoice = invoice[i] /\ b.obligations = obligations[i]
     /\ guardHolds(q.op, b)
     /\ q.op = "disburse" /\ q.phase = "checked" =>
          /\ q.seen = Len(payments[i])
          /\ AmountOf(payments[i], OutboundIndices(payments[i])) = fin[i].net

LEMMA FreshKept ==
  ASSUME NEW q, FreshRequest(q), SameRows(q.target)
  PROVE  FreshRequest(q)'
  BY DEF FreshRequest, SameRows

LEMMA FreshStep ==
  ASSUME SerialPerFinancing, PatchesKeepStage, TypeOK, SerialInv, [Next]_vars
  PROVE  Fresh'
  <1> SUFFICES ASSUME NEW r \in Requests, req'[r] # Idle, req'[r].phase # "committed"
               PROVE  FreshRequest(req[r])'
    BY DEF Fresh, FreshRequest
  <1>1. \A q \in Requests : req[q] # Idle /\ req[q].phase # "committed" => FreshRequest(req[q])
    BY DEF SerialInv, Fresh, FreshRequest
  <1>2. ASSUME req'[r] = req[r], SameRows(req[r].target)
        PROVE  FreshRequest(req[r])'
    <2>1. FreshRequest(req[r])
      BY <1>1, <1>2
    <2>2. PICK q : q = req[r]
      OBVIOUS
    <2>3. FreshRequest(q)'
      BY <1>2, <2>1, <2>2, FreshKept
    <2> QED
      BY <1>2, <2>2, <2>3
  <1>3. ASSUME NEW i \in Invoices, NEW op \in Ops, findOne(r, i, op)
        PROVE  FreshRequest(req[r])'
    BY <1>3 DEF findOne, FreshRequest, TypeOK
  <1>4. ASSUME checkOutbound(r) \/ countOpenObligations(r)
        PROVE  FreshRequest(req[r])'
    <2>1. req[r] # Idle /\ req[r] \in InFlight /\ req[r].phase = "read"
          /\ req[r].target \in Invoices
      BY <1>4, InFlightFields DEF checkOutbound, countOpenObligations
    <2>2. FreshRequest(req[r])
      BY <1>1, <2>1
    <2>3. /\ fin' = fin /\ invoice' = invoice /\ payments' = payments
          /\ obligations' = obligations
      BY <1>4 DEF checkOutbound, countOpenObligations
    <2>4. /\ req'[r].target = req[r].target /\ req'[r].op = req[r].op
          /\ req'[r].before = req[r].before
      BY <1>4, <2>1 DEF checkOutbound, countOpenObligations, TypeOK, InFlight
    <2>5. req[r].op = "disburse" =>
            /\ req'[r].seen = Len(payments[req[r].target])
            /\ AmountOf(payments[req[r].target], OutboundIndices(payments[req[r].target]))
                 = fin[req[r].target].net
      BY <1>4, <2>1, <2>2
      DEF checkOutbound, countOpenObligations, TypeOK, InFlight, FreshRequest
    <2> QED
      BY <2>2, <2>3, <2>4, <2>5 DEF FreshRequest
  <1>5. ASSUME NEW q \in Requests, Commit(q)
        PROVE  FreshRequest(req[r])'
    <2>1. /\ req[q] # Idle /\ req[q] \in InFlight
          /\ req' = [req EXCEPT ![q].phase = "committed"]
          /\ \A i \in Invoices : i # req[q].target => SameRows(i)
      BY <1>5, CommitRows, InFlightFields
    <2>2. r # q
      BY <2>1 DEF TypeOK, InFlight
    <2>3. req'[r] = req[r]
      BY <2>1, <2>2 DEF TypeOK
    <2>4. req[r].target \in Invoices /\ req[r].target # req[q].target
      BY <2>1, <2>2, <2>3, InFlightFields DEF SerialInv, Apart
    <2> QED
      BY <1>2, <2>1, <2>3, <2>4
  <1>6. ASSUME NEW j \in Invoices, update(j)
        PROVE  FreshRequest(req[r])'
    <2>1. req' = req
      BY <1>6 DEF update
    <2>2. req[r].target \in Invoices /\ req[r].target # j
      BY <1>6, <2>1, UpdateStaged, InFlightFields DEF Busy
    <2> QED
      BY <1>2, <1>6, <2>1, <2>2, UpdateStaged
  <1>11. ASSUME NEW j \in Invoices, updateInvoice(j)
         PROVE  FreshRequest(req[r])'
    <2>1. req' = req
      BY <1>11 DEF updateInvoice
    <2>2. req[r].target \in Invoices /\ req[r].target # j
      BY <1>11, <2>1, InvoiceEdited, InFlightFields DEF Busy
    <2> QED
      BY <1>2, <1>11, <2>1, <2>2, InvoiceEdited
  <1>7. ASSUME UNCHANGED <<invoice, fin, payments, obligations, ledger>>, req'[r] = req[r]
        PROVE  FreshRequest(req[r])'
    BY <1>2, <1>7 DEF SameRows
  <1>8. ASSUME NEW q \in Requests, queueWebhookDeliveries(q) \/ abandon(q)
        PROVE  FreshRequest(req[r])'
    BY <1>7, <1>8 DEF queueWebhookDeliveries, abandon, TypeOK
  <1>9. ASSUME NEW q \in Requests, q # r,
               \/ checkOutbound(q) \/ countOpenObligations(q)
               \/ \E i \in Invoices, op \in Ops : findOne(q, i, op)
        PROVE  FreshRequest(req[r])'
    BY <1>7, <1>9 DEF checkOutbound, countOpenObligations, findOne, TypeOK
  <1>10. CASE UNCHANGED vars
    BY <1>7, <1>10 DEF vars
  <1> QED
    BY <1>3, <1>4, <1>5, <1>6, <1>8, <1>9, <1>10, <1>11 DEF Next

LEMMA StagedStep ==
  ASSUME SerialPerFinancing, PatchesKeepStage, TypeOK, SerialInv, [Next]_vars
  PROVE  Staged'
  <1>1. ASSUME \A i \in Invoices : SameRows(i)
        PROVE  Staged'
    BY <1>1, StageKept DEF SerialInv, Staged
  <1>2. ASSUME UNCHANGED <<invoice, fin, payments, obligations, ledger>>
        PROVE  Staged'
    BY <1>1, <1>2 DEF SameRows
  <1>3. ASSUME NEW r \in Requests, Commit(r)
        PROVE  Staged'
    <2> SUFFICES ASSUME NEW i \in Invoices
                 PROVE  /\ \E n \in 0..3 : AtStage(i, n)'
                        /\ InvoicePatchesSpareFinanced /\ Level[fin[i].status]' = 2 => invoice'[i] = "FINANCED"
      BY DEF Staged
    <2>1. CASE i = req[r].target
      BY <1>3, <2>1, CommitStaged
    <2>2. CASE i # req[r].target
      BY <1>3, <2>2, CommitRows, StageKept DEF SerialInv
    <2> QED
      BY <2>1, <2>2
  <1>4. ASSUME NEW j \in Invoices, update(j)
        PROVE  Staged'
    BY <1>4, UpdateStaged
  <1>5. ASSUME NEW j \in Invoices, updateInvoice(j)
        PROVE  Staged'
    BY <1>5, InvoiceEdited
  <1>6. ASSUME NEW r \in Requests,
               \/ checkOutbound(r) \/ countOpenObligations(r)
               \/ queueWebhookDeliveries(r) \/ abandon(r)
               \/ \E i \in Invoices, op \in Ops : findOne(r, i, op)
        PROVE  Staged'
    BY <1>2, <1>6
    DEF checkOutbound, countOpenObligations, findOne, queueWebhookDeliveries, abandon
  <1>7. CASE UNCHANGED vars
    BY <1>2, <1>7 DEF vars
  <1> QED
    BY <1>3, <1>4, <1>5, <1>6, <1>7 DEF Next

LEMMA SerialInit == Init => SerialInv
  <1> SUFFICES ASSUME Init PROVE SerialInv
    OBVIOUS
  <1>1. ASSUME NEW i \in Invoices
        PROVE  AtStage(i, 0) /\ Level[fin[i].status] = 0
    <2>1. /\ fin[i].status = "NONE" /\ Len(payments[i]) = 0 /\ Len(obligations[i]) = 0
          /\ \A a \in Accounts : ledger[i][a] = [debit |-> 0, credit |-> 0]
      BY DEF Init, NoFinancing
    <2>2. balance(i, "1200") = 0
      BY <2>1 DEF balance, Accounts
    <2> QED
      BY <2>1, <2>2, LevelValues DEF AtStage, Booked, Owed, Accounts
  <1>2. Apart /\ Fresh
    BY DEF Init, Apart, Fresh
  <1> QED
    BY <1>1, <1>2 DEF SerialInv, Staged

\* The serial invariant, from which the books, the protected invoices and the
\* refinement are read off.
THEOREM SerialFinancings ==
  ASSUME SerialPerFinancing, PatchesKeepStage
  PROVE  Spec => []SerialInv
  <1>1. TypeOK /\ SerialInv /\ [Next]_vars => SerialInv'
    BY StagedStep, ApartStep, FreshStep DEF SerialInv
  <1> QED
    BY <1>1, SerialInit, TypeCorrect, PTL DEF Spec

\* While its money is out, an invoice is FINANCED: unless a PATCH writes over that
\* status, no endpoint approves it for a second offer or cancels it, whatever
\* PATCH has made of it before.
THEOREM MoneyOutKeepsInvoice ==
  ASSUME SerialPerFinancing, PatchesKeepStage
  PROVE  Spec => []FinancedInvoiceProtected
  <1>1. SerialInv => FinancedInvoiceProtected
    BY LevelValues DEF SerialInv, Staged, FinancedInvoiceProtected
  <1> QED
    BY <1>1, SerialFinancings, PTL

\* What the obligations of a financing leave outstanding.
OutstandingOf(os) == MapThenSumSet(LAMBDA k : os[k].outstanding, DOMAIN os)

LEMMA OutstandingIsTotal ==
  ASSUME NEW os, IsFiniteSet(DOMAIN os)
  PROVE  OutstandingOf(os) = Total([k \in DOMAIN os |-> os[k].outstanding], DOMAIN os)
  <1> DEFINE K == DOMAIN os
             f == [k \in K |-> os[k].outstanding]
             Q(g) == g = [s \in SUBSET K |->
                        IF s = {} THEN 0 ELSE os[Pick(s)].outstanding + g[s \ {Pick(s)}]]
  <1>1. \A s \in SUBSET K : s # {} => f[Pick(s)] = os[Pick(s)].outstanding
    BY PickIsMember
  <1>2. OutstandingOf(os) = (CHOOSE g : Q(g))[K]
    BY DEF OutstandingOf, MapThenSumSet, MapThenFoldSet, Pick
  <1> HIDE DEF f, K
  <1>3. \A g : Q(g) <=> Tabulates(g, f, K)
    BY <1>1 DEF Tabulates
  <1>4. Tabulates(Table(f, K), f, K)
    BY TableExists DEF K
  <1>5. Q(CHOOSE g : Q(g))
    <2>1. Q(Table(f, K))
      BY <1>3, <1>4
    <2> HIDE DEF Q
    <2> QED
      BY <2>1
  <1>6. Tabulates(CHOOSE g : Q(g), f, K)
    BY <1>3, <1>5
  <1> HIDE DEF Q
  <1>7. (CHOOSE g : Q(g))[K] = Table(f, K)[K]
    BY <1>4, <1>6, TableUnique DEF K
  <1> QED
    BY <1>2, <1>7, TotalIsTabulated DEF f, K

LEMMA OutstandingOfFew ==
  ASSUME NEW os
  PROVE  /\ DOMAIN os = {} => OutstandingOf(os) = 0
         /\ \A e : DOMAIN os = {e} /\ os[e].outstanding \in Nat
              => OutstandingOf(os) = os[e].outstanding
  <1> DEFINE f == [k \in DOMAIN os |-> os[k].outstanding]
  <1>1. ASSUME DOMAIN os = {}
        PROVE  OutstandingOf(os) = 0
    BY <1>1, OutstandingIsTotal, TotalOfNone, FS_EmptySet
  <1>2. ASSUME NEW e, DOMAIN os = {e}, os[e].outstanding \in Nat
        PROVE  OutstandingOf(os) = os[e].outstanding
    <2>1. f[e] = os[e].outstanding /\ IsFiniteSet(DOMAIN os)
      BY <1>2, FS_Singleton
    <2>2. OutstandingOf(os) = Total(f, DOMAIN os)
      BY <2>1, OutstandingIsTotal
    <2> HIDE DEF f
    <2>3. \A x \in {} \cup {e} : f[x] \in Nat
      BY <1>2, <2>1
    <2>4. Total(f, {} \cup {e}) = Total(f, {}) + f[e]
      BY <2>3, FS_EmptySet, TotalAdd
    <2>5. {} \cup {e} = DOMAIN os
      BY <1>2
    <2> QED
      BY <1>2, <2>1, <2>2, <2>4, <2>5, TotalOfNone
  <1> QED
    BY <1>1, <1>2

LEMMA BooksFollow ==
  ASSUME AmountPatches = {}, TypeOK, SerialInv
  PROVE  BooksAgree
  <1>1. ASSUME NEW i \in Invoices
        PROVE  /\ balance(i, "1200") = OutstandingOf(obligations[i])
               /\ ledger[i]["1000"].credit =
                    AmountOf(payments[i], {k \in OutboundIndices(payments[i]) :
                                             payments[i][k].status = "CONFIRMED"})
               /\ \A k \in DOMAIN payments[i] : payments[i][k].recon =
                    (IF payments[i][k].status = "CONFIRMED" THEN 1 ELSE 0)
    <2> DEFINE ps == payments[i]  os == obligations[i]
               K == {k \in OutboundIndices(ps) : ps[k].status = "CONFIRMED"}
    <2>1. PICK n \in 0..3 : Booked(i, n) /\ Owed(i, n)
      BY DEF SerialInv, Staged, AtStage
    <2>2. /\ ps \in Seq(Payment) /\ DOMAIN ps = 1..Len(ps) /\ os \in Seq(Obligation)
          /\ DOMAIN os = 1..Len(os)
      BY DEF TypeOK
    <2>3. /\ \A k \in DOMAIN ps : ps[k].amount \in Nat
          /\ \A k \in DOMAIN os : os[k].outstanding \in Nat
      <3>1. \A k \in DOMAIN ps : ps[k] \in Payment
        BY <2>2
      <3>2. \A k \in DOMAIN os : os[k] \in Obligation
        BY <2>2
      <3> QED
        BY <3>1, <3>2 DEF Payment, Obligation
    <2>4. balance(i, "1200") = OutstandingOf(os)
      <3>1. CASE n = 0
        <4>1. DOMAIN os = {} /\ balance(i, "1200") = 0
          BY <2>1, <2>2, <3>1 DEF Booked, Owed
        <4> QED
          BY <4>1, OutstandingOfFew
      <3>2. CASE n # 0
        <4>1. DOMAIN os = {1} /\ balance(i, "1200") = os[1].outstanding
          BY <2>1, <2>2, <3>2 DEF Booked, Owed
        <4> QED
          BY <2>3, <4>1, OutstandingOfFew
      <3> QED
        BY <3>1, <3>2
    <2>5. ledger[i]["1000"].credit = AmountOf(ps, K)
      <3>1. CASE n <= 1
        <4>1. K = {} /\ ledger[i]["1000"].credit = 0
          BY <2>1, <2>2, <3>1 DEF Booked, OutboundIndices
        <4> QED
          BY <4>1, AmountOfNone
      <3>2. CASE n >= 2
        <4>1. K = {1} /\ ledger[i]["1000"].credit = ps[1].amount /\ 1 \in DOMAIN ps
          BY <2>1, <2>2, <3>2 DEF Booked, OutboundIndices
        <4> QED
          BY <2>3, <4>1, AmountOfOne
      <3> QED
        BY <3>1, <3>2
    <2>6. \A k \in DOMAIN ps :
            ps[k].recon = (IF ps[k].status = "CONFIRMED" THEN 1 ELSE 0)
      BY <2>1, <2>2 DEF Booked
    <2> QED
      BY <2>4, <2>5, <2>6
  <1>2. ReceivableIsOutstanding
    BY <1>1 DEF ReceivableIsOutstanding, OutstandingOf
  <1> QED
    BY <1>1, <1>2 DEF BooksAgree, CashOutMatchesOutbound, ReconciledOnce

\* The receivable account is what the obligations leave outstanding, the cash
\* paid out is the total of the confirmed outbound payments, and every confirmed
\* payment has one reconciliation item, whatever is refused half-way or stops
\* after its commit, where PATCH edits no invoice amount.
THEOREM BooksAreInOrder ==
  ASSUME SerialPerFinancing, PatchesKeepStage, AmountPatches = {}
  PROVE  Spec => []BooksAgree
  <1>1. TypeOK /\ SerialInv => BooksAgree
    BY BooksFollow
  <1> QED
    BY <1>1, SerialFinancings, TypeCorrect, PTL
-----------------------------------------------------------------------------
(* The refinement: every step of the handlers is a step of the abstract       *)
(* lifecycle or leaves its stages and its cash alone.                         *)

Stage == [i \in Invoices |-> fin[i].status]
CashOut == [i \in Invoices |-> ledger[i]["1000"].credit]
CashIn == [i \in Invoices |-> ledger[i]["1000"].debit]

LEMMA LifecycleInit == Init => Lifecycle!Init
  BY DEF Init, Lifecycle!Init, NoFinancing, Accounts

LEMMA StageMoves ==
  ASSUME TypeOK, NEW i \in Invoices, NEW s, fin' = [fin EXCEPT ![i].status = s]
  PROVE  Stage' = [Stage EXCEPT ![i] = s]
  <1>1. \A j \in Invoices : fin'[j].status = IF j = i THEN s ELSE fin[j].status
    BY DEF TypeOK, Financing
  <1> QED
    BY <1>1 DEF Stage

\* Naming the invoice of a step is enough.
LEMMA OfOneInvoice ==
  ASSUME NEW j \in Invoices,
         \/ Lifecycle!Offer(j) \/ Lifecycle!Accept(j) \/ Lifecycle!Fund(j)
         \/ Lifecycle!Pay(j) \/ Lifecycle!Receive(j) \/ Lifecycle!Close(j)
         \/ Lifecycle!Cancel(j) \/ Lifecycle!Edit(j)
  PROVE  Lifecycle!Next
  BY DEF Lifecycle!Next

LEMMA CashMoves ==
  ASSUME TypeOK, NEW i \in Invoices, NEW d \in Accounts, NEW c \in Accounts, d # c,
         NEW n \in Nat,
         ledger' = [ledger EXCEPT ![i] = postLedgerEntries(@, d, c, n)]
  PROVE  /\ d # "1000" => CashIn' = CashIn
         /\ c # "1000" => CashOut' = CashOut
         /\ d = "1000" => CashIn' = [CashIn EXCEPT ![i] = @ + n]
         /\ c = "1000" => CashOut' = [CashOut EXCEPT ![i] = @ + n]
  <1>1. ledger[i] \in [Accounts -> Totals]
    BY DEF TypeOK
  <1>2. \A j \in Invoices \ {i} : ledger'[j] = ledger[j]
    BY DEF TypeOK
  <1>3. ledger'[i] = postLedgerEntries(ledger[i], d, c, n)
    BY DEF TypeOK
  <1>4. /\ d # "1000" => ledger'[i]["1000"].debit = ledger[i]["1000"].debit
        /\ c # "1000" => ledger'[i]["1000"].credit = ledger[i]["1000"].credit
        /\ d = "1000" => ledger'[i]["1000"].debit = ledger[i]["1000"].debit + n
        /\ c = "1000" => ledger'[i]["1000"].credit = ledger[i]["1000"].credit + n
    BY <1>1, <1>3, PostLedgerEffect DEF Accounts
  <1>5. /\ d # "1000" => CashIn' = CashIn
        /\ c # "1000" => CashOut' = CashOut
    BY <1>2, <1>4 DEF CashIn, CashOut
  <1>6. ASSUME d = "1000"
        PROVE  CashIn' = [CashIn EXCEPT ![i] = CashIn[i] + n]
    <2>1. \A j \in Invoices : ledger'[j]["1000"].debit =
            IF j = i THEN ledger[i]["1000"].debit + n ELSE ledger[j]["1000"].debit
      BY <1>2, <1>4, <1>6
    <2> QED
      BY <2>1 DEF CashIn
  <1>7. ASSUME c = "1000"
        PROVE  CashOut' = [CashOut EXCEPT ![i] = CashOut[i] + n]
    <2>1. \A j \in Invoices : ledger'[j]["1000"].credit =
            IF j = i THEN ledger[i]["1000"].credit + n ELSE ledger[j]["1000"].credit
      BY <1>2, <1>4, <1>7
    <2> QED
      BY <2>1 DEF CashOut
  <1> QED
    BY <1>5, <1>6, <1>7

LEMMA CommitImplements ==
  ASSUME TypeOK, SerialInv, NEW r \in Requests, Commit(r)
  PROVE  Lifecycle!Next \/ UNCHANGED Lifecycle!vars
  <1>1. PICK i : i = req[r].target
    OBVIOUS
  <1>2. PICK b : b = req[r].before
    OBVIOUS
  <1>3. req[r] # Idle /\ req[r].phase # "committed" /\ i \in Invoices
    BY <1>1, CommitRows
  <1>4. /\ b.fin = fin[i] /\ b.obligations = obligations[i]
        /\ guardHolds(req[r].op, b)
    BY <1>1, <1>2, <1>3 DEF SerialInv, Fresh
  <1>5. req[r].op \in FinancingOps => fin[i].status \in AllowedFrom[req[r].op]
    BY <1>4 DEF guardHolds, FinancingOps, InvoiceOps
  <1>6. fin[i] \in Financing /\ Stage[i] = fin[i].status
    BY <1>3 DEF Stage, TypeOK
  <1>7. fin[i].amount \in Nat /\ fin[i].net \in Nat
    BY <1>6 DEF Financing
  <1> USE DEF ReadyToCommit
  <1>8. ASSUME ledger' = ledger
        PROVE  CashOut' = CashOut /\ CashIn' = CashIn
    BY <1>8 DEF CashOut, CashIn
  <1>9. ASSUME Level[fin[i].status] \in {1, 2}
        PROVE  /\ CashIn[i] = 0
               /\ Level[fin[i].status] = 1 => CashOut[i] = 0
    <2>1. fin[i].status # "CANCELLED"
      BY <1>9, LevelValues
    <2>2. AtStage(i, Level[fin[i].status])
      BY <1>3, <2>1, StageOf DEF SerialInv
    <2> QED
      BY <1>3, <1>9, <2>2 DEF AtStage, Booked, CashIn, CashOut
  <1>10. CASE createOfferFromInvoice(r)
    <2>1. fin[i] = NoFinancing /\ ledger' = ledger
      BY <1>1, <1>10 DEF createOfferFromInvoice
    <2>2. Stage' = [Stage EXCEPT ![i] = "OFFERED"]
      BY <1>1, <1>3, <1>10 DEF createOfferFromInvoice, Stage, TypeOK
    <2>3. Lifecycle!Offer(i)
      BY <1>6, <1>8, <2>1, <2>2
      DEF Lifecycle!Offer, Lifecycle!Move, Stage, CashOut, CashIn, NoFinancing
    <2> QED
      BY <1>3, <2>3, OfOneInvoice
  <1>11. CASE accept(r)
    <2>1. fin[i].status = "OFFERED" /\ ledger' = ledger
      BY <1>5, <1>11 DEF accept, FinancingOps, AllowedFrom
    <2>2. Stage' = [Stage EXCEPT ![i] = "ACCEPTED"]
      BY <1>1, <1>3, <1>11, StageMoves DEF accept
    <2>3. Lifecycle!Accept(i)
      BY <1>6, <1>8, <2>1, <2>2
      DEF Lifecycle!Accept, Lifecycle!Move, Stage, CashOut, CashIn
    <2> QED
      BY <1>3, <2>3, OfOneInvoice
  <1>12. CASE fund(r)
    <2>1. fin[i].status = "ACCEPTED"
      BY <1>5, <1>12 DEF fund, FinancingOps, AllowedFrom
    <2>2. Stage' = [Stage EXCEPT ![i] = "FUNDED"]
      BY <1>1, <1>3, <1>12, StageMoves DEF fund
    <2>3. ledger' = [ledger EXCEPT ![i] = postLedgerEntries(@, "1200", "2100", fin[i].amount)]
      BY <1>1, <1>2, <1>4, <1>12 DEF fund
    <2>4. CashOut' = CashOut /\ CashIn' = CashIn
      BY <1>3, <1>7, <2>3, CashMoves DEF Accounts
    <2>5. Lifecycle!Fund(i)
      BY <1>6, <2>1, <2>2, <2>4
      DEF Lifecycle!Fund, Lifecycle!Move, Stage, CashOut, CashIn
    <2> QED
      BY <1>3, <2>5, OfOneInvoice
  <1>13. CASE disburse(r)
    <2>1. fin[i].status = "FUNDED"
      BY <1>5, <1>13 DEF disburse, FinancingOps, AllowedFrom
    <2>2. Stage' = [Stage EXCEPT ![i] = "DISBURSED"]
      BY <1>1, <1>3, <1>13, StageMoves DEF disburse
    <2>3. ledger' = [ledger EXCEPT ![i] = postLedgerEntries(@, "2100", "1000", fin[i].net)]
      BY <1>1, <1>2, <1>4, <1>13 DEF disburse
    <2>4. CashIn' = CashIn /\ CashOut' = [CashOut EXCEPT ![i] = @ + fin[i].net]
      BY <1>3, <1>7, <2>3, CashMoves DEF Accounts
    <2>5. CashIn[i] = 0 /\ CashOut[i] = 0
      BY <1>9, <2>1, LevelValues
    <2>6. CashOut'[i] \in Nat /\ CashOut' = [CashOut EXCEPT ![i] = CashOut'[i]]
      <3>1. DOMAIN CashOut = Invoices
        BY DEF CashOut
      <3>2. CashOut'[i] = fin[i].net
        BY <1>3, <1>7, <2>4, <2>5, <3>1
      <3> QED
        BY <1>7, <2>4, <2>5, <3>2
    <2>7. Lifecycle!Pay(i)
      BY <1>6, <2>1, <2>2, <2>4, <2>5, <2>6
      DEF Lifecycle!Pay, Lifecycle!Move, Stage, CashOut, CashIn
    <2> QED
      BY <1>3, <2>7, OfOneInvoice
  <1>14. CASE collect(r)
    <2>1. fin[i].status \in {"DISBURSED", "MATURED"}
      BY <1>5, <1>14 DEF collect, FinancingOps, AllowedFrom
    <2>2. Stage' = [Stage EXCEPT ![i] = "COLLECTED"]
      BY <1>1, <1>3, <1>14, StageMoves DEF collect
    <2>3. ledger' = [ledger EXCEPT ![i] = postLedgerEntries(@, "1000", "1200", fin[i].amount)]
      BY <1>1, <1>2, <1>4, <1>14 DEF collect
    <2>4. CashOut' = CashOut /\ CashIn' = [CashIn EXCEPT ![i] = @ + fin[i].amount]
      BY <1>3, <1>7, <2>3, CashMoves DEF Accounts
    <2>5. CashIn[i] = 0
      BY <1>9, <2>1, LevelValues
    <2>6. CashIn'[i] \in Nat /\ CashIn' = [CashIn EXCEPT ![i] = CashIn'[i]]
      <3>1. DOMAIN CashIn = Invoices
        BY DEF CashIn
      <3>2. CashIn'[i] = fin[i].amount
        BY <1>3, <1>7, <2>4, <2>5, <3>1
      <3> QED
        BY <1>7, <2>4, <2>5, <3>2
    <2>7. Lifecycle!Receive(i)
      BY <1>6, <2>1, <2>2, <2>4, <2>5, <2>6
      DEF Lifecycle!Receive, Lifecycle!Move, Stage, CashOut, CashIn
    <2> QED
      BY <1>3, <2>7, OfOneInvoice
  <1>15. CASE close(r)
    <2>1. fin[i].status = "COLLECTED" /\ ledger' = ledger
      BY <1>5, <1>15 DEF close, FinancingOps, AllowedFrom
    <2>2. Stage' = [Stage EXCEPT ![i] = "CLOSED"]
      BY <1>1, <1>3, <1>15, StageMoves DEF close
    <2>3. Lifecycle!Close(i)
      BY <1>6, <1>8, <2>1, <2>2
      DEF Lifecycle!Close, Lifecycle!Move, Stage, CashOut, CashIn
    <2> QED
      BY <1>3, <2>3, OfOneInvoice
  <1>16. CASE remove(r)
    <2>1. /\ fin[i].status \in {"OFFERED", "ACCEPTED", "FUNDED", "MATURED", "DEFAULTED",
                                "CANCELLED"}
          /\ ledger' = ledger
      BY <1>5, <1>16 DEF remove, FinancingOps, AllowedFrom, FinancingStatus
    <2>2. Stage' = [Stage EXCEPT ![i] = "CANCELLED"]
      BY <1>1, <1>3, <1>16, StageMoves DEF remove
    <2>3. CASE fin[i].status = "CANCELLED"
      <3>1. Stage' = Stage
        BY <1>3, <1>6, <2>2, <2>3 DEF Stage
      <3> QED
        BY <1>8, <2>1, <3>1 DEF Lifecycle!vars, Stage, CashOut, CashIn
    <2>4. CASE fin[i].status # "CANCELLED"
      <3>1. Lifecycle!Cancel(i)
        BY <1>6, <1>8, <2>1, <2>2, <2>4
        DEF Lifecycle!Cancel, Lifecycle!Move, Stage, CashOut, CashIn
      <3> QED
        BY <1>3, <3>1, OfOneInvoice
    <2> QED
      BY <2>3, <2>4
  <1>17. CASE approveInvoice(r) \/ removeInvoice(r)
    BY <1>17 DEF approveInvoice, removeInvoice, Lifecycle!vars
  <1> QED
    BY <1>10, <1>11, <1>12, <1>13, <1>14, <1>15, <1>16, <1>17 DEF Commit

LEMMA UpdateImplements ==
  ASSUME TypeOK, NEW i \in Invoices, update(i)
  PROVE  Lifecycle!Next \/ UNCHANGED Lifecycle!vars
  <1>1. CashOut' = CashOut /\ CashIn' = CashIn
    BY DEF update, CashOut, CashIn
  <1>2. fin[i] \in Financing /\ Stage[i] = fin[i].status
    BY DEF Stage, TypeOK
  <1>3. ASSUME NEW p \in StatusPatches, fin[i].status = p[1],
               fin' = [fin EXCEPT ![i].status = p[2]]
        PROVE  Lifecycle!Next
    <2>1. Stage' = [Stage EXCEPT ![i] = p[2]]
      BY <1>3, StageMoves
    <2>2. Lifecycle!Edit(i)
      BY <1>1, <1>2, <1>3, <2>1
      DEF Lifecycle!Edit, Lifecycle!Move, Stage, CashOut, CashIn
    <2> QED
      BY <2>2, OfOneInvoice
  <1>4. ASSUME NEW a, \/ fin' = [fin EXCEPT ![i].amount = a]
                      \/ fin' = [fin EXCEPT ![i].net = a]
        PROVE  UNCHANGED Lifecycle!vars
    <2>1. \A j \in Invoices : fin'[j].status = fin[j].status
      <3>1. /\ [fin[i] EXCEPT !.amount = a].status = fin[i].status
            /\ [fin[i] EXCEPT !.net = a].status = fin[i].status
        BY <1>2 DEF Financing
      <3> QED
        BY <1>4, <3>1 DEF TypeOK
    <2>2. Stage' = Stage
      BY <2>1 DEF Stage
    <2> QED
      BY <1>1, <2>2 DEF Lifecycle!vars, Stage, CashOut, CashIn
  <1> QED
    BY <1>3, <1>4 DEF update

\* The handlers, with their snapshots, their transactions and their ledger,
\* implement the abstract lifecycle: whatever the requests do, the supplier is
\* paid at most once, the buyer pays at most once and only after the supplier
\* was paid, and a closed or cancelled financing never moves again.
THEOREM ImplementsTheLifecycle ==
  ASSUME SerialPerFinancing, PatchesKeepStage
  PROVE  Spec => ImplementsLifecycle
  <1>1. ASSUME TypeOK, SerialInv, [Next]_vars
        PROVE  [Lifecycle!Next]_(Lifecycle!vars)
    <2>1. ASSUME UNCHANGED <<fin, ledger>>
          PROVE  UNCHANGED Lifecycle!vars
      BY <2>1 DEF Lifecycle!vars
    <2>2. ASSUME NEW r \in Requests,
                 \/ checkOutbound(r) \/ countOpenObligations(r)
                 \/ queueWebhookDeliveries(r) \/ abandon(r)
                 \/ \E i \in Invoices, op \in Ops : findOne(r, i, op)
          PROVE  UNCHANGED <<fin, ledger>>
      BY <2>2
      DEF checkOutbound, countOpenObligations, findOne, queueWebhookDeliveries, abandon
    <2>3. CASE UNCHANGED vars
      BY <2>1, <2>3 DEF vars
    <2>4. ASSUME NEW i \in Invoices, updateInvoice(i)
          PROVE  UNCHANGED <<fin, ledger>>
      BY <2>4 DEF updateInvoice
    <2> QED
      BY <1>1, <2>1, <2>2, <2>3, <2>4, CommitImplements, UpdateImplements DEF Next
  <1> QED
    BY <1>1, LifecycleInit, SerialFinancings, TypeCorrect, PTL
    DEF Spec, Lifecycle!Spec, ImplementsLifecycle
=============================================================================
