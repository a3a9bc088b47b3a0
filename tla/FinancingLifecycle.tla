-------------------------- MODULE FinancingLifecycle --------------------------
(***************************************************************************)
(* What the financing service promises of one invoice's financing, with no *)
(* handler, table or transaction in sight: a stage, the cash paid to the   *)
(* supplier and the cash received from the buyer.  The supplier is paid at  *)
(* most once, the buyer pays at most once and only after the supplier was   *)
(* paid, and a financing that is closed or cancelled never moves again.     *)
(***************************************************************************)
EXTENDS Integers

CONSTANTS
  Invoices,  \* the invoices
  Edits      \* <<from, to>>: stage edits an operator makes by hand

Stages == {"NONE", "OFFERED", "ACCEPTED", "FUNDED", "DISBURSED", "MATURED",
           "COLLECTED", "CLOSED", "DEFAULTED", "CANCELLED"}

VARIABLES stage, paidOut, received

vars == <<stage, paidOut, received>>

Init ==
  /\ stage = [i \in Invoices |-> "NONE"]
  /\ paidOut = [i \in Invoices |-> 0]
  /\ received = [i \in Invoices |-> 0]

Move(i, from, to) ==
  /\ stage[i] \in from
  /\ stage' = [stage EXCEPT ![i] = to]

Offer(i)  == Move(i, {"NONE"}, "OFFERED") /\ UNCHANGED <<paidOut, received>>
Accept(i) == Move(i, {"OFFERED"}, "ACCEPTED") /\ UNCHANGED <<paidOut, received>>
Fund(i)   == Move(i, {"ACCEPTED"}, "FUNDED") /\ UNCHANGED <<paidOut, received>>
Close(i)  == Move(i, {"COLLECTED"}, "CLOSED") /\ UNCHANGED <<paidOut, received>>

Pay(i) ==
  /\ Move(i, {"FUNDED"}, "DISBURSED")
  /\ paidOut[i] = 0 /\ received[i] = 0
  /\ paidOut' = [paidOut EXCEPT ![i] = paidOut'[i]] /\ paidOut'[i] \in Nat
  /\ UNCHANGED received

Receive(i) ==
  /\ Move(i, {"DISBURSED", "MATURED"}, "COLLECTED")
  /\ received[i] = 0
  /\ received' = [received EXCEPT ![i] = received'[i]] /\ received'[i] \in Nat
  /\ UNCHANGED paidOut

Cancel(i) ==
  /\ Move(i, {"OFFERED", "ACCEPTED", "FUNDED", "MATURED", "DEFAULTED"}, "CANCELLED")
  /\ UNCHANGED <<paidOut, received>>

Edit(i) ==
  /\ \E e \in Edits : Move(i, {e[1]}, e[2])
  /\ UNCHANGED <<paidOut, received>>

Next == \E i \in Invoices :
          \/ Offer(i) \/ Accept(i) \/ Fund(i) \/ Pay(i) \/ Receive(i)
          \/ Close(i) \/ Cancel(i) \/ Edit(i)

Spec == Init /\ [][Next]_vars
=============================================================================
