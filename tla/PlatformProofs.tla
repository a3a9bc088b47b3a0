----------------------------- MODULE PlatformProofs -----------------------------
(***************************************************************************)
(* What the records of programmes, documents, operations, deliveries and     *)
(* notifications stand for, for every number of requests, rows and files.    *)
(*                                                                         *)
(* Each component has an invariant of its own, which carries what a request   *)
(* in one of the component's phases has found or done to the moment it is     *)
(* written.  The components share the variable req: a step of one leaves a    *)
(* request alone or puts it into one of its own phases, so that it cannot     *)
(* disturb the invariant of another (Frame).  What a row counts is true while  *)
(* one request at a time works (AtOnceInv): a delivery has one process, which  *)
(* carries the number of calls it has made to the row.                        *)
(*                                                                         *)
(* A part of its own is about Browser, which extends Service as the others do:  *)
(* the accounts and sessions of the API, which no step of a tab changes, what a *)
(* tab keeps of them, and what its pages keep of a record.                     *)
(***************************************************************************)
EXTENDS Platform, Browser, SumTheorems, SequenceTheorems, FiniteSetTheorems, TLAPS

Announced == [phase : {"announce"}, about : Occasions]
Testing == [phase : {"markTested"}, connection : Connections]
Summing == [phase : {"sumCredits"}, debits : Int]

WebhookState == {Idle} \cup Emitting \cup Delivering
NoteState == {Idle} \cup Sending
ProgrammeState == {Idle} \cup Announcing \cup Adding \cup Announced
DocumentState == {Idle} \cup Uploading \cup Changing \cup Retyping \cup Reading
OperationState == {Idle} \cup Testing \cup Summing
State == WebhookState \cup NoteState \cup ProgrammeState \cup DocumentState \cup OperationState

ReqTyped == req \in [Processes -> State]

\* Of the requests, those of one component move, within its phases.
Frame(S) == \A q \in Processes : req'[q] = req[q] \/ req'[q] \in S

\* What a process is, by its phase.
LEMMA ByPhase ==
  ASSUME NEW s \in State
  PROVE  /\ s.phase = "idle" <=> s = Idle
         /\ s.phase = "emit" => s \in Emitting
         /\ s.phase \in {"deliver", "call", "update", "log", "catch"} <=> s \in Delivering
         /\ s.phase \in {"audit", "read", "mark", "dispatch", "store", "written"} <=> s \in Sending
         /\ s.phase = "announce" <=> s \in Announced
         /\ s.phase \in {"setStatus", "auditStatus", "readAgain"} <=> s \in Announcing
         /\ s.phase = "addParticipant" <=> s \in Adding
         /\ s.phase \in {"storeFile", "recordFile"} <=> s \in Uploading
         /\ s.phase = "changeDocument" <=> s \in Changing
         /\ s.phase = "retypeDocument" <=> s \in Retyping
         /\ s.phase \in {"auditLink", "link", "findAgain", "auditFile", "file"} <=> s \in Reading
         /\ s.phase = "markTested" <=> s \in Testing
         /\ s.phase = "sumCredits" <=> s \in Summing
<1> USE DEF Idle, Emitting, Delivering, Sending, Announced, Announcing, Adding, Uploading, Changing,
            Retyping, Reading, Testing, Summing
<1>1. CASE s \in WebhookState
  BY <1>1 DEF WebhookState
<1>2. CASE s \in NoteState
  BY <1>2 DEF NoteState
<1>3. CASE s \in ProgrammeState
  BY <1>3 DEF ProgrammeState
<1>4. CASE s \in DocumentState
  BY <1>4 DEF DocumentState
<1>5. CASE s \in OperationState
  BY <1>5 DEF OperationState
<1> QED
  BY <1>1, <1>2, <1>3, <1>4, <1>5 DEF State

\* A step that puts one process into another state of a component.
LEMMA BecomeFrames ==
  ASSUME ReqTyped, NEW r \in Processes, NEW S \in SUBSET State, NEW s \in S, become(r, s)
  PROVE  /\ ReqTyped' /\ Frame(S)
         /\ req'[r] = s /\ \A q \in Processes \ {r} : req'[q] = req[q]
  BY DEF ReqTyped, Frame, become

LEMMA StayFrames ==
  ASSUME ReqTyped, NEW S \in SUBSET State, UNCHANGED req
  PROVE  ReqTyped' /\ Frame(S)
  BY DEF ReqTyped, Frame

LEMMA Subsets ==
  /\ WebhookState \in SUBSET State /\ NoteState \in SUBSET State /\ ProgrammeState \in SUBSET State
  /\ DocumentState \in SUBSET State /\ OperationState \in SUBSET State
  /\ Idle \in WebhookState /\ Idle \in NoteState /\ Idle \in ProgrammeState
  /\ Idle \in DocumentState /\ Idle \in OperationState /\ Idle \in State
  BY DEF State, WebhookState, NoteState, ProgrammeState, DocumentState, OperationState
-----------------------------------------------------------------------------
(* Deliveries *)

\* A process works on a delivery there is, and a success was heard from an
\* endpoint that accepted it.
HeardIsReceived ==
  \A q \in Processes : req[q] \in Delivering =>
    /\ delivery[req[q].delivery] # NoDelivery
    /\ req[q].ok => received[req[q].delivery] > 0

DeliveryInv ==
  /\ delivery \in [Deliveries -> {NoDelivery} \cup Delivery]
  /\ received \in [Deliveries -> Nat]
  /\ HeardIsReceived /\ DeliveredWasReceived

LEMMA DeliveryInit == Init => DeliveryInv
  BY DEF Init, ServiceInit, WebhooksInit, DeliveryInv, HeardIsReceived, DeliveredWasReceived,
         NoDelivery, Idle, Delivering

\* What others do leaves the deliveries and their processes alone.
LEMMA DeliveryFrame ==
  ASSUME ReqTyped, DeliveryInv, NEW S, S \cap Delivering = {}, Frame(S), UNCHANGED webhookVars
  PROVE  DeliveryInv'
  BY DEF DeliveryInv, HeardIsReceived, DeliveredWasReceived, Frame, webhookVars

LEMMA AttemptedIsTyped ==
  ASSUME DeliveryInv, NEW q \in Delivering, delivery[q.delivery] # NoDelivery, NEW b \in BOOLEAN
  PROVE  /\ attempted(q, b) \in [Deliveries -> {NoDelivery} \cup Delivery]
         /\ attempted(q, b)[q.delivery].status = "DELIVERED" => b
         /\ attempted(q, b)[q.delivery] # NoDelivery
         /\ \A d \in Deliveries \ {q.delivery} : attempted(q, b)[d] = delivery[d]
<1>1. PICK st \in {"DELIVERED", "FAILED", "RETRYING"} :
        /\ st = IF b THEN "DELIVERED" ELSE IF q.attempts >= MaxRetries THEN "FAILED" ELSE "RETRYING"
        /\ st = "DELIVERED" => b
  OBVIOUS
<1>2. q.delivery \in Deliveries /\ q.attempts \in Nat
  BY DEF Delivering
<1>3. /\ delivery[q.delivery] \in Delivery
      /\ delivery \in [Deliveries -> {NoDelivery} \cup Delivery]
  BY <1>2 DEF DeliveryInv
<1> DEFINE row == [[[delivery[q.delivery] EXCEPT !.attempts = q.attempts] EXCEPT !.status = st]
                     EXCEPT !.due = (st = "RETRYING")]
<1>4. attempted(q, b) = [delivery EXCEPT ![q.delivery] = row]
  BY <1>1, <1>2, <1>3 DEF attempted
<1>5. row \in Delivery /\ row.status = st
  BY <1>1, <1>2, <1>3 DEF Delivery
<1>6. row # NoDelivery
  BY <1>5 DEF Delivery, NoDelivery
<1> HIDE DEF row
<1>7. attempted(q, b)[q.delivery] = row
  BY <1>2, <1>3, <1>4
<1>8. \A d \in Deliveries \ {q.delivery} : attempted(q, b)[d] = delivery[d]
  BY <1>3, <1>4
<1>9. attempted(q, b) \in [Deliveries -> {NoDelivery} \cup Delivery]
  BY <1>3, <1>4, <1>5
<1> QED
  BY <1>1, <1>5, <1>6, <1>7, <1>8, <1>9

LEMMA DeliveringGoesOn ==
  ASSUME NEW c \in Delivering, NEW p \in {"deliver", "call", "update", "log", "catch"}, NEW a \in Nat, NEW b \in BOOLEAN
  PROVE  /\ [c EXCEPT !.phase = p] \in Delivering
         /\ [c EXCEPT !.phase = p].delivery = c.delivery /\ [c EXCEPT !.phase = p].ok = c.ok
         /\ [c EXCEPT !.phase = p, !.attempts = a] \in Delivering
         /\ [c EXCEPT !.phase = p, !.attempts = a].delivery = c.delivery
         /\ [c EXCEPT !.phase = p, !.attempts = a].ok = c.ok
         /\ [c EXCEPT !.phase = p, !.ok = b] \in Delivering
         /\ [c EXCEPT !.phase = p, !.ok = b].delivery = c.delivery
         /\ [c EXCEPT !.phase = p, !.ok = b].ok = b
  BY DEF Delivering

LEMMA DeliveringIsCalling ==
  ASSUME NEW d \in Deliveries
  PROVE  /\ delivering(d, "deliver") \in Delivering
         /\ delivering(d, "deliver").delivery = d /\ delivering(d, "deliver").ok = FALSE
  BY DEF delivering, Delivering

LEMMA RowsChange ==
  ASSUME NEW row \in Delivery
  PROVE  /\ [row EXCEPT !.status = "CANCELLED"] \in Delivery
         /\ [row EXCEPT !.status = "CANCELLED"].status = "CANCELLED"
         /\ [row EXCEPT !.status = "RETRYING", !.due = FALSE] \in Delivery
         /\ [row EXCEPT !.status = "RETRYING", !.due = FALSE].status = "RETRYING"
  BY DEF Delivery

LEMMA WebhooksKeep ==
  ASSUME ReqTyped, DeliveryInv, WebhooksNext
  PROVE  ReqTyped' /\ Frame(WebhookState) /\ DeliveryInv' /\ UNCHANGED scope
<1> DEFINE Goal == ReqTyped' /\ Frame(WebhookState) /\ DeliveryInv' /\ UNCHANGED scope
<1> SUFFICES Goal
  OBVIOUS
<1>typed. /\ delivery \in [Deliveries -> {NoDelivery} \cup Delivery]
          /\ received \in [Deliveries -> Nat]
          /\ \A row \in Delivery : row # NoDelivery
  BY DEF DeliveryInv, Delivery, NoDelivery
<1>frozen. ASSUME UNCHANGED <<delivery, received, scope, req>> PROVE Goal
  BY <1>frozen, StayFrames, Subsets DEF DeliveryInv, HeardIsReceived, DeliveredWasReceived
\* A step that leaves the rows alone and one process with what it has heard.
<1>moved. ASSUME NEW r \in Processes, NEW s \in WebhookState, become(r, s),
                 UNCHANGED <<delivery, received, scope>>,
                 s \in Delivering => /\ delivery[s.delivery] # NoDelivery
                                     /\ s.ok => received[s.delivery] > 0
          PROVE  Goal
  <2>1. /\ ReqTyped' /\ Frame(WebhookState)
        /\ req'[r] = s /\ \A q \in Processes \ {r} : req'[q] = req[q]
    BY <1>moved, BecomeFrames, Subsets
  <2>2. DeliveryInv'
    BY <1>moved, <2>1 DEF DeliveryInv, HeardIsReceived, DeliveredWasReceived
  <2> QED
    BY <1>moved, <2>1, <2>2
<1>calling. ASSUME NEW r \in Processes, req[r].phase \in {"deliver", "call", "update", "log", "catch"}
            PROVE  /\ req[r] \in Delivering /\ req[r].delivery \in Deliveries
                   /\ delivery[req[r].delivery] # NoDelivery /\ delivery[req[r].delivery] \in Delivery
                   /\ req[r].ok => received[req[r].delivery] > 0
  <2>1. req[r] \in Delivering
    BY <1>calling, ByPhase DEF ReqTyped
  <2> QED
    BY <2>1, <1>typed DEF DeliveryInv, HeardIsReceived, Delivering
<1>1. ASSUME NEW r \in Processes, emitted(r) PROVE Goal
  BY <1>1, <1>moved, Subsets DEF emitted, webhookVars, Idle, Delivering
<1>2. ASSUME NEW r \in Processes, deliver(r) PROVE Goal
  <2> DEFINE n == delivery[req[r].delivery].attempts + 1
             s == [req[r] EXCEPT !.phase = "call", !.attempts = n]
  <2>1. req[r] \in Delivering /\ n \in Nat
    BY <1>2, <1>calling DEF deliver, at, Delivery
  <2> HIDE DEF n
  <2>2. s \in Delivering /\ s.delivery = req[r].delivery /\ s.ok = req[r].ok
    BY <2>1 DEF Delivering
  <2>3. s \in WebhookState
    BY <2>2 DEF WebhookState
  <2>4. become(r, s) /\ UNCHANGED <<delivery, received, scope>>
    BY <1>2 DEF deliver, webhookVars, n
  <2> QED
    BY <1>2, <1>calling, <1>moved, <2>2, <2>3, <2>4 DEF deliver, at
<1>3. ASSUME NEW r \in Processes, call(r) PROVE Goal
  <2>1. /\ req[r] \in Delivering /\ req[r].delivery \in Deliveries
        /\ delivery[req[r].delivery] # NoDelivery
    BY <1>3, <1>calling DEF call, at
  <2>2. PICK accepted \in BOOLEAN, answered \in BOOLEAN :
          /\ received' = [received EXCEPT ![req[r].delivery] = @ + IF accepted THEN 1 ELSE 0]
          /\ become(r, [req[r] EXCEPT !.phase = IF answered THEN "update" ELSE "catch",
                                      !.ok = accepted /\ answered])
    BY <1>3 DEF call
  <2> DEFINE next == IF answered THEN "update" ELSE "catch"
             heard == accepted /\ answered
             s == [req[r] EXCEPT !.phase = next, !.ok = heard]
  <2>3. s \in Delivering /\ s.delivery = req[r].delivery /\ s.ok = heard
    <3>1. next \in {"deliver", "call", "update", "log", "catch"} /\ heard \in BOOLEAN
      OBVIOUS
    <3> HIDE DEF next, heard
    <3> QED
      BY <2>1, <3>1 DEF Delivering
  <2>4. PICK more \in {0, 1} : received' = [received EXCEPT ![req[r].delivery] = @ + more]
                               /\ (accepted => more = 1)
    BY <2>2
  <2>5. /\ received' \in [Deliveries -> Nat]
        /\ \A d \in Deliveries : received[d] > 0 => received'[d] > 0
        /\ s.ok => received'[s.delivery] > 0
    BY <1>typed, <2>1, <2>3, <2>4
  <2>6. /\ ReqTyped' /\ Frame(WebhookState)
        /\ req'[r] = s /\ \A q \in Processes \ {r} : req'[q] = req[q]
    BY <2>2, <2>3, BecomeFrames, Subsets DEF WebhookState
  <2>7. UNCHANGED <<delivery, scope>>
    BY <1>3 DEF call
  <2>8. HeardIsReceived'
    <3> SUFFICES ASSUME NEW q \in Processes, req'[q] \in Delivering
                 PROVE  /\ delivery[req'[q].delivery] # NoDelivery
                        /\ req'[q].ok => received'[req'[q].delivery] > 0
      BY <2>7 DEF HeardIsReceived
    <3>1. CASE q = r
      BY <3>1, <2>1, <2>3, <2>5, <2>6
    <3>2. CASE q # r
      BY <3>2, <2>5, <2>6 DEF DeliveryInv, HeardIsReceived, Delivering
    <3> QED
      BY <3>1, <3>2
  <2> QED
    BY <2>5, <2>6, <2>7, <2>8 DEF DeliveryInv, DeliveredWasReceived
\* A step that stores what came of an attempt.
<1>stored. ASSUME NEW r \in Processes, req[r] \in Delivering, NEW b \in BOOLEAN, NEW s \in WebhookState,
                  b => req[r].ok, delivery' = attempted(req[r], b), become(r, s),
                  UNCHANGED <<received, scope>>,
                  s \in Delivering => s.delivery = req[r].delivery /\ s.ok = req[r].ok
           PROVE  Goal
  <2>1. delivery[req[r].delivery] # NoDelivery /\ (req[r].ok => received[req[r].delivery] > 0)
    BY <1>stored DEF DeliveryInv, HeardIsReceived
  <2>2. /\ delivery' \in [Deliveries -> {NoDelivery} \cup Delivery]
        /\ delivery'[req[r].delivery].status = "DELIVERED" => b
        /\ delivery'[req[r].delivery] # NoDelivery
        /\ \A d \in Deliveries \ {req[r].delivery} : delivery'[d] = delivery[d]
    BY <1>stored, <2>1, AttemptedIsTyped
  <2>3. /\ ReqTyped' /\ Frame(WebhookState)
        /\ req'[r] = s /\ \A q \in Processes \ {r} : req'[q] = req[q]
    BY <1>stored, BecomeFrames, Subsets
  <2>4. HeardIsReceived'
    BY <1>stored, <2>1, <2>2, <2>3 DEF DeliveryInv, HeardIsReceived, Delivering
  <2>5. DeliveredWasReceived'
    BY <1>stored, <2>1, <2>2 DEF DeliveryInv, DeliveredWasReceived
  <2> QED
    BY <1>stored, <1>typed, <2>2, <2>3, <2>4, <2>5 DEF DeliveryInv
<1>4. ASSUME NEW r \in Processes, storeAnswer(r) PROVE Goal
  <2>1. req[r] \in Delivering
    BY <1>4, <1>calling DEF storeAnswer, at
  <2> DEFINE s == [req[r] EXCEPT !.phase = "log"]
  <2>2. s \in Delivering /\ s.delivery = req[r].delivery /\ s.ok = req[r].ok
    BY <2>1, DeliveringGoesOn
  <2>3. s \in WebhookState /\ req[r].ok \in BOOLEAN
    BY <2>1 DEF WebhookState, Delivering
  <2> QED
    BY <1>4, <1>stored, <2>1, <2>2, <2>3 DEF storeAnswer
<1>5. ASSUME NEW r \in Processes, logDelivery(r) PROVE Goal
  <2>1. /\ req[r] \in Delivering /\ delivery[req[r].delivery] # NoDelivery
        /\ req[r].ok => received[req[r].delivery] > 0
        /\ UNCHANGED <<delivery, received, scope>>
    BY <1>5, <1>calling DEF logDelivery, at, webhookVars
  <2>2. CASE become(r, Idle)
    BY <2>1, <2>2, <1>moved, Subsets DEF Idle, Delivering
  <2>3. CASE become(r, [req[r] EXCEPT !.phase = "catch"])
    <3> DEFINE s == [req[r] EXCEPT !.phase = "catch"]
    <3>1. s \in Delivering /\ s.delivery = req[r].delivery /\ s.ok = req[r].ok
      BY <2>1, DeliveringGoesOn
    <3> QED
      BY <2>1, <2>3, <3>1, <1>moved DEF WebhookState
  <2> QED
    BY <1>5, <2>2, <2>3 DEF logDelivery
<1>6. ASSUME NEW r \in Processes, storeFailure(r) PROVE Goal
  BY <1>6, <1>calling, <1>stored, Subsets DEF storeFailure, at, Idle, Delivering
<1>7. ASSUME NEW r \in Processes, NEW d \in Deliveries, startDelivery(r, d) PROVE Goal
  <2>1. req[r] \in Emitting /\ d \in Processes
    BY <1>7, ByPhase, WebhooksAssumption DEF startDelivery, at, ReqTyped, Processes
  <2>2. PICK e \in req[r].todo :
          /\ delivery' = [delivery EXCEPT ![d] = [endpoint |-> e, status |-> "PENDING", attempts |-> 0,
                                                  due |-> FALSE]]
          /\ req' = [req EXCEPT ![r].todo = @ \ {e}, ![d] = delivering(d, "deliver")]
    BY <1>7 DEF startDelivery
  <2> DEFINE row == [endpoint |-> e, status |-> "PENDING", attempts |-> 0, due |-> FALSE]
             s == delivering(d, "deliver")
             t == [req[r] EXCEPT !.todo = @ \ {e}]
  <2>3. row \in Delivery /\ row.status = "PENDING"
    BY <2>1 DEF Delivery, Emitting
  <2>4. s \in Delivering /\ s.delivery = d /\ s.ok = FALSE
    BY DeliveringIsCalling
  <2>5. t \in Emitting
    BY <2>1 DEF Emitting
  <2>6. /\ req' = [[req EXCEPT ![r] = t] EXCEPT ![d] = s]
        /\ delivery' = [delivery EXCEPT ![d] = row]
    BY <2>2
  <2> HIDE DEF row, s, t
  <2>7. UNCHANGED <<received, scope>>
    BY <1>7 DEF startDelivery
  <2>8. s \in WebhookState /\ t \in WebhookState /\ t \notin Delivering
    BY <2>4, <2>5 DEF WebhookState, Emitting, Delivering
  <2>9. ReqTyped' /\ Frame(WebhookState)
    BY <2>1, <2>6, <2>8, Subsets DEF ReqTyped, Frame
  <2>10. HeardIsReceived'
    BY <2>1, <2>3, <2>4, <2>6, <2>7, <2>8, <1>typed DEF DeliveryInv, HeardIsReceived, ReqTyped, Delivering
  <2>11. DeliveredWasReceived'
    BY <2>3, <2>6, <2>7, <1>typed DEF DeliveryInv, DeliveredWasReceived
  <2> QED
    BY <1>typed, <2>3, <2>6, <2>7, <2>9, <2>10, <2>11 DEF DeliveryInv
<1>8. ASSUME NEW r \in Requests, NEW e \in Endpoints,
             \/ deleteEndpoint(r, e)
             \/ \E events \in Subscriptions :
                  \/ createEndpoint(r, e, events)
                  \/ \E status \in {"ACTIVE", "DISABLED"} : updateEndpoint(r, e, status, events)
      PROVE  Goal
  BY <1>8, <1>frozen DEF createEndpoint, updateEndpoint, deleteEndpoint
<1>9. ASSUME NEW r \in Requests, NEW eventType \in EventTypes, emit(r, eventType) PROVE Goal
  <2>1. PICK todo \in SUBSET Endpoints : become(r, [phase |-> "emit", todo |-> todo])
    BY <1>9 DEF emit
  <2>2. PICK s \in Emitting : s = [phase |-> "emit", todo |-> todo]
    BY DEF Emitting
  <2>3. s \in WebhookState /\ s \notin Delivering /\ r \in Processes
    BY DEF WebhookState, Emitting, Delivering, Processes
  <2> QED
    BY <1>9, <2>1, <2>2, <2>3, <1>moved DEF emit, webhookVars
\* A request of an operator on the row.
<1>10. ASSUME NEW r \in Requests, NEW d \in Deliveries, retryDelivery(r, d) PROVE Goal
  <2> DEFINE s == delivering(d, "deliver")
             row == [delivery[d] EXCEPT !.status = "RETRYING", !.due = FALSE]
  <2>1. s \in Delivering /\ s.delivery = d /\ s.ok = FALSE
    BY DeliveringIsCalling
  <2>2. delivery[d] \in Delivery /\ delivery' = [delivery EXCEPT ![d] = row]
    BY <1>10, <1>typed DEF retryDelivery
  <2>3. row \in Delivery /\ row.status = "RETRYING"
    BY <2>2, RowsChange DEF Delivery
  <2> HIDE DEF row
  <2>4. /\ ReqTyped' /\ Frame(WebhookState)
        /\ req'[r] = s /\ \A q \in Processes \ {r} : req'[q] = req[q]
    BY <1>10, <2>1, BecomeFrames, Subsets DEF retryDelivery, WebhookState, Processes
  <2>5. UNCHANGED <<received, scope>>
    BY <1>10 DEF retryDelivery
  <2>6. HeardIsReceived'
    BY <2>1, <2>2, <2>3, <2>4, <2>5, <1>typed DEF DeliveryInv, HeardIsReceived, Delivering
  <2>7. DeliveredWasReceived'
    BY <2>2, <2>3, <2>5, <1>typed DEF DeliveryInv, DeliveredWasReceived
  <2> QED
    BY <1>typed, <2>2, <2>3, <2>4, <2>5, <2>6, <2>7 DEF DeliveryInv
<1>11. ASSUME NEW r \in Requests, NEW d \in Deliveries, cancelDelivery(r, d) PROVE Goal
  <2> DEFINE row == [delivery[d] EXCEPT !.status = "CANCELLED"]
  <2>0. delivery[d] \in Delivery /\ delivery' = [delivery EXCEPT ![d] = row]
    BY <1>11, <1>typed DEF cancelDelivery
  <2>1. row \in Delivery /\ row.status = "CANCELLED"
    BY <2>0, RowsChange DEF Delivery
  <2> HIDE DEF row
  <2>2. UNCHANGED <<received, req, scope>>
    BY <1>11 DEF cancelDelivery
  <2>3. DeliveryInv'
    BY <2>0, <2>1, <2>2, <1>typed DEF DeliveryInv, HeardIsReceived, DeliveredWasReceived, Delivering
  <2> QED
    BY <2>2, <2>3, StayFrames, Subsets
<1>12. ASSUME NEW r \in Processes, WebhooksStep(r) PROVE Goal
  BY <1>12, <1>1, <1>2, <1>3, <1>4, <1>5, <1>6, <1>7 DEF WebhooksStep
<1> HIDE DEF Goal
<1> QED
  BY <1>8, <1>9, <1>10, <1>11, <1>12 DEF WebhooksNext
-----------------------------------------------------------------------------
(* Notifications *)

\* What a row that is sent stands for.
Reached(n) == "patch" \in scope \/ note[n].channel \notin Dispatched \/ sent[n] > 0
ReachedNext(n) == "patch" \in scope' \/ note'[n].channel \notin Dispatched \/ sent'[n] > 0

\* A request sends a row there is, by the channel the row has, and a success was
\* heard from a provider that took the message, where there is one.
TakenIsSent ==
  \A q \in Processes : req[q] \in Sending =>
    /\ note[req[q].note] # NoNote
    /\ req[q].ok => Reached(req[q].note)
    /\ req[q].phase = "mark" \/ req[q].phase = "dispatch" =>
         "patch" \in scope \/ req[q].channel = note[req[q].note].channel

NoteInv ==
  /\ note \in [Notes -> {NoNote} \cup Note]
  /\ sent \in [Notes -> Nat]
  /\ TakenIsSent /\ SentWasDispatched

\* Where a new row has its occasion from: a caller, or a row there was.
Sourced(about) ==
  \/ about \in {None} \cup OtherOccasions
  \/ \E q \in Processes : req[q] \in Announced /\ req[q].about = about
  \/ \E m \in Notes : note[m] # NoNote /\ note[m].about = about

\* What any step does to the rows.
Rewritten ==
  /\ note' \in [Notes -> {NoNote} \cup Note]
  /\ \A n \in Notes :
       /\ note[n] # NoNote => /\ note'[n] # NoNote
                              /\ "patch" \in scope \/ note'[n].channel = note[n].channel
       /\ note'[n].status = "SENT" => "patch" \in scope \/ (note[n] # NoNote /\ Reached(n))
       /\ note'[n] # NoNote => Sourced(note'[n].about)

LEMMA NoteInit == Init => NoteInv
  BY DEF Init, ServiceInit, NotificationsInit, NoteInv, TakenIsSent, SentWasDispatched, Without, NoNote, Idle,
         Sending

LEMMA NoteFrame ==
  ASSUME ReqTyped, NoteInv, NEW S, S \cap Sending = {}, Frame(S), UNCHANGED <<notificationVars, scope>>
  PROVE  NoteInv'
  BY DEF NoteInv, TakenIsSent, SentWasDispatched, Reached, Without, Frame, notificationVars

LEMMA SentIsReached ==
  SentWasDispatched <=> \A n \in Notes : note[n].status = "SENT" => Reached(n)
  BY DEF SentWasDispatched, Reached, Without

LEMMA RowsAreThere == \A row \in Note : row # NoNote
  BY DEF Note, NoNote

\* A row that is new, or changed without its occasion and not into a sent one.
LEMMA OneRewritten ==
  ASSUME NoteInv, NEW n \in Notes, NEW row \in Note, note' = [note EXCEPT ![n] = row],
         row.status = "SENT" => "patch" \in scope \/ (note[n] # NoNote /\ Reached(n)),
         note[n] # NoNote => "patch" \in scope \/ row.channel = note[n].channel, Sourced(row.about)
  PROVE  Rewritten
<1>1. /\ note' \in [Notes -> {NoNote} \cup Note]
      /\ note'[n] = row /\ \A m \in Notes \ {n} : note'[m] = note[m]
  BY DEF NoteInv
<1>2. \A m \in Notes : note[m] # NoNote => Sourced(note[m].about)
  BY DEF Sourced
<1>3. \A m \in Notes : note[m].status = "SENT" => note[m] # NoNote /\ Reached(m)
  BY SentIsReached DEF NoteInv, NoNote
<1> QED
  BY <1>1, <1>2, <1>3, RowsAreThere DEF Rewritten

LEMMA NoneRewritten ==
  ASSUME NoteInv, UNCHANGED note
  PROVE  Rewritten
<1>1. \A m \in Notes : note[m] # NoNote => Sourced(note[m].about)
  BY DEF Sourced
<1>2. \A m \in Notes : note[m].status = "SENT" => note[m] # NoNote /\ Reached(m)
  BY SentIsReached DEF NoteInv, NoNote
<1> QED
  BY <1>1, <1>2 DEF Rewritten, NoteInv

LEMMA NewRewritten ==
  ASSUME NoteInv, NEW n \in Notes, NEW status \in {"PENDING", "FAILED"}, NEW channel \in Channels,
         NEW about \in Occasions \cup {None}, Sourced(about), newNote(n, status, channel, about)
  PROVE  Rewritten /\ note'[n] # NoNote
<1> DEFINE row == [status |-> status, attempts |-> 0, channel |-> channel, about |-> about]
<1>1. row \in Note /\ row.status # "SENT" /\ row.about = about
  BY DEF Note
<1>2. note' = [note EXCEPT ![n] = row]
  BY DEF newNote
<1>3. note[n] = NoNote
  BY DEF newNote
<1> HIDE DEF row
<1> QED
  BY <1>1, <1>2, <1>3, OneRewritten, RowsAreThere DEF NoteInv

LEMMA ThrowRewritten ==
  ASSUME NoteInv, NEW r \in Processes, req[r] \in Sending, throw(r)
  PROVE  Rewritten
<1>1. CASE UNCHANGED note
  BY <1>1, NoneRewritten
<1>2. CASE \E n \in Notes : newNote(n, "FAILED", "EMAIL", note[req[r].note].about)
  <2>1. /\ note[req[r].note] \in Note /\ req[r].note \in Notes /\ note[req[r].note] # NoNote
    BY DEF NoteInv, TakenIsSent, Sending
  <2>2. /\ note[req[r].note].about \in Occasions \cup {None}
        /\ Sourced(note[req[r].note].about)
    BY <2>1 DEF Note, Sourced
  <2>3. "EMAIL" \in Channels
    BY DEF Channels
  <2> QED
    BY <1>2, <2>2, <2>3, NewRewritten
<1> QED
  BY <1>1, <1>2 DEF throw

LEMMA NoteStays ==
  ASSUME ReqTyped, NoteInv, Rewritten, UNCHANGED <<sent, req, scope>>
  PROVE  ReqTyped' /\ Frame(NoteState) /\ NoteInv'
<1>1. \A n \in Notes : note[n] # NoNote /\ Reached(n) => ReachedNext(n)
  BY DEF Rewritten, Reached, ReachedNext
<1>2. TakenIsSent'
  BY <1>1 DEF NoteInv, TakenIsSent, Rewritten, Reached, ReachedNext, Sending
<1>3. SentWasDispatched'
  BY <1>1 DEF SentWasDispatched, Rewritten, Reached, ReachedNext, Without
<1>4. NoteInv'
  BY <1>2, <1>3 DEF NoteInv, Rewritten
<1> QED
  BY <1>4, StayFrames, Subsets

LEMMA NoteMoves ==
  ASSUME ReqTyped, NoteInv, Rewritten,
         sent' \in [Notes -> Nat], \A n \in Notes : sent[n] > 0 => sent'[n] > 0,
         NEW r \in Processes, NEW s \in NoteState, become(r, s), UNCHANGED scope,
         s \in Sending => /\ note'[s.note] # NoNote /\ (s.ok => ReachedNext(s.note))
                          /\ s.phase = "mark" \/ s.phase = "dispatch" =>
                               "patch" \in scope \/ s.channel = note'[s.note].channel
  PROVE  ReqTyped' /\ Frame(NoteState) /\ NoteInv'
<1>1. /\ ReqTyped' /\ Frame(NoteState)
      /\ req'[r] = s /\ \A q \in Processes \ {r} : req'[q] = req[q]
  BY BecomeFrames, Subsets
<1>0. \A n \in Notes : note[n] # NoNote /\ Reached(n) => ReachedNext(n)
  BY DEF Rewritten, Reached, ReachedNext
<1>2. TakenIsSent'
  <2> SUFFICES ASSUME NEW q \in Processes, req'[q] \in Sending
               PROVE  /\ note'[req'[q].note] # NoNote /\ (req'[q].ok => ReachedNext(req'[q].note))
                      /\ req'[q].phase = "mark" \/ req'[q].phase = "dispatch" =>
                           "patch" \in scope \/ req'[q].channel = note'[req'[q].note].channel
    BY DEF TakenIsSent, Reached, ReachedNext
  <2>1. CASE q = r
    BY <1>1, <2>1
  <2>2. CASE q # r
    <3>1. req'[q] = req[q] /\ req[q].note \in Notes
      BY <1>1, <2>2 DEF Sending
    <3>2. note[req[q].note] # NoNote /\ (req[q].ok => Reached(req[q].note))
      BY <3>1 DEF NoteInv, TakenIsSent
    <3>3. req[q].phase = "mark" \/ req[q].phase = "dispatch" =>
            "patch" \in scope \/ req[q].channel = note[req[q].note].channel
      BY <3>1 DEF NoteInv, TakenIsSent
    <3>4. note'[req[q].note] # NoNote /\ (req[q].ok => ReachedNext(req[q].note))
      BY <1>0, <3>1, <3>2 DEF Rewritten
    <3>5. "patch" \in scope \/ note'[req[q].note].channel = note[req[q].note].channel
      BY <3>1, <3>2 DEF Rewritten
    <3> QED
      BY <3>1, <3>3, <3>4, <3>5
  <2> QED
    BY <2>1, <2>2
<1>3. SentWasDispatched'
  BY <1>0 DEF SentWasDispatched, Rewritten, Reached, ReachedNext, Without
<1> QED
  BY <1>1, <1>2, <1>3 DEF NoteInv, Rewritten

LEMMA MailingGoesOn ==
  ASSUME NEW m \in Sending, NEW p \in {"audit", "read", "mark", "dispatch", "store", "written"}
  PROVE  /\ [m EXCEPT !.phase = p] \in Sending
         /\ [m EXCEPT !.phase = p].note = m.note /\ [m EXCEPT !.phase = p].ok = m.ok
         /\ [m EXCEPT !.phase = p].channel = m.channel
  BY DEF Sending

LEMMA SendingIsMailing ==
  ASSUME NEW n \in Notes, NEW p \in {"audit", "read"}, NEW b \in BOOLEAN
  PROVE  /\ sending(n, p, b) \in Sending
         /\ sending(n, p, b).note = n /\ sending(n, p, b).ok = FALSE /\ sending(n, p, b).phase = p
  BY DEF sending, Sending

LEMMA NoteRowsChange ==
  ASSUME NEW row \in Note, NEW st \in {"PENDING", "SENDING", "SENT", "FAILED", "RETRYING", "CANCELLED"},
         NEW a \in Nat
  PROVE  /\ [row EXCEPT !.status = st] \in Note /\ [row EXCEPT !.status = st].status = st
         /\ [row EXCEPT !.status = st].about = row.about
         /\ [row EXCEPT !.attempts = a, !.status = st] \in Note
         /\ [row EXCEPT !.attempts = a, !.status = st].status = st
         /\ [row EXCEPT !.attempts = a, !.status = st].about = row.about
  BY DEF Note

LEMMA AtMostTwo ==
  ASSUME NEW a \in Nat, NEW b \in Nat \ {0}
  PROVE  Min({a + 1, b}) \in Nat \ {0}
<1>1. \E x \in {a + 1, b} : \A y \in {a + 1, b} : x =< y
  <2>1. CASE a + 1 =< b
    BY <2>1
  <2>2. CASE b =< a + 1
    BY <2>2
  <2> QED
    BY <2>1, <2>2
<1>2. Min({a + 1, b}) \in {a + 1, b}
  BY <1>1 DEF Min
<1> QED
  BY <1>2

\* A send in progress, by its phase.
LEMMA MailInHand ==
  ASSUME ReqTyped, NoteInv, NEW r \in Processes,
         req[r].phase \in {"audit", "read", "mark", "dispatch", "store", "written"}
  PROVE  /\ req[r] \in Sending /\ req[r].note \in Notes
         /\ note[req[r].note] \in Note /\ note[req[r].note] # NoNote
         /\ req[r].ok \in BOOLEAN /\ (req[r].ok => Reached(req[r].note))
<1>1. req[r] \in Sending
  BY ByPhase DEF ReqTyped
<1> QED
  BY <1>1 DEF NoteInv, TakenIsSent, Sending

LEMMA NotificationsStepKeeps ==
  ASSUME ReqTyped, NoteInv, NEW r \in Requests, NotificationsStep(r)
  PROVE  ReqTyped' /\ Frame(NoteState) /\ NoteInv' /\ Rewritten /\ UNCHANGED scope
<1> DEFINE Goal == ReqTyped' /\ Frame(NoteState) /\ NoteInv' /\ Rewritten /\ UNCHANGED scope
<1> SUFFICES Goal
  OBVIOUS
<1>typed. /\ r \in Processes /\ Idle \in NoteState /\ Idle \notin Sending
          /\ sent \in [Notes -> Nat] /\ note \in [Notes -> {NoNote} \cup Note]
          /\ \A s \in Sending : s \in NoteState
  BY DEF Processes, NoteInv, NoteState, Idle, Sending
\* A step that ends the request, its row left alone or an exception caught.
<1>ends. ASSUME req[r] \in Sending, UNCHANGED note \/ throw(r), become(r, Idle), UNCHANGED <<sent, scope>>
         PROVE  Goal
  BY <1>ends, <1>typed, NoneRewritten, ThrowRewritten, NoteMoves
\* A step that goes on with what it has heard.
<1>goes. ASSUME req[r] \in Sending, Rewritten, NEW s \in Sending, become(r, s),
                s.note = req[r].note, s.ok = req[r].ok, UNCHANGED <<sent, scope>>,
                s.phase = "mark" \/ s.phase = "dispatch" =>
                  "patch" \in scope \/ s.channel = note[req[r].note].channel
         PROVE  Goal
  <2>1. note[req[r].note] # NoNote /\ (req[r].ok => Reached(req[r].note)) /\ req[r].note \in Notes
    BY <1>goes, <1>typed DEF NoteInv, TakenIsSent, Sending
  <2>2. note'[s.note] # NoNote /\ (s.ok => ReachedNext(s.note))
    BY <1>goes, <2>1 DEF Rewritten, Reached, ReachedNext
  <2>4. s.phase = "mark" \/ s.phase = "dispatch" => "patch" \in scope \/ s.channel = note'[s.note].channel
    BY <1>goes, <2>1 DEF Rewritten
  <2>3. ReqTyped' /\ Frame(NoteState) /\ NoteInv'
    BY <1>goes, <1>typed, <2>2, <2>4, NoteMoves
  <2> QED
    BY <1>goes, <2>3
<1>1. ASSUME auditCreation(r) PROVE Goal
  <2>1. req[r] \in Sending /\ UNCHANGED <<sent, scope>>
    BY <1>1, <1>typed, MailInHand DEF auditCreation, at
  <2>2. ASSUME become(r, [req[r] EXCEPT !.phase = "read"]), UNCHANGED note PROVE Goal
    <3> DEFINE s == [req[r] EXCEPT !.phase = "read"]
    <3>1. s \in Sending /\ s.note = req[r].note /\ s.ok = req[r].ok /\ s.phase = "read"
      BY <2>1 DEF Sending
    <3> QED
      BY <2>1, <2>2, <3>1, <1>goes, NoneRewritten
  <2> QED
    BY <1>1, <2>1, <2>2, <1>ends DEF auditCreation
<1>2. ASSUME readNotification(r) PROVE Goal
  <2>1. req[r] \in Sending /\ note[req[r].note] \in Note /\ UNCHANGED <<sent, scope>>
    BY <1>2, <1>typed, MailInHand DEF readNotification, at
  <2> DEFINE a == note[req[r].note].attempts + 1
             b == note[req[r].note].status = "FAILED"
             c == note[req[r].note].channel
             s == [req[r] EXCEPT !.phase = "mark", !.channel = c, !.attempts = a, !.failed = b]
  <2>2. ASSUME become(r, s), UNCHANGED note PROVE Goal
    <3>1. a \in Nat /\ b \in BOOLEAN /\ c \in Channels
      BY <2>1 DEF Note
    <3>2. s \in Sending /\ s.note = req[r].note /\ s.ok = req[r].ok /\ s.channel = note[req[r].note].channel
      <4>1. s \in Sending /\ s.note = req[r].note /\ s.ok = req[r].ok /\ s.channel = c
        <5> HIDE DEF a, b, c
        <5> QED
          BY <2>1, <3>1 DEF Sending
      <4> QED
        BY <4>1
    <3> HIDE DEF s
    <3> QED
      BY <2>1, <2>2, <3>2, <1>goes, NoneRewritten
  <2> QED
    BY <1>2, <2>1, <2>2, <1>ends DEF readNotification
<1>3. ASSUME markSending(r) PROVE Goal
  <2> DEFINE st == IF req[r].failed THEN "RETRYING" ELSE "SENDING"
             row == [note[req[r].note] EXCEPT !.attempts = req[r].attempts, !.status = st]
             s == [req[r] EXCEPT !.phase = "dispatch"]
  <2>1. /\ req[r] \in Sending /\ req[r].note \in Notes /\ req[r].attempts \in Nat
        /\ note[req[r].note] \in Note /\ note[req[r].note] # NoNote
        /\ UNCHANGED <<sent, scope>>
    BY <1>3, <1>typed, MailInHand DEF markSending, at, Sending
  <2>2. note' = [note EXCEPT ![req[r].note] = row] /\ become(r, s)
    BY <1>3, <1>typed, <2>1 DEF markSending
  <2>3. st \in {"RETRYING", "SENDING"}
    OBVIOUS
  <2>4. /\ row \in Note /\ row.status # "SENT" /\ row.about = note[req[r].note].about
        /\ row.channel = note[req[r].note].channel
    <3> HIDE DEF st
    <3> QED
      BY <2>1, <2>3 DEF Note
  <2>5. s \in Sending /\ s.note = req[r].note /\ s.ok = req[r].ok /\ s.channel = req[r].channel
    BY <2>1, MailingGoesOn
  <2>7. "patch" \in scope \/ req[r].channel = note[req[r].note].channel
    BY <1>3, <2>1, <1>typed DEF markSending, at, NoteInv, TakenIsSent
  <2> HIDE DEF row, s
  <2>6. Rewritten
    BY <2>1, <2>2, <2>4, OneRewritten DEF Sourced
  <2> QED
    BY <2>1, <2>2, <2>5, <2>6, <2>7, <1>goes
<1>4. ASSUME dispatch(r) PROVE Goal
  <2>1. req[r] \in Sending /\ req[r].note \in Notes /\ note[req[r].note] # NoNote
    BY <1>4, <1>typed, MailInHand DEF dispatch, at
  <2>8. "patch" \in scope \/ req[r].channel = note[req[r].note].channel
    BY <1>4, <2>1, <1>typed DEF dispatch, at, NoteInv, TakenIsSent
  <2>2. PICK taken \in BOOLEAN, ok \in BOOLEAN :
          /\ ok => taken \/ req[r].channel \notin Dispatched
          /\ sent' = [sent EXCEPT ![req[r].note] = IF taken THEN Min({@ + 1, MaxSends}) ELSE @]
          /\ become(r, [req[r] EXCEPT !.phase = "store", !.ok = ok])
    BY <1>4 DEF dispatch
  <2>3. UNCHANGED <<note, scope>>
    BY <1>4 DEF dispatch
  <2> DEFINE s == [req[r] EXCEPT !.phase = "store", !.ok = ok]
  <2>4. s \in Sending /\ s.note = req[r].note /\ s.ok = ok /\ s.phase = "store"
    BY <2>1 DEF Sending
  <2>5. Min({sent[req[r].note] + 1, MaxSends}) \in Nat \ {0}
    BY <1>typed, <2>1, AtMostTwo, NotificationsAssumption
  <2>6. /\ sent' \in [Notes -> Nat] /\ (taken => sent'[req[r].note] > 0)
        /\ \A n \in Notes : sent[n] > 0 => sent'[n] > 0
    <3>1. CASE taken
      <4>1. PICK k \in Nat \ {0} : k = Min({sent[req[r].note] + 1, MaxSends})
        BY <2>5
      <4>2. sent' = [sent EXCEPT ![req[r].note] = k]
        BY <2>2, <3>1, <4>1
      <4> QED
        BY <1>typed, <2>1, <4>2
    <3>2. CASE ~taken
      BY <1>typed, <2>1, <2>2, <3>2
    <3> QED
      BY <3>1, <3>2
  <2> HIDE DEF s
  <2>11. ok /\ "patch" \notin scope => \/ note[req[r].note].channel \notin Dispatched
                                       \/ sent'[req[r].note] > 0
    BY <2>2, <2>6, <2>8
  <2>9. note'[s.note] # NoNote /\ (s.ok => ReachedNext(s.note))
    BY <2>1, <2>3, <2>4, <2>11 DEF ReachedNext
  <2>10. become(r, s) /\ s \in NoteState
    BY <1>typed, <2>2, <2>4 DEF s
  <2>7. ReqTyped' /\ Frame(NoteState) /\ NoteInv'
    BY <1>typed, <2>3, <2>4, <2>6, <2>9, <2>10, NoteMoves, NoneRewritten
  <2> QED
    BY <2>3, <2>7, NoneRewritten
<1>5. ASSUME storeResult(r) PROVE Goal
  <2> DEFINE st == IF req[r].ok THEN "SENT" ELSE "FAILED"
             row == [note[req[r].note] EXCEPT !.status = st]
             s == [req[r] EXCEPT !.phase = "written"]
  <2>1. /\ req[r] \in Sending /\ req[r].note \in Notes /\ (req[r].ok => Reached(req[r].note))
        /\ note[req[r].note] \in Note /\ note[req[r].note] # NoNote
        /\ UNCHANGED <<sent, scope>>
    BY <1>5, <1>typed, MailInHand DEF storeResult, at
  <2>2. note' = [note EXCEPT ![req[r].note] = row] /\ become(r, s)
    BY <1>5, <1>typed, <2>1 DEF storeResult
  <2>3. st \in {"SENT", "FAILED"} /\ (st = "SENT" => req[r].ok)
    OBVIOUS
  <2>4. /\ row \in Note /\ row.status = st /\ row.about = note[req[r].note].about
        /\ row.channel = note[req[r].note].channel
    <3> HIDE DEF st
    <3> QED
      BY <2>1, <2>3 DEF Note
  <2>5. s \in Sending /\ s.note = req[r].note /\ s.ok = req[r].ok /\ s.phase = "written"
    BY <2>1 DEF Sending
  <2> HIDE DEF st, row, s
  <2>6. Rewritten
    BY <2>1, <2>2, <2>3, <2>4, OneRewritten DEF Sourced
  <2> QED
    BY <2>1, <2>2, <2>5, <2>6, <1>goes
<1>6. ASSUME logSending(r) PROVE Goal
  BY <1>6, <1>typed, <1>ends, MailInHand DEF logSending, at
<1> HIDE DEF Goal
<1> QED
  BY <1>1, <1>2, <1>3, <1>4, <1>5, <1>6 DEF NotificationsStep

LEMMA NotificationsKeep ==
  ASSUME ReqTyped, NoteInv, NotificationsNext
  PROVE  ReqTyped' /\ Frame(NoteState) /\ NoteInv' /\ Rewritten /\ UNCHANGED scope
<1> DEFINE Goal == ReqTyped' /\ Frame(NoteState) /\ NoteInv' /\ Rewritten /\ UNCHANGED scope
<1> SUFFICES Goal
  OBVIOUS
<1>typed. /\ Requests \subseteq Processes /\ Idle \in NoteState /\ Idle \notin Sending
          /\ sent \in [Notes -> Nat] /\ note \in [Notes -> {NoNote} \cup Note]
          /\ \A s \in Sending : s \in NoteState
  BY DEF Processes, NoteInv, NoteState, Idle, Sending
\* A step that begins to send a row, or ends a call without sending.
<1>sends. ASSUME NEW r \in Processes, NEW s \in NoteState, become(r, s), Rewritten, UNCHANGED <<sent, scope>>,
                 s \in Sending => /\ note'[s.note] # NoNote /\ s.ok = FALSE
                                  /\ s.phase \notin {"mark", "dispatch"}
          PROVE  Goal
  BY <1>sends, <1>typed, NoteMoves
<1>1. ASSUME NEW r \in Requests, NEW n \in Notes, NEW channel \in Channels,
             createNotification(r, n, channel)
      PROVE  Goal
  <2>1. Rewritten
    BY <1>1, NewRewritten DEF createNotification, Sourced
  <2> QED
    BY <1>1, <2>1, NoteStays DEF createNotification
<1>2. ASSUME NEW r \in Requests, NEW n \in Notes, NEW channel \in Channels, sendTemplate(r, n, channel)
      PROVE  Goal
  <2>1. Rewritten /\ note'[n] # NoNote
    BY <1>2, NewRewritten DEF sendTemplate, Sourced
  <2> QED
    BY <1>2, <1>typed, <1>sends, <2>1, SendingIsMailing DEF sendTemplate
<1>announced. ASSUME NEW r \in Requests, NEW occasion \in Occasions, announcing(r, occasion)
              PROVE  Sourced(occasion)
  <2>1. CASE at(r, "announce") /\ req[r].about = occasion
    <3>1. req[r] \in Announced /\ r \in Processes
      BY <2>1, <1>typed, ByPhase DEF at, ReqTyped
    <3> QED
      BY <2>1, <3>1 DEF Sourced
  <2> QED
    BY <1>announced, <2>1 DEF announcing, Sourced
<1>3. ASSUME NEW r \in Requests, NEW n \in Notes, NEW occasion \in Occasions,
             createLifecycleEmail(r, n, occasion)
      PROVE  Goal
  <2>1. Rewritten /\ note'[n] # NoNote
    BY <1>3, <1>announced, NewRewritten DEF createLifecycleEmail, Channels
  <2> QED
    BY <1>3, <1>typed, <1>sends, <2>1, SendingIsMailing DEF createLifecycleEmail
<1>4. ASSUME NEW r \in Requests, NEW n \in Notes, NEW occasion \in Occasions,
             skipLifecycleEmail(r, n, occasion)
      PROVE  Goal
  <2>1. Rewritten
    BY <1>4, <1>announced, NewRewritten DEF skipLifecycleEmail, Channels
  <2> QED
    BY <1>4, <1>typed, <1>sends, <2>1 DEF skipLifecycleEmail
<1>5. ASSUME NEW r \in Requests, NEW n \in Notes, sendNotification(r, n) PROVE Goal
  <2>1. Rewritten
    BY <1>5, NoneRewritten DEF sendNotification, notificationVars
  <2>2. note'[n] # NoNote /\ UNCHANGED <<sent, scope>>
    BY <1>5 DEF sendNotification, notificationVars
  <2> QED
    BY <1>5, <1>typed, <1>sends, <2>1, <2>2, SendingIsMailing DEF sendNotification
<1>changed. ASSUME NEW n \in Notes, NEW status \in {"CANCELLED"}, note[n] # NoNote,
                   note' = [note EXCEPT ![n].status = status], UNCHANGED <<sent, req, scope>>
            PROVE  Goal
  <2> DEFINE row == [note[n] EXCEPT !.status = status]
  <2>1. note[n] \in Note /\ note' = [note EXCEPT ![n] = row]
    BY <1>changed, <1>typed
  <2>2. row \in Note /\ row.status # "SENT" /\ row.about = note[n].about /\ row.channel = note[n].channel
    BY <2>1 DEF Note
  <2> HIDE DEF row
  <2>3. Rewritten
    BY <1>changed, <2>1, <2>2, OneRewritten DEF Sourced
  <2> QED
    BY <1>changed, <2>3, NoteStays
<1>6. ASSUME NEW r \in Requests, NEW n \in Notes, cancelNotification(r, n) PROVE Goal
  BY <1>6, <1>changed DEF cancelNotification
\* What an operator writes is a row of any status, which nothing is said of.
<1>7. ASSUME NEW r \in Requests, NEW n \in Notes, NEW status \in {"PENDING", "SENT", "FAILED", "CANCELLED"},
             NEW channel \in Channels,
             operationsCreate(r, n, status, channel) \/ operationsUpdate(r, n, status, channel)
      PROVE  Goal
  <2>1. "patch" \in scope /\ UNCHANGED <<sent, req, scope>>
    BY <1>7 DEF operationsCreate, operationsUpdate, mayBegin
  <2>2. \E row \in Note : Sourced(row.about) /\ note' = [note EXCEPT ![n] = row]
    <3>1. CASE operationsCreate(r, n, status, channel)
      <4> DEFINE row == [status |-> status, attempts |-> 0, channel |-> channel, about |-> None]
      <4>1. row \in Note /\ Sourced(row.about)
        BY DEF Note, Sourced
      <4> QED
        BY <3>1, <4>1 DEF operationsCreate, newNote
    <3>2. CASE operationsUpdate(r, n, status, channel)
      <4> DEFINE row == [note[n] EXCEPT !.status = status, !.channel = channel]
      <4>1. note[n] \in Note /\ note[n] # NoNote /\ note' = [note EXCEPT ![n] = row]
        BY <3>2, <1>typed DEF operationsUpdate
      <4>2. row \in Note /\ row.about = note[n].about
        BY <4>1 DEF Note
      <4> QED
        BY <4>1, <4>2 DEF Sourced
    <3> QED
      BY <1>7, <3>1, <3>2
  <2>3. Rewritten
    BY <2>1, <2>2, OneRewritten
  <2> QED
    BY <2>1, <2>3, NoteStays
<1>8. ASSUME NEW r \in Requests, NotificationsStep(r) PROVE Goal
  BY <1>8, NotificationsStepKeeps
<1> HIDE DEF Goal
<1> QED
  BY <1>1, <1>2, <1>3, <1>4, <1>5, <1>6, <1>7, <1>8 DEF NotificationsNext
-----------------------------------------------------------------------------
(* Programmes *)

Published(p) == programme[p] # NoProgramme /\ programme[p].published

\* Whoever is about to announce a programme has published it; publishedAt is
\* never taken back.
AnnouncedIsPublished ==
  \A q \in Processes :
    /\ req[q] \in Announcing =>
         /\ programme[req[q].programme] # NoProgramme
         /\ req[q].phase \in {"auditStatus", "readAgain"} /\ req[q].status = "ACTIVE" => Published(req[q].programme)
    /\ req[q] \in Announced /\ req[q].about \in Programmes => Published(req[q].about)

ProgrammeInv ==
  /\ programme \in [Programmes -> {NoProgramme} \cup Programme]
  /\ participants \in [Programmes \X Counterparties -> {0, 1}]
  /\ AnnouncedIsPublished /\ AnnouncedWasPublished

LEMMA ProgrammeInit == Init => ProgrammeInv
  BY DEF Init, ServiceInit, NotificationsInit, ProgrammesInit, ProgrammeInv, AnnouncedIsPublished,
         AnnouncedWasPublished, NoNote, Idle, Announcing, Announced

LEMMA ProgrammeFrame ==
  ASSUME ReqTyped, ProgrammeInv, NEW S, S \cap (Announcing \cup Announced) = {}, Frame(S),
         UNCHANGED <<programmeVars, note>>
  PROVE  ProgrammeInv'
  BY DEF ProgrammeInv, AnnouncedIsPublished, AnnouncedWasPublished, Published, Frame, programmeVars

\* A new email is about what its caller has published, or about no programme.
LEMMA ProgrammeNoteFrame ==
  ASSUME ReqTyped, ProgrammeInv, Frame(NoteState), Rewritten, UNCHANGED programmeVars
  PROVE  ProgrammeInv'
<1>1. NoteState \cap (Announcing \cup Announced) = {}
  BY DEF NoteState, Idle, Sending, Announcing, Announced
<1>2. AnnouncedIsPublished'
  BY <1>1 DEF ProgrammeInv, AnnouncedIsPublished, Published, Frame, programmeVars
<1>3. ASSUME NEW p \in Programmes, Sourced(p) PROVE Published(p)
  <2>1. p \notin {None} \cup OtherOccasions
    BY ProgrammesAssumption, NotificationsAssumption
  <2> QED
    BY <1>3, <2>1 DEF Sourced, ProgrammeInv, AnnouncedIsPublished, AnnouncedWasPublished, Published
<1>4. AnnouncedWasPublished'
  BY <1>3 DEF Rewritten, AnnouncedWasPublished, Published, programmeVars
<1> QED
  BY <1>2, <1>4 DEF ProgrammeInv, programmeVars

LEMMA ProgrammesThere == \A row \in Programme : row # NoProgramme /\ row.published \in BOOLEAN
  BY DEF Programme, NoProgramme, ProgrammeStatus

\* A row that is written anew stays published.
LEMMA ProgrammeWritten ==
  ASSUME ProgrammeInv, NEW p \in Programmes, NEW row \in Programme, programme' = [programme EXCEPT ![p] = row],
         Published(p) => row.published, UNCHANGED <<participants, note>>
  PROVE  /\ programme' \in [Programmes -> {NoProgramme} \cup Programme]
         /\ \A o \in Programmes : /\ programme[o] # NoProgramme => programme'[o] # NoProgramme
                                  /\ Published(o) => Published(o)'
         /\ Published(p)' <=> row.published
         /\ AnnouncedWasPublished'
<1>1. /\ programme' \in [Programmes -> {NoProgramme} \cup Programme]
      /\ programme'[p] = row /\ \A o \in Programmes \ {p} : programme'[o] = programme[o]
  BY DEF ProgrammeInv
<1>2. \A o \in Programmes : /\ programme[o] # NoProgramme => programme'[o] # NoProgramme
                            /\ Published(o) => Published(o)'
  BY <1>1, ProgrammesThere DEF Published
<1>3. AnnouncedWasPublished'
  BY <1>2 DEF ProgrammeInv, AnnouncedWasPublished, Published
<1> QED
  BY <1>1, <1>2, <1>3, ProgrammesThere DEF Published

LEMMA ProgrammesKeep ==
  ASSUME ReqTyped, ProgrammeInv, ProgrammesNext, UNCHANGED note
  PROVE  ReqTyped' /\ Frame(ProgrammeState) /\ ProgrammeInv' /\ UNCHANGED scope
<1> DEFINE Goal == ReqTyped' /\ Frame(ProgrammeState) /\ ProgrammeInv' /\ UNCHANGED scope
<1> SUFFICES Goal
  OBVIOUS
<1>typed. /\ Requests \subseteq Processes /\ Idle \in ProgrammeState
          /\ Idle \notin Announcing \cup Announced
          /\ Announcing \cap Announced = {} /\ Adding \cap (Announcing \cup Announced) = {}
          /\ programme \in [Programmes -> {NoProgramme} \cup Programme]
  BY DEF Processes, ProgrammeState, Idle, Announcing, Announced, Adding, ProgrammeInv
\* A step that leaves the programmes alone.
<1>moved. ASSUME NEW r \in Processes, NEW s \in ProgrammeState, become(r, s), UNCHANGED <<programme, scope>>,
                 participants' \in [Programmes \X Counterparties -> {0, 1}],
                 s \in Announcing => /\ programme[s.programme] # NoProgramme
                                     /\ s.phase \in {"auditStatus", "readAgain"} /\ s.status = "ACTIVE"
                                          => Published(s.programme),
                 s \in Announced /\ s.about \in Programmes => Published(s.about)
          PROVE  Goal
  <2>1. /\ ReqTyped' /\ Frame(ProgrammeState)
        /\ req'[r] = s /\ \A q \in Processes \ {r} : req'[q] = req[q]
    BY <1>moved, BecomeFrames, Subsets
  <2>2. \A p : Published(p)' <=> Published(p)
    BY <1>moved DEF Published
  <2>3. AnnouncedIsPublished'
    BY <1>moved, <2>1, <2>2 DEF ProgrammeInv, AnnouncedIsPublished
  <2>4. AnnouncedWasPublished'
    BY <1>moved DEF ProgrammeInv, AnnouncedWasPublished
  <2> QED
    BY <1>moved, <2>1, <2>3, <2>4 DEF ProgrammeInv
<1>announcing. ASSUME NEW r \in Processes, req[r].phase \in {"setStatus", "auditStatus", "readAgain"}
               PROVE  /\ req[r] \in Announcing /\ req[r].programme \in Programmes
                      /\ req[r].status \in ProgrammeStatus
                      /\ programme[req[r].programme] # NoProgramme
                      /\ programme[req[r].programme] \in Programme
                      /\ req[r].phase \in {"auditStatus", "readAgain"} /\ req[r].status = "ACTIVE"
                           => Published(req[r].programme)
  <2>1. req[r] \in Announcing
    BY <1>announcing, ByPhase DEF ReqTyped
  <2>2. req[r].programme \in Programmes /\ req[r].status \in ProgrammeStatus
    BY <2>1 DEF Announcing
  <2> QED
    BY <1>announcing, <1>typed, <2>1, <2>2 DEF ProgrammeInv, AnnouncedIsPublished
\* An edit, which no request waits for.
<1>edited. ASSUME NEW p \in Programmes, NEW row \in Programme, programme' = [programme EXCEPT ![p] = row],
                  Published(p) => row.published, UNCHANGED <<participants, req, scope>>
           PROVE  Goal
  <2>1. /\ programme' \in [Programmes -> {NoProgramme} \cup Programme]
        /\ \A o \in Programmes : /\ programme[o] # NoProgramme => programme'[o] # NoProgramme
                                 /\ Published(o) => Published(o)'
        /\ AnnouncedWasPublished'
    BY <1>edited, ProgrammeWritten
  <2>2. AnnouncedIsPublished'
    BY <1>edited, <2>1 DEF ProgrammeInv, AnnouncedIsPublished, Announcing
  <2> QED
    BY <1>edited, <2>1, <2>2, StayFrames, Subsets DEF ProgrammeInv
<1>1. ASSUME NEW r \in Requests, NEW p \in Programmes, NEW anchor \in Counterparties, NEW published \in BOOLEAN,
             createProgramme(r, p, anchor, published)
      PROVE  Goal
  <2> DEFINE row == [status |-> "DRAFT", anchor |-> anchor, published |-> published]
  <2>1. row \in Programme
    BY DEF Programme, ProgrammeStatus
  <2> QED
    BY <1>1, <2>1, <1>edited DEF createProgramme, findProgramme, Published
<1>2. ASSUME NEW r \in Requests, NEW p \in Programmes, NEW anchor \in Counterparties, NEW published \in BOOLEAN,
             NEW status \in ProgrammeStatus, updateProgramme(r, p, status, anchor, published)
      PROVE  Goal
  <2> DEFINE still == programme[p].published \/ published
             row == [status |-> status, anchor |-> anchor, published |-> still]
  <2>1. still \in BOOLEAN /\ (Published(p) => still)
    BY DEF Published
  <2>2. programme' = [programme EXCEPT ![p] = row]
    BY <1>2, <1>typed DEF updateProgramme
  <2> HIDE DEF still
  <2>3. row \in Programme /\ row.published = still
    BY <2>1 DEF Programme
  <2> HIDE DEF row
  <2> QED
    BY <1>2, <2>1, <2>2, <2>3, <1>edited DEF updateProgramme
<1>3. ASSUME NEW r \in Requests, NEW p \in Programmes, NEW c \in Counterparties, addParticipant(r, p, c) PROVE Goal
  <2> DEFINE s == [phase |-> "addParticipant", programme |-> p, counterparty |-> c]
  <2>1. s \in Adding /\ s \in ProgrammeState
    BY DEF Adding, ProgrammeState
  <2> QED
    BY <1>3, <1>typed, <2>1, <1>moved DEF addParticipant, programmeVars, ProgrammeInv
<1>4. ASSUME NEW r \in Requests, insertParticipant(r) PROVE Goal
  <2> DEFINE pc == <<req[r].programme, req[r].counterparty>>
  <2>1. pc \in Programmes \X Counterparties
    BY <1>4, <1>typed, ByPhase DEF insertParticipant, at, ReqTyped, Adding
  <2>2. participants' \in [Programmes \X Counterparties -> {0, 1}]
    BY <1>4, <2>1 DEF insertParticipant, ProgrammeInv
  <2> QED
    BY <1>4, <1>typed, <2>2, <1>moved DEF insertParticipant
<1>5. ASSUME NEW r \in Requests, NEW p \in Programmes, NEW status \in {"ACTIVE", "SUSPENDED", "CLOSED"},
             setStatus(r, p, status)
      PROVE  Goal
  <2> DEFINE s == [phase |-> "setStatus", programme |-> p, status |-> status]
  <2>1. s \in Announcing /\ s \in ProgrammeState /\ s.programme = p /\ s.phase = "setStatus"
    BY DEF Announcing, ProgrammeState, ProgrammeStatus
  <2> HIDE DEF s
  <2>2. become(r, s) /\ programme[p] # NoProgramme /\ UNCHANGED <<programmeVars, scope>>
    BY <1>5 DEF setStatus, findProgramme, s
  <2> QED
    BY <1>typed, <2>1, <2>2, <1>moved DEF programmeVars, ProgrammeInv
<1>6. ASSUME NEW r \in Requests, writeStatus(r) PROVE Goal
  <2>0. PICK p \in Programmes : p = req[r].programme
    BY <1>6, <1>typed, <1>announcing DEF writeStatus, at
  <2> DEFINE displayed == programme[p].published \/ req[r].status = "ACTIVE"
             row == [programme[p] EXCEPT !.status = req[r].status, !.published = displayed]
             s == [req[r] EXCEPT !.phase = "auditStatus"]
  <2>1. /\ req[r] \in Announcing /\ programme[p] # NoProgramme
        /\ programme[p] \in Programme /\ req[r].status \in ProgrammeStatus
    BY <1>6, <1>typed, <1>announcing, <2>0 DEF writeStatus, at
  <2>2. programme' = [programme EXCEPT ![p] = row] /\ become(r, s) /\ UNCHANGED <<participants, scope>>
    BY <1>6, <1>typed, <2>0, <2>1 DEF writeStatus
  <2>3. displayed \in BOOLEAN /\ (Published(p) => displayed) /\ (req[r].status = "ACTIVE" => displayed)
    BY DEF Published
  <2>4. row \in Programme /\ row.published = displayed
    <3> HIDE DEF displayed
    <3> QED
      BY <2>1, <2>3 DEF Programme
  <2>5. s \in Announcing /\ s.programme = p /\ s.status = req[r].status
    BY <2>0, <2>1 DEF Announcing
  <2> HIDE DEF displayed, row, s
  <2>6. /\ programme' \in [Programmes -> {NoProgramme} \cup Programme]
        /\ \A o \in Programmes : /\ programme[o] # NoProgramme => programme'[o] # NoProgramme
                                 /\ Published(o) => Published(o)'
        /\ Published(p)' <=> row.published
        /\ AnnouncedWasPublished'
    BY <2>1, <2>2, <2>3, <2>4, ProgrammeWritten
  <2>7. /\ ReqTyped' /\ Frame(ProgrammeState)
        /\ req'[r] = s /\ \A q \in Processes \ {r} : req'[q] = req[q]
    BY <1>typed, <2>2, <2>5, BecomeFrames, Subsets DEF ProgrammeState
  <2>8. AnnouncedIsPublished'
    BY <1>typed, <2>1, <2>3, <2>4, <2>5, <2>6, <2>7 DEF ProgrammeInv, AnnouncedIsPublished, Announcing
  <2> QED
    BY <2>2, <2>6, <2>7, <2>8 DEF ProgrammeInv
<1>7. ASSUME NEW r \in Requests, auditStatus(r) PROVE Goal
  <2>1. /\ req[r] \in Announcing /\ programme[req[r].programme] # NoProgramme
        /\ req[r].status = "ACTIVE" => Published(req[r].programme)
    BY <1>7, <1>typed, <1>announcing DEF auditStatus, at
  <2> DEFINE s == [req[r] EXCEPT !.phase = "readAgain"]
  <2>2. /\ s \in Announcing /\ s \in ProgrammeState
        /\ s.programme = req[r].programme /\ s.status = req[r].status
    BY <2>1 DEF Announcing, ProgrammeState
  <2>3. (become(r, s) \/ become(r, Idle)) /\ UNCHANGED <<programmeVars, scope>>
    BY <1>7 DEF auditStatus
  <2> HIDE DEF s
  <2> QED
    BY <1>typed, <2>1, <2>2, <2>3, <1>moved DEF programmeVars, ProgrammeInv
<1>8. ASSUME NEW r \in Requests, readAgain(r) PROVE Goal
  <2>1. /\ req[r].programme \in Programmes
        /\ req[r].status = "ACTIVE" => Published(req[r].programme)
    BY <1>8, <1>typed, <1>announcing DEF readAgain, at
  <2> DEFINE s == [phase |-> "announce", about |-> req[r].programme]
  <2>2. s \in Announced /\ s \in ProgrammeState /\ s.about = req[r].programme
    BY <2>1, ProgrammesAssumption, NotificationsAssumption DEF Announced, ProgrammeState
  <2>3. /\ become(r, IF req[r].status = "ACTIVE" THEN s ELSE Idle)
        /\ UNCHANGED <<programmeVars, scope>>
    BY <1>8 DEF readAgain
  <2> HIDE DEF s
  <2> QED
    BY <1>typed, <2>1, <2>2, <2>3, <1>moved DEF programmeVars, ProgrammeInv
<1> HIDE DEF Goal
<1> QED
  BY <1>1, <1>2, <1>3, <1>4, <1>5, <1>6, <1>7, <1>8 DEF ProgrammesNext, ProgrammesStep
-----------------------------------------------------------------------------
(* Documents: files and rows *)

\* A request that records a file has stored it, one that changes a row has found
\* it, and one that changes its type occurs.
FoundIsThere ==
  \A q \in Processes :
    /\ at(q, "recordFile") => req[q].document \in stored
    /\ req[q] \in Changing \cup Retyping => document[req[q].document] # NoDocument
    /\ req[q] \in Retyping => "retype" \in scope

\* What a row of a document stands for.
Filed(d) == "documentRecord" \in scope \/ d \in stored

DocumentInv ==
  /\ document \in [Documents -> {NoDocument} \cup Document]
  /\ FoundIsThere /\ RecordHasFile /\ IdentityIsVerified

LEMMA DocumentInit == Init => DocumentInv
  BY DEF Init, ServiceInit, DocumentsInit, DocumentInv, FoundIsThere, RecordHasFile, IdentityIsVerified,
         NoDocument, Idle, Changing, Retyping, at

LEMMA DocumentFrame ==
  ASSUME ReqTyped, DocumentInv, NEW S \in SUBSET State, S \cap (Uploading \cup Changing \cup Retyping) = {},
         Frame(S), ReqTyped', UNCHANGED <<documentVars, scope>>
  PROVE  DocumentInv'
<1>1. \A s \in S : s.phase # "recordFile"
  BY ByPhase
<1>2. FoundIsThere'
  BY <1>1 DEF DocumentInv, FoundIsThere, Frame, documentVars, at
<1> QED
  BY <1>2 DEF DocumentInv, RecordHasFile, IdentityIsVerified, Without, documentVars

LEMMA DocumentsThere == \A row \in Document : row # NoDocument
  BY DEF Document, NoDocument

\* A row that is written has its file, and is verified where it must be.
LEMMA DocumentWritten ==
  ASSUME DocumentInv, NEW d \in Documents, NEW row \in Document, document' = [document EXCEPT ![d] = row],
         Filed(d), row.type # "OTHER" /\ Without({"retype", "documentRecord"}) => row.status # "ACTIVE",
         UNCHANGED <<stored, scope>>
  PROVE  /\ document' \in [Documents -> {NoDocument} \cup Document]
         /\ \A o \in Documents : document[o] # NoDocument => document'[o] # NoDocument
         /\ RecordHasFile' /\ IdentityIsVerified'
<1>1. /\ document' \in [Documents -> {NoDocument} \cup Document]
      /\ document'[d] = row /\ \A o \in Documents \ {d} : document'[o] = document[o]
  BY DEF DocumentInv
<1>2. \A o \in Documents : document[o] # NoDocument => document'[o] # NoDocument
  BY <1>1, DocumentsThere
<1>3. RecordHasFile'
  BY <1>1 DEF DocumentInv, RecordHasFile, Filed, Without
<1>4. IdentityIsVerified'
  BY <1>1 DEF DocumentInv, IdentityIsVerified, Without
<1> QED
  BY <1>1, <1>2, <1>3, <1>4

\* A request in one of the phases of documents.
LEMMA DocumentInHand ==
  ASSUME ReqTyped, DocumentInv, NEW r \in Requests
  PROVE  /\ r \in Processes
         /\ req[r].phase \in {"storeFile", "recordFile"} =>
              req[r] \in Uploading /\ req[r].document \in Documents /\ req[r].type \in Types
         /\ req[r].phase = "recordFile" => req[r].document \in stored
         /\ req[r].phase \in {"changeDocument", "retypeDocument"} =>
              /\ req[r] \in Changing \cup Retyping /\ req[r].document \in Documents
              /\ document[req[r].document] \in Document /\ Filed(req[r].document)
         /\ req[r].phase = "changeDocument" => req[r].status \in {"VERIFIED", "REJECTED", "DELETED"}
         /\ req[r].phase = "retypeDocument" => req[r].type \in Types /\ "retype" \in scope
         /\ req[r].phase \in {"auditLink", "link", "findAgain", "auditFile", "file"} =>
              req[r] \in Reading /\ req[r].document \in Documents
<1>1. r \in Processes /\ req[r] \in State
  BY DEF Processes, ReqTyped
<1>2. /\ req[r].phase \in {"storeFile", "recordFile"} => req[r] \in Uploading
      /\ req[r].phase = "changeDocument" => req[r] \in Changing
      /\ req[r].phase = "retypeDocument" => req[r] \in Retyping
      /\ req[r].phase \in {"auditLink", "link", "findAgain", "auditFile", "file"} => req[r] \in Reading
  BY <1>1, ByPhase
<1>3. /\ req[r] \in Uploading => req[r].document \in Documents /\ req[r].type \in Types
      /\ req[r] \in Changing => req[r].document \in Documents /\ req[r].status \in {"VERIFIED", "REJECTED", "DELETED"}
      /\ req[r] \in Retyping => req[r].document \in Documents /\ req[r].type \in Types
      /\ req[r] \in Reading => req[r].document \in Documents
  BY DEF Uploading, Changing, Retyping, Reading
<1> QED
  BY <1>1, <1>2, <1>3 DEF DocumentInv, FoundIsThere, RecordHasFile, Filed, Without, at

LEMMA DocumentsKeep ==
  ASSUME ReqTyped, DocumentInv, DocumentsNext
  PROVE  ReqTyped' /\ Frame(DocumentState) /\ DocumentInv' /\ UNCHANGED scope
<1> DEFINE Goal == ReqTyped' /\ Frame(DocumentState) /\ DocumentInv' /\ UNCHANGED scope
<1> SUFFICES Goal
  OBVIOUS
<1>typed. /\ Requests \subseteq Processes /\ Idle \in DocumentState
          /\ Idle.phase # "recordFile" /\ Idle \notin Changing \cup Retyping
          /\ \A s \in Uploading : s \in DocumentState /\ s \notin Changing \cup Retyping
          /\ \A s \in Reading : s \in DocumentState /\ s \notin Changing \cup Retyping /\ s.phase # "recordFile"
          /\ \A s \in Changing \cup Retyping : s \in DocumentState /\ s.phase # "recordFile"
          /\ document \in [Documents -> {NoDocument} \cup Document]
  BY DEF Processes, DocumentState, Idle, Uploading, Changing, Retyping, Reading, DocumentInv
\* A step that leaves the rows alone; files are only added.
<1>moved. ASSUME NEW r \in Processes, NEW s \in DocumentState, become(r, s), UNCHANGED <<document, scope>>,
                 stored \subseteq stored',
                 s.phase = "recordFile" => s.document \in stored',
                 s \in Changing \cup Retyping => document[s.document] # NoDocument,
                 s \in Retyping => "retype" \in scope
          PROVE  Goal
  <2>1. /\ ReqTyped' /\ Frame(DocumentState)
        /\ req'[r] = s /\ \A q \in Processes \ {r} : req'[q] = req[q]
    BY <1>moved, BecomeFrames, Subsets
  <2>2. FoundIsThere'
    BY <1>moved, <2>1 DEF DocumentInv, FoundIsThere, at
  <2>3. RecordHasFile' /\ IdentityIsVerified'
    BY <1>moved DEF DocumentInv, RecordHasFile, IdentityIsVerified, Without
  <2> QED
    BY <1>moved, <2>1, <2>2, <2>3 DEF DocumentInv
\* A step that writes a row and ends the request.
<1>written. ASSUME NEW r \in Processes, become(r, Idle), NEW d \in Documents, NEW row \in Document,
                   document' = [document EXCEPT ![d] = row], Filed(d),
                   row.type # "OTHER" /\ Without({"retype", "documentRecord"}) => row.status # "ACTIVE",
                   UNCHANGED <<stored, scope>>
            PROVE  Goal
  <2>1. /\ ReqTyped' /\ Frame(DocumentState)
        /\ req'[r] = Idle /\ \A q \in Processes \ {r} : req'[q] = req[q]
    BY <1>written, BecomeFrames, Subsets
  <2>2. /\ document' \in [Documents -> {NoDocument} \cup Document]
        /\ \A o \in Documents : document[o] # NoDocument => document'[o] # NoDocument
        /\ RecordHasFile' /\ IdentityIsVerified'
    BY <1>written, DocumentWritten
  <2>3. FoundIsThere'
    BY <1>written, <1>typed, <2>1, <2>2 DEF DocumentInv, FoundIsThere, at, Changing, Retyping
  <2> QED
    BY <1>written, <2>1, <2>2, <2>3 DEF DocumentInv
<1>1. ASSUME NEW r \in Requests, NEW d \in Documents, NEW type \in Types, uploadDocument(r, d, type) PROVE Goal
  <2> DEFINE s == [phase |-> "storeFile", document |-> d, type |-> type]
  <2>1. s \in Uploading /\ s.phase = "storeFile"
    BY DEF Uploading
  <2> HIDE DEF s
  <2>2. become(r, s) /\ UNCHANGED <<document, stored, scope>>
    BY <1>1 DEF uploadDocument, documentVars, s
  <2> QED
    BY <1>typed, <2>1, <2>2, <1>moved
<1>2. ASSUME NEW r \in Requests, storeFile(r) PROVE Goal
  <2> DEFINE s == [req[r] EXCEPT !.phase = "recordFile"]
  <2>1. req[r] \in Uploading /\ UNCHANGED <<document, scope>>
    BY <1>2, DocumentInHand DEF storeFile, at
  <2>2. s \in Uploading /\ s.document = req[r].document
    BY <2>1 DEF Uploading
  <2>3. stored \subseteq stored' /\ (become(r, Idle) \/ (become(r, s) /\ req[r].document \in stored'))
    BY <1>2 DEF storeFile
  <2> HIDE DEF s
  <2> QED
    BY <1>typed, <2>1, <2>2, <2>3, <1>moved
<1>3. ASSUME NEW r \in Requests, recordFile(r) PROVE Goal
  <2>1. /\ req[r].document \in Documents /\ req[r].type \in Types /\ Filed(req[r].document)
        /\ become(r, Idle) /\ UNCHANGED <<stored, scope>>
    BY <1>3, DocumentInHand DEF recordFile, at, Filed
  <2> DEFINE st == initialStatus(req[r].type)
             row == [status |-> st, type |-> req[r].type]
  <2>2. st \in {"ACTIVE", "PENDING_VERIFICATION"} /\ (req[r].type # "OTHER" => st # "ACTIVE")
    BY <2>1 DEF initialStatus, Types
  <2>3. document' = [document EXCEPT ![req[r].document] = row] \/ UNCHANGED document
    BY <1>3 DEF recordFile
  <2> HIDE DEF st
  <2>4. row \in Document /\ row.type = req[r].type /\ row.status = st
    BY <2>1, <2>2 DEF Document
  <2> HIDE DEF row
  <2> QED
    BY <1>typed, <2>1, <2>2, <2>3, <2>4, <1>moved, <1>written
<1>4. ASSUME NEW r \in Requests, NEW d \in Documents, NEW status \in {"VERIFIED", "REJECTED", "DELETED"},
             changeDocument(r, d, status)
      PROVE  Goal
  <2> DEFINE s == [phase |-> "changeDocument", document |-> d, status |-> status]
  <2>1. s \in Changing /\ s \notin Retyping /\ s.document = d
    BY DEF Changing, Retyping
  <2> HIDE DEF s
  <2>2. become(r, s) /\ document[d] # NoDocument /\ UNCHANGED <<document, stored, scope>>
    BY <1>4 DEF changeDocument, findDocument, documentVars, s
  <2> QED
    BY <1>typed, <2>1, <2>2, <1>moved
<1>5. ASSUME NEW r \in Requests, writeChange(r) PROVE Goal
  <2>1. /\ req[r].document \in Documents /\ req[r].status \in {"VERIFIED", "REJECTED", "DELETED"}
        /\ document[req[r].document] \in Document /\ Filed(req[r].document)
        /\ become(r, Idle) /\ UNCHANGED <<stored, scope>>
    BY <1>5, DocumentInHand DEF writeChange, at
  <2> DEFINE row == [document[req[r].document] EXCEPT !.status = req[r].status]
  <2>2. document' = [document EXCEPT ![req[r].document] = row]
    BY <1>5, <1>typed, <2>1 DEF writeChange
  <2>3. row \in Document /\ row.status # "ACTIVE"
    BY <2>1 DEF Document
  <2> HIDE DEF row
  <2> QED
    BY <1>typed, <2>1, <2>2, <2>3, <1>written
<1>6. ASSUME NEW r \in Requests, NEW d \in Documents, NEW type \in Types, updateDocument(r, d, type) PROVE Goal
  <2> DEFINE s == [phase |-> "retypeDocument", document |-> d, type |-> type]
  <2>1. s \in Retyping /\ s.document = d
    BY DEF Retyping
  <2> HIDE DEF s
  <2>2. /\ become(r, s) /\ document[d] # NoDocument /\ "retype" \in scope
        /\ UNCHANGED <<document, stored, scope>>
    BY <1>6 DEF updateDocument, findDocument, mayBegin, documentVars, s
  <2> QED
    BY <1>typed, <2>1, <2>2, <1>moved
<1>7. ASSUME NEW r \in Requests, writeUpdate(r) PROVE Goal
  <2>1. /\ req[r].document \in Documents /\ req[r].type \in Types /\ "retype" \in scope
        /\ document[req[r].document] \in Document /\ Filed(req[r].document)
        /\ become(r, Idle) /\ UNCHANGED <<stored, scope>>
    BY <1>7, DocumentInHand DEF writeUpdate, at
  <2> DEFINE row == [document[req[r].document] EXCEPT !.type = req[r].type]
  <2>2. document' = [document EXCEPT ![req[r].document] = row]
    BY <1>7, <1>typed, <2>1 DEF writeUpdate
  <2>3. row \in Document /\ ~Without({"retype", "documentRecord"})
    BY <2>1 DEF Document, Without
  <2> HIDE DEF row
  <2> QED
    BY <1>typed, <2>1, <2>2, <2>3, <1>written
\* Downloads leave the rows and the files alone.
<1>read. ASSUME NEW r \in Processes, NEW s \in {Idle} \cup Reading, become(r, s),
                UNCHANGED <<document, stored, scope>>
         PROVE  Goal
  BY <1>read, <1>typed, <1>moved
<1>8. ASSUME NEW r \in Requests, NEW d \in Documents, getDownloadUrl(r, d) PROVE Goal
  <2> DEFINE s == [phase |-> "auditLink", document |-> d]
  <2>1. s \in Reading
    BY DEF Reading
  <2> HIDE DEF s
  <2> QED
    BY <1>8, <1>typed, <2>1, <1>read DEF getDownloadUrl, documentVars, s
<1>9. ASSUME NEW r \in Requests, auditLink(r) \/ auditFile(r) PROVE Goal
  <2>1. req[r] \in Reading
    BY <1>9, DocumentInHand DEF auditLink, auditFile, at
  <2>2. PICK p \in {"link", "findAgain", "file"} : auditAccess(r, p)
    BY <1>9 DEF auditLink, auditFile
  <2> DEFINE s == [req[r] EXCEPT !.phase = p]
  <2>3. s \in Reading
    BY <2>1 DEF Reading
  <2>4. (become(r, s) \/ become(r, Idle)) /\ UNCHANGED <<document, stored, scope>>
    BY <2>2 DEF auditAccess
  <2> HIDE DEF s
  <2> QED
    BY <1>typed, <2>3, <2>4, <1>read
<1>10. ASSUME NEW r \in Requests, findAgain(r) PROVE Goal
  <2>1. req[r] \in Reading
    BY <1>10, DocumentInHand DEF findAgain, at
  <2> DEFINE s == [req[r] EXCEPT !.phase = "auditFile"]
  <2>2. s \in Reading
    BY <2>1 DEF Reading
  <2>3. (become(r, s) \/ become(r, Idle)) /\ UNCHANGED <<document, stored, scope>>
    BY <1>10 DEF findAgain, documentVars
  <2> HIDE DEF s
  <2> QED
    BY <1>typed, <2>2, <2>3, <1>read
<1>11. ASSUME NEW r \in Requests, handOut(r) PROVE Goal
  BY <1>11, <1>typed, <1>read DEF handOut
<1>12. ASSUME NEW r \in Requests, NEW d \in Documents, NEW row \in Document,
              operationsDocument(r, d, row.status, row.type)
       PROVE  Goal
  <2>1. "documentRecord" \in scope /\ UNCHANGED <<stored, req, scope>>
    BY <1>12 DEF operationsDocument, mayBegin
  <2>2. document' = [document EXCEPT ![d] = [status |-> row.status, type |-> row.type]]
    BY <1>12 DEF operationsDocument
  <2>3. [status |-> row.status, type |-> row.type] \in Document
    BY DEF Document
  <2>4. /\ document' \in [Documents -> {NoDocument} \cup Document]
        /\ \A o \in Documents : document[o] # NoDocument => document'[o] # NoDocument
        /\ RecordHasFile' /\ IdentityIsVerified'
    BY <2>1, <2>2, <2>3, DocumentWritten DEF Filed, Without
  <2>5. FoundIsThere'
    BY <2>1, <2>4 DEF DocumentInv, FoundIsThere, at, Changing, Retyping
  <2>6. DocumentInv'
    BY <2>4, <2>5 DEF DocumentInv
  <2> QED
    BY <2>1, <2>6, StayFrames, Subsets
<1> HIDE DEF Goal
<1> QED
  BY <1>1, <1>2, <1>3, <1>4, <1>5, <1>6, <1>7, <1>8, <1>9, <1>10, <1>11, <1>12 DEF DocumentsNext, DocumentsStep
-----------------------------------------------------------------------------
(* Documents: what is read and audited *)

Readers(d) == {q \in Requests : req[q] \in Reading /\ req[q].document = d}
Handing(d) == {q \in Requests : req[q] \in Reading /\ req[q].document = d /\ req[q].phase \in {"link", "file"}}

\* Every request about to hand out a file has an audit entry of its own, and the
\* reads begun leave room to count the entries.
AuditInv ==
  /\ audited \in [Documents -> Nat] /\ handedOut \in [Documents -> Nat]
  /\ \A d \in Documents : /\ handedOut[d] + Cardinality(Readers(d)) <= MaxReads
                          /\ handedOut[d] + Cardinality(Handing(d)) <= audited[d]

LEMMA Counts ==
  ASSUME NEW d
  PROVE  /\ IsFiniteSet(Readers(d)) /\ IsFiniteSet(Handing(d)) /\ Handing(d) \subseteq Readers(d)
         /\ Cardinality(Readers(d)) \in Nat /\ Cardinality(Handing(d)) \in Nat
         /\ Cardinality(Handing(d)) <= Cardinality(Readers(d))
<1>1. Handing(d) \subseteq Readers(d) /\ Readers(d) \subseteq Requests
  BY DEF Handing, Readers
<1>2. IsFiniteSet(Readers(d)) /\ IsFiniteSet(Handing(d))
  BY <1>1, ServiceAssumption, FS_Subset
<1> QED
  BY <1>1, <1>2, FS_CardinalityType, FS_Subset

LEMMA CountsNext ==
  ASSUME NEW d
  PROVE  /\ IsFiniteSet(Readers(d)') /\ IsFiniteSet(Handing(d)') /\ Handing(d)' \subseteq Readers(d)'
         /\ Cardinality(Readers(d)') \in Nat /\ Cardinality(Handing(d)') \in Nat
         /\ Cardinality(Handing(d)') <= Cardinality(Readers(d)')
<1>1. Handing(d)' \subseteq Readers(d)' /\ Readers(d)' \subseteq Requests
  BY DEF Handing, Readers
<1>2. IsFiniteSet(Readers(d)') /\ IsFiniteSet(Handing(d)')
  BY <1>1, ServiceAssumption, FS_Subset
<1> QED
  BY <1>1, <1>2, FS_CardinalityType, FS_Subset

LEMMA AuditInit == Init => AuditInv
<1> SUFFICES ASSUME Init PROVE AuditInv
  OBVIOUS
<1>1. \A d : Readers(d) = {} /\ Handing(d) = {}
  BY DEF Init, ServiceInit, Readers, Handing, Idle, Reading, Processes
<1> QED
  BY <1>1, FS_EmptySet, DocumentsAssumption DEF Init, DocumentsInit, AuditInv

LEMMA AuditImplies == AuditInv => AccessIsAudited
<1> SUFFICES ASSUME AuditInv, NEW d \in Documents PROVE handedOut[d] <= audited[d]
  BY DEF AccessIsAudited
<1> QED
  BY Counts DEF AuditInv

\* Where no request begins to read or goes on, there are no more of them.
LEMMA AuditShrinks ==
  ASSUME AuditInv, UNCHANGED <<audited, handedOut>>,
         \A q \in Requests : req'[q] \in Reading => req'[q] = req[q]
  PROVE  AuditInv'
<1> SUFFICES ASSUME NEW d \in Documents
             PROVE  /\ handedOut[d] + Cardinality(Readers(d)') <= MaxReads
                    /\ handedOut[d] + Cardinality(Handing(d)') <= audited[d]
  BY DEF AuditInv
<1>1. Readers(d)' \subseteq Readers(d) /\ Handing(d)' \subseteq Handing(d)
  BY DEF Readers, Handing
<1>2. /\ Cardinality(Readers(d)') <= Cardinality(Readers(d))
      /\ Cardinality(Handing(d)') <= Cardinality(Handing(d))
  BY <1>1, Counts, FS_Subset
<1> QED
  BY <1>2, Counts, CountsNext, DocumentsAssumption DEF AuditInv

LEMMA AuditFrame ==
  ASSUME AuditInv, NEW S, S \cap Reading = {}, Frame(S), UNCHANGED documentVars
  PROVE  AuditInv'
<1>1. \A q \in Requests : req'[q] \in Reading => req'[q] = req[q]
  BY DEF Frame, Processes
<1> QED
  BY <1>1, AuditShrinks DEF documentVars

LEMMA Capped ==
  ASSUME NEW a \in Nat, NEW b \in Nat
  PROVE  Min({a + 1, b}) = IF a + 1 <= b THEN a + 1 ELSE b
<1>1. \E x \in {a + 1, b} : \A y \in {a + 1, b} : x =< y
  <2>1. CASE a + 1 =< b
    BY <2>1
  <2>2. CASE b =< a + 1
    BY <2>2
  <2> QED
    BY <2>1, <2>2
<1>2. Min({a + 1, b}) \in {a + 1, b} /\ \A y \in {a + 1, b} : Min({a + 1, b}) =< y
  BY <1>1 DEF Min
<1> QED
  BY <1>2

LEMMA AuditBegins ==
  ASSUME ReqTyped, AuditInv, NEW r \in Requests, NEW d \in Documents, getDownloadUrl(r, d)
  PROVE  AuditInv'
<1> DEFINE s == [phase |-> "auditLink", document |-> d]
<1>1. s \in Reading /\ s.document = d /\ s.phase \notin {"link", "file"}
  BY DEF Reading
<1> HIDE DEF s
<1>2. /\ req'[r] = s /\ \A q \in Requests \ {r} : req'[q] = req[q]
      /\ UNCHANGED <<audited, handedOut>>
      /\ handedOut[d] + Cardinality({q \in Requests : req[q] \in Reading}) < MaxReads
  BY DEF getDownloadUrl, become, documentVars, ReqTyped, Processes, s
<1> SUFFICES ASSUME NEW c \in Documents
             PROVE  /\ handedOut[c] + Cardinality(Readers(c)') <= MaxReads
                    /\ handedOut[c] + Cardinality(Handing(c)') <= audited[c]
  BY <1>2 DEF AuditInv
<1>3. Handing(c)' \subseteq Handing(c)
  BY <1>1, <1>2 DEF Handing
<1>4. Cardinality(Handing(c)') <= Cardinality(Handing(c))
  BY <1>3, Counts, FS_Subset
<1>5. handedOut[c] + Cardinality(Readers(c)') <= MaxReads
  <2>1. CASE c = d
    <3> DEFINE All == {q \in Requests : req[q] \in Reading}
    <3>1. IsFiniteSet(All) /\ Readers(d) \subseteq All
      BY ServiceAssumption, FS_Subset DEF Readers
    <3>2. Cardinality(Readers(d)) <= Cardinality(All) /\ Cardinality(All) \in Nat
      BY <3>1, FS_Subset, FS_CardinalityType
    <3>3. Readers(d)' \subseteq Readers(d) \cup {r}
      BY <1>2 DEF Readers
    <3>4. IsFiniteSet(Readers(d) \cup {r}) /\ Cardinality(Readers(d) \cup {r}) <= Cardinality(Readers(d)) + 1
      <4>1. IsFiniteSet(Readers(d)) /\ Cardinality(Readers(d)) \in Nat
        BY Counts
      <4>2. /\ IsFiniteSet(Readers(d) \cup {r})
            /\ Cardinality(Readers(d) \cup {r}) = IF r \in Readers(d) THEN Cardinality(Readers(d)) ELSE Cardinality(Readers(d)) + 1
        BY <4>1, FS_AddElement
      <4> QED
        BY <4>1, <4>2
    <3>5. Cardinality(Readers(d)') <= Cardinality(Readers(d)) + 1
      BY <3>3, <3>4, FS_Subset, FS_CardinalityType, Counts, CountsNext
    <3> HIDE DEF All
    <3>6. handedOut[d] + Cardinality(All) < MaxReads
      BY <1>2 DEF All
    <3> QED
      BY <2>1, <3>2, <3>5, <3>6, Counts, CountsNext, DocumentsAssumption DEF AuditInv
  <2>2. CASE c # d
    <3>1. Readers(c)' \subseteq Readers(c)
      BY <1>1, <1>2, <2>2 DEF Readers
    <3>2. Cardinality(Readers(c)') <= Cardinality(Readers(c))
      BY <3>1, Counts, FS_Subset
    <3> QED
      BY <3>2, Counts, CountsNext, DocumentsAssumption DEF AuditInv
  <2> QED
    BY <2>1, <2>2
<1> QED
  BY <1>4, <1>5, Counts, CountsNext DEF AuditInv

\* The entry is written: counted, or the count is at its bound, which leaves
\* room for every read begun.
LEMMA AuditEntered ==
  ASSUME ReqTyped, AuditInv, NEW r \in Requests, req[r] \in Reading, req[r].phase \notin {"link", "file"},
         NEW p \in {"link", "findAgain", "file"},
         audited' = [audited EXCEPT ![req[r].document] = Min({@ + 1, 2 * MaxReads})],
         become(r, [req[r] EXCEPT !.phase = p]), UNCHANGED handedOut
  PROVE  AuditInv'
<1> DEFINE s == [req[r] EXCEPT !.phase = p]
<1>1. s \in Reading /\ s.document = req[r].document /\ req[r].document \in Documents
  BY DEF Reading
<1> HIDE DEF s
<1>2. req'[r] = s /\ \A q \in Requests \ {r} : req'[q] = req[q]
  BY DEF become, ReqTyped, Processes, s
<1>3. Min({audited[req[r].document] + 1, 2 * MaxReads})
        = IF audited[req[r].document] + 1 <= 2 * MaxReads THEN audited[req[r].document] + 1 ELSE 2 * MaxReads
  BY <1>1, Capped, DocumentsAssumption DEF AuditInv
<1>4. /\ audited' \in [Documents -> Nat]
      /\ audited'[req[r].document] = IF audited[req[r].document] + 1 <= 2 * MaxReads
                                     THEN audited[req[r].document] + 1 ELSE 2 * MaxReads
      /\ \A c \in Documents : c # req[r].document => audited'[c] = audited[c]
  BY <1>1, <1>3, DocumentsAssumption DEF AuditInv
<1> SUFFICES ASSUME NEW c \in Documents
             PROVE  /\ handedOut[c] + Cardinality(Readers(c)') <= MaxReads
                    /\ handedOut[c] + Cardinality(Handing(c)') <= audited'[c]
  BY <1>4 DEF AuditInv
<1>5. Readers(c)' \subseteq Readers(c)
  BY <1>1, <1>2 DEF Readers
<1>6. Cardinality(Readers(c)') <= Cardinality(Readers(c))
  BY <1>5, Counts, FS_Subset
<1>7. handedOut[c] + Cardinality(Readers(c)') <= MaxReads
  BY <1>6, Counts, CountsNext, DocumentsAssumption DEF AuditInv
<1>8. handedOut[c] + Cardinality(Handing(c)') <= audited'[c]
  <2>1. CASE c = req[r].document
    <3>1. Handing(c)' \subseteq Handing(c) \cup {r}
      BY <1>2 DEF Handing
    <3>2. IsFiniteSet(Handing(c) \cup {r}) /\ Cardinality(Handing(c) \cup {r}) <= Cardinality(Handing(c)) + 1
      <4>1. IsFiniteSet(Handing(c)) /\ Cardinality(Handing(c)) \in Nat
        BY Counts
      <4>2. /\ IsFiniteSet(Handing(c) \cup {r})
            /\ Cardinality(Handing(c) \cup {r}) = IF r \in Handing(c) THEN Cardinality(Handing(c)) ELSE Cardinality(Handing(c)) + 1
        BY <4>1, FS_AddElement
      <4> QED
        BY <4>1, <4>2
    <3>3. Cardinality(Handing(c)') <= Cardinality(Handing(c)) + 1
      BY <3>1, <3>2, FS_Subset, FS_CardinalityType, Counts, CountsNext
    <3>4. CASE audited[c] + 1 <= 2 * MaxReads
      BY <2>1, <1>4, <3>3, <3>4, Counts, CountsNext DEF AuditInv
    <3>5. CASE ~(audited[c] + 1 <= 2 * MaxReads)
      BY <2>1, <1>4, <1>7, <3>5, Counts, CountsNext, DocumentsAssumption DEF AuditInv
    <3> QED
      BY <3>4, <3>5
  <2>2. CASE c # req[r].document
    <3>1. Handing(c)' \subseteq Handing(c)
      BY <1>1, <1>2, <2>2 DEF Handing
    <3>2. Cardinality(Handing(c)') <= Cardinality(Handing(c))
      BY <3>1, Counts, FS_Subset
    <3> QED
      BY <2>2, <1>4, <3>2, Counts, CountsNext DEF AuditInv
  <2> QED
    BY <2>1, <2>2
<1> QED
  BY <1>7, <1>8

LEMMA AuditSpent ==
  ASSUME ReqTyped, AuditInv, NEW r \in Requests, handOut(r)
  PROVE  AuditInv'
<1>1. req[r] \in Reading /\ req[r].document \in Documents /\ req[r].phase \in {"link", "file"}
  <2>1. req[r] \in Reading
    BY ByPhase DEF handOut, at, ReqTyped, Processes
  <2> QED
    BY <2>1 DEF handOut, at, Reading
<1>2. /\ req'[r] = Idle /\ \A q \in Requests \ {r} : req'[q] = req[q]
      /\ UNCHANGED audited
  BY DEF handOut, become, ReqTyped, Processes
<1>3. Idle \notin Reading
  BY DEF Idle, Reading
<1>4. CASE UNCHANGED handedOut
  BY <1>2, <1>3, <1>4, AuditShrinks
<1>5. CASE handedOut' = [handedOut EXCEPT ![req[r].document] = @ + 1]
  <2>1. /\ handedOut' \in [Documents -> Nat]
        /\ handedOut'[req[r].document] = handedOut[req[r].document] + 1
        /\ \A c \in Documents : c # req[r].document => handedOut'[c] = handedOut[c]
    BY <1>1, <1>5 DEF AuditInv
  <2> SUFFICES ASSUME NEW c \in Documents
               PROVE  /\ handedOut'[c] + Cardinality(Readers(c)') <= MaxReads
                      /\ handedOut'[c] + Cardinality(Handing(c)') <= audited[c]
    BY <1>2, <2>1 DEF AuditInv
  <2>2. /\ Readers(c)' \subseteq Readers(c) \ {r} /\ Handing(c)' \subseteq Handing(c) \ {r}
        /\ c = req[r].document => r \in Readers(c) /\ r \in Handing(c)
    BY <1>1, <1>2, <1>3 DEF Readers, Handing
  <2>3. /\ IsFiniteSet(Readers(c) \ {r}) /\ IsFiniteSet(Handing(c) \ {r})
        /\ Cardinality(Readers(c) \ {r}) = IF r \in Readers(c) THEN Cardinality(Readers(c)) - 1 ELSE Cardinality(Readers(c))
        /\ Cardinality(Handing(c) \ {r}) = IF r \in Handing(c) THEN Cardinality(Handing(c)) - 1 ELSE Cardinality(Handing(c))
    BY Counts, FS_RemoveElement
  <2>4. /\ Cardinality(Readers(c)') <= Cardinality(Readers(c) \ {r})
        /\ Cardinality(Handing(c)') <= Cardinality(Handing(c) \ {r})
    BY <2>2, <2>3, FS_Subset
  <2>5. CASE c = req[r].document
    BY <2>1, <2>2, <2>3, <2>4, <2>5, Counts, CountsNext, DocumentsAssumption DEF AuditInv
  <2>6. CASE c # req[r].document
    BY <2>1, <2>3, <2>4, <2>6, Counts, CountsNext, DocumentsAssumption DEF AuditInv
  <2> QED
    BY <2>5, <2>6
<1> QED
  BY <1>4, <1>5 DEF handOut

LEMMA AuditKeeps ==
  ASSUME ReqTyped, AuditInv, DocumentInv, DocumentsNext
  PROVE  AuditInv'
<1>typed. /\ Requests \subseteq Processes /\ Idle \notin Reading
          /\ Uploading \cap Reading = {} /\ Changing \cap Reading = {} /\ Retyping \cap Reading = {}
  BY DEF Processes, Idle, Reading, Uploading, Changing, Retyping
\* A step of a request that does not read, or that stops reading.
<1>other. ASSUME NEW r \in Requests, NEW s, s \notin Reading, become(r, s), UNCHANGED <<audited, handedOut>>
          PROVE  AuditInv'
  <2>1. \A q \in Requests : req'[q] \in Reading => req'[q] = req[q]
    BY <1>other, <1>typed DEF become, ReqTyped
  <2> QED
    BY <1>other, <2>1, AuditShrinks
<1>1. ASSUME NEW r \in Requests, NEW d \in Documents, NEW type \in Types,
             uploadDocument(r, d, type) \/ updateDocument(r, d, type)
      PROVE  AuditInv'
  BY <1>1, <1>other DEF uploadDocument, updateDocument, documentVars, Reading
<1>2. ASSUME NEW r \in Requests, NEW d \in Documents, NEW status \in {"VERIFIED", "REJECTED", "DELETED"},
             changeDocument(r, d, status)
      PROVE  AuditInv'
  BY <1>2, <1>other DEF changeDocument, documentVars, Reading
<1>3. ASSUME NEW r \in Requests, storeFile(r) PROVE AuditInv'
  <2>1. req[r] \in Uploading
    BY <1>3, DocumentInHand DEF storeFile, at
  <2>2. [req[r] EXCEPT !.phase = "recordFile"] \notin Reading
    BY <2>1 DEF Uploading, Reading
  <2> QED
    BY <1>3, <1>typed, <2>2, <1>other DEF storeFile
<1>4. ASSUME NEW r \in Requests, recordFile(r) \/ writeChange(r) \/ writeUpdate(r) PROVE AuditInv'
  BY <1>4, <1>typed, <1>other DEF recordFile, writeChange, writeUpdate
<1>5. ASSUME NEW r \in Requests, auditLink(r) \/ auditFile(r) PROVE AuditInv'
  <2>1. req[r] \in Reading /\ req[r].phase \notin {"link", "file"}
    BY <1>5, DocumentInHand DEF auditLink, auditFile, at
  <2>2. PICK p \in {"link", "findAgain", "file"} : auditAccess(r, p)
    BY <1>5 DEF auditLink, auditFile
  <2> QED
    BY <1>typed, <2>1, <2>2, <1>other, AuditEntered DEF auditAccess
<1>6. ASSUME NEW r \in Requests, findAgain(r) PROVE AuditInv'
  <2>1. req[r] \in Reading
    BY <1>6, DocumentInHand DEF findAgain, at
  <2> DEFINE s == [req[r] EXCEPT !.phase = "auditFile"]
  <2>2. s \in Reading /\ s.document = req[r].document /\ s.phase = "auditFile"
    BY <2>1 DEF Reading
  <2> HIDE DEF s
  <2>3. (become(r, s) \/ become(r, Idle)) /\ UNCHANGED <<audited, handedOut>>
    BY <1>6 DEF findAgain, documentVars, s
  <2>4. CASE become(r, s)
    <3>1. req'[r] = s /\ \A q \in Requests \ {r} : req'[q] = req[q]
      BY <2>4, <1>typed DEF become, ReqTyped
    <3> SUFFICES ASSUME NEW d \in Documents
                 PROVE  /\ handedOut[d] + Cardinality(Readers(d)') <= MaxReads
                        /\ handedOut[d] + Cardinality(Handing(d)') <= audited[d]
      BY <2>3 DEF AuditInv
    <3>2. Readers(d)' \subseteq Readers(d) /\ Handing(d)' \subseteq Handing(d)
      BY <2>1, <2>2, <3>1 DEF Readers, Handing
    <3>3. /\ Cardinality(Readers(d)') <= Cardinality(Readers(d))
          /\ Cardinality(Handing(d)') <= Cardinality(Handing(d))
      BY <3>2, Counts, FS_Subset
    <3> QED
      BY <3>3, Counts, CountsNext, DocumentsAssumption DEF AuditInv
  <2> QED
    BY <1>typed, <2>3, <2>4, <1>other
<1>7. ASSUME NEW r \in Requests, NEW d \in Documents, NEW status, NEW type, operationsDocument(r, d, status, type)
      PROVE  AuditInv'
  BY <1>7 DEF operationsDocument, AuditInv, Readers, Handing
<1> QED
  BY <1>1, <1>2, <1>3, <1>4, <1>5, <1>6, <1>7, AuditBegins, AuditSpent DEF DocumentsNext, DocumentsStep
-----------------------------------------------------------------------------
(* Operations *)

\* What may put a connection into another environment.
Rewriting == {"environment", "connectionRecord"}

\* The debits a request has summed are not more than the credits by now, and the
\* connection it tests is one to a sandbox.
ReadIsStillSo ==
  \A q \in Processes :
    /\ req[q] \in Summing => req[q].debits <= ledger.credits
    /\ req[q] \in Testing =>
         /\ connection[req[q].connection] # NoConnection
         /\ Without(Rewriting) => connection[req[q].connection].environment = "SANDBOX"

OperationInv ==
  /\ records \in [Tables -> Seq(Nat)]
  /\ connection \in [Connections -> {NoConnection} \cup Connection]
  /\ ledger \in [debits : Nat, credits : Nat] /\ ledger.debits = ledger.credits
  /\ imbalance \in Int /\ NoDebitsToSpare
  /\ ReadIsStillSo /\ TestedIsSandbox

LEMMA OperationInit == Init => OperationInv
  BY DEF Init, ServiceInit, OperationsInit, OperationInv, ReadIsStillSo, TestedIsSandbox, NoDebitsToSpare,
         NoConnection, Idle, Summing, Testing

LEMMA OperationFrame ==
  ASSUME OperationInv, NEW S, S \cap (Summing \cup Testing) = {}, Frame(S), UNCHANGED <<operationsVars, scope>>
  PROVE  OperationInv'
  BY DEF OperationInv, ReadIsStillSo, TestedIsSandbox, NoDebitsToSpare, Without, Frame, operationsVars

LEMMA OperationsKeep ==
  ASSUME ReqTyped, OperationInv, OperationsNext
  PROVE  ReqTyped' /\ Frame(OperationState) /\ OperationInv' /\ UNCHANGED scope
<1> DEFINE Goal == ReqTyped' /\ Frame(OperationState) /\ OperationInv' /\ UNCHANGED scope
<1> SUFFICES Goal
  OBVIOUS
<1>typed. /\ Requests \subseteq Processes /\ Idle \in OperationState /\ Idle \notin Summing \cup Testing
          /\ connection \in [Connections -> {NoConnection} \cup Connection]
          /\ ledger \in [debits : Nat, credits : Nat] /\ ledger.debits = ledger.credits
          /\ \A row \in Connection : row # NoConnection
          /\ Summing \cap Testing = {}
  BY DEF Processes, OperationState, Idle, Summing, Testing, OperationInv, Connection, NoConnection
\* A step that leaves the tables alone.
<1>moved. ASSUME NEW r \in Processes, NEW s \in OperationState, become(r, s),
                 UNCHANGED <<records, connection, ledger, scope>>, imbalance' \in Int, imbalance' <= 0,
                 s \in Summing => s.debits <= ledger.credits,
                 s \in Testing => /\ connection[s.connection] # NoConnection
                                  /\ Without(Rewriting) => connection[s.connection].environment = "SANDBOX"
          PROVE  Goal
  <2>1. /\ ReqTyped' /\ Frame(OperationState)
        /\ req'[r] = s /\ \A q \in Processes \ {r} : req'[q] = req[q]
    BY <1>moved, BecomeFrames, Subsets
  <2>2. ReadIsStillSo'
    BY <1>moved, <2>1 DEF OperationInv, ReadIsStillSo, Without
  <2>3. TestedIsSandbox' /\ NoDebitsToSpare'
    BY <1>moved DEF OperationInv, TestedIsSandbox, NoDebitsToSpare, Without
  <2> QED
    BY <1>moved, <2>1, <2>2, <2>3 DEF OperationInv
\* A step that writes a connection: it keeps the environment, or may change it.
<1>connected. ASSUME NEW c \in Connections, NEW row \in Connection, connection' = [connection EXCEPT ![c] = row],
                     connection[c] # NoConnection /\ Without(Rewriting) =>
                       row.environment = connection[c].environment,
                     row.tested /\ Without(Rewriting) => row.environment = "SANDBOX",
                     UNCHANGED <<records, ledger, imbalance, scope>>,
                     \A q \in Processes : req'[q] = req[q] \/ req'[q] = Idle
              PROVE  OperationInv'
  <2>1. /\ connection' \in [Connections -> {NoConnection} \cup Connection]
        /\ connection'[c] = row /\ \A o \in Connections \ {c} : connection'[o] = connection[o]
    BY <1>typed, <1>connected
  <2>2. ReadIsStillSo'
    <3> SUFFICES ASSUME NEW q \in Processes, req'[q] \in Summing \cup Testing
                 PROVE  /\ req[q] \in Summing => req[q].debits <= ledger.credits
                        /\ req[q] \in Testing =>
                             /\ connection'[req[q].connection] # NoConnection
                             /\ Without(Rewriting) => connection'[req[q].connection].environment = "SANDBOX"
      BY <1>typed, <1>connected DEF ReadIsStillSo, Without
    <3>1. req'[q] = req[q]
      BY <1>typed, <1>connected
    <3>2. req[q] \in Testing => req[q].connection \in Connections
      BY DEF Testing
    <3> QED
      BY <1>typed, <1>connected, <2>1, <3>1, <3>2 DEF OperationInv, ReadIsStillSo
  <2>3. TestedIsSandbox'
    BY <1>connected, <2>1 DEF OperationInv, TestedIsSandbox, Without, Rewriting
  <2> QED
    BY <1>connected, <2>1, <2>2, <2>3 DEF OperationInv, NoDebitsToSpare
<1>0. imbalance \in Int /\ imbalance <= 0
  BY DEF OperationInv, NoDebitsToSpare
<1>1. ASSUME post PROVE Goal
  <2>1. /\ ledger' = [debits |-> ledger.debits + 1, credits |-> ledger.credits + 1]
        /\ UNCHANGED <<records, connection, imbalance, req, scope>>
    BY <1>1 DEF post
  <2>2. /\ ledger' \in [debits : Nat, credits : Nat] /\ ledger'.debits = ledger'.credits
        /\ ledger'.credits = ledger.credits + 1
    BY <1>typed, <2>1
  <2>3. ReadIsStillSo'
    <3>1. \A n \in Int : n <= ledger.credits => n <= ledger'.credits
      BY <1>typed, <2>2
    <3>2. \A q \in Processes : req[q] \in Summing => req[q].debits \in Int
      BY DEF Summing
    <3> QED
      BY <2>1, <3>1, <3>2 DEF OperationInv, ReadIsStillSo, Without
  <2>4. OperationInv'
    BY <2>1, <2>2, <2>3 DEF OperationInv, TestedIsSandbox, NoDebitsToSpare, Without
  <2> QED
    BY <2>1, <2>4, StayFrames, Subsets
<1>2. ASSUME NEW r \in Requests, NEW t \in Tables,
             createRecord(r, t) \/ \E i \in 1..MaxWrites : updateRecord(r, t, i)
      PROVE  Goal
  <2>1. records' \in [Tables -> Seq(Nat)]
    <3>1. CASE createRecord(r, t)
      BY <3>1 DEF createRecord, OperationInv
    <3>2. ASSUME NEW i \in 1..MaxWrites, updateRecord(r, t, i) PROVE records' \in [Tables -> Seq(Nat)]
      <4>1. records[t] \in Seq(Nat) /\ i \in 1..Len(records[t])
        BY <3>2 DEF updateRecord, OperationInv
      <4>2. [records[t] EXCEPT ![i] = @ + 1] \in Seq(Nat)
        BY <4>1
      <4> QED
        BY <3>2, <4>2 DEF updateRecord, OperationInv
    <3> QED
      BY <1>2, <3>1, <3>2
  <2>2. UNCHANGED <<connection, ledger, imbalance, req, scope>>
    BY <1>2 DEF createRecord, updateRecord
  <2>3. OperationInv'
    BY <2>1, <2>2 DEF OperationInv, ReadIsStillSo, TestedIsSandbox, NoDebitsToSpare, Without
  <2> QED
    BY <2>2, <2>3, StayFrames, Subsets
<1>3. ASSUME NEW r \in Requests, NEW c \in Connections, NEW environment \in {"SANDBOX", "PRODUCTION"},
             createConnection(r, c, environment)
      PROVE  Goal
  <2> DEFINE row == [status |-> "DISABLED", environment |-> environment, tested |-> FALSE]
  <2>1. row \in Connection /\ row.tested = FALSE
    BY DEF Connection
  <2> HIDE DEF row
  <2>2. /\ connection' = [connection EXCEPT ![c] = row] /\ connection[c] = NoConnection
        /\ UNCHANGED <<records, ledger, imbalance, req, scope>>
    BY <1>3 DEF createConnection, row
  <2> QED
    BY <2>1, <2>2, <1>connected, StayFrames, Subsets
<1>4. ASSUME NEW r \in Requests, NEW c \in Connections, NEW environment \in {"SANDBOX", "PRODUCTION"},
             NEW status \in {"ENABLED", "DISABLED"}, updateConnection(r, c, status, environment)
      PROVE  Goal
  <2> DEFINE row == [connection[c] EXCEPT !.status = status, !.environment = environment]
  <2>1. connection[c] \in Connection /\ connection[c] # NoConnection /\ connection' = [connection EXCEPT ![c] = row]
    BY <1>4, <1>typed DEF updateConnection
  <2>2. row \in Connection /\ row.tested = connection[c].tested /\ row.environment = environment
    BY <2>1 DEF Connection
  <2> HIDE DEF row
  <2>3. Without(Rewriting) => environment = connection[c].environment
    BY <1>4 DEF updateConnection, Without, Rewriting
  <2>4. connection[c].tested /\ Without(Rewriting) => connection[c].environment = "SANDBOX"
    BY <2>1 DEF OperationInv, TestedIsSandbox, Rewriting
  <2>5. UNCHANGED <<records, ledger, imbalance, req, scope>>
    BY <1>4 DEF updateConnection
  <2> QED
    BY <2>1, <2>2, <2>3, <2>4, <2>5, <1>connected, StayFrames, Subsets
<1>5. ASSUME NEW r \in Requests, NEW c \in Connections, testConnection(r, c) PROVE Goal
  <2> DEFINE s == [phase |-> "markTested", connection |-> c]
  <2>1. s \in Testing /\ s \in OperationState /\ s.connection = c
    BY DEF Testing, OperationState
  <2> HIDE DEF s
  <2>2. /\ become(r, s) /\ connection[c] # NoConnection /\ connection[c].environment = "SANDBOX"
        /\ UNCHANGED <<records, connection, ledger, imbalance, scope>>
    BY <1>5 DEF testConnection, operationsVars, s
  <2> QED
    BY <1>typed, <1>0, <2>1, <2>2, <1>moved
<1>9. ASSUME NEW r \in Requests, NEW c \in Connections, NEW row \in Connection, writeConnection(r, c, row)
      PROVE  Goal
  <2>1. ~Without(Rewriting) /\ UNCHANGED <<records, ledger, imbalance, req, scope>>
    BY <1>9 DEF writeConnection, mayBegin, Without, Rewriting
  <2>2. connection' = [connection EXCEPT ![c] = row]
    BY <1>9 DEF writeConnection
  <2> QED
    BY <2>1, <2>2, <1>connected, StayFrames, Subsets
<1>6. ASSUME NEW r \in Requests, markTested(r) PROVE Goal
  <2>1. req[r] \in Testing /\ r \in Processes
    BY <1>6, <1>typed, ByPhase DEF markTested, at, ReqTyped
  <2>2. PICK c \in Connections : c = req[r].connection
    BY <2>1 DEF Testing
  <2>3. /\ connection[c] # NoConnection /\ connection[c] \in Connection
        /\ Without(Rewriting) => connection[c].environment = "SANDBOX"
    BY <1>typed, <2>1, <2>2 DEF OperationInv, ReadIsStillSo
  <2> DEFINE row == [connection[c] EXCEPT !.status = "ENABLED", !.tested = TRUE]
  <2>4. /\ connection' = [connection EXCEPT ![c] = row] /\ become(r, Idle)
        /\ UNCHANGED <<records, ledger, imbalance, scope>>
    BY <1>6, <1>typed, <2>2 DEF markTested
  <2>5. row \in Connection /\ row.environment = connection[c].environment
    BY <2>3 DEF Connection
  <2> HIDE DEF row
  <2>6. /\ ReqTyped' /\ Frame(OperationState)
        /\ req'[r] = Idle /\ \A q \in Processes \ {r} : req'[q] = req[q]
    BY <1>typed, <2>1, <2>4, BecomeFrames, Subsets
  <2>7. \A q \in Processes : req'[q] = req[q] \/ req'[q] = Idle
    BY <2>6
  <2> QED
    BY <2>3, <2>4, <2>5, <2>6, <2>7, <1>connected
<1>7. ASSUME NEW r \in Requests, sumDebits(r) PROVE Goal
  <2> DEFINE s == [phase |-> "sumCredits", debits |-> ledger.debits]
  <2>1. s \in Summing /\ s \in OperationState /\ s.debits <= ledger.credits
    BY <1>typed DEF Summing, OperationState
  <2> HIDE DEF s
  <2>2. become(r, s) /\ UNCHANGED <<records, connection, ledger, imbalance, scope>>
    BY <1>7 DEF sumDebits, operationsVars, s
  <2> QED
    BY <1>typed, <1>0, <2>1, <2>2, <1>moved
<1>8. ASSUME NEW r \in Requests, sumCredits(r) PROVE Goal
  <2>1. req[r] \in Summing /\ r \in Processes
    BY <1>8, <1>typed, ByPhase DEF sumCredits, at, ReqTyped
  <2>2. req[r].debits \in Int /\ req[r].debits <= ledger.credits
    BY <2>1 DEF Summing, OperationInv, ReadIsStillSo
  <2>3. imbalance' \in Int /\ imbalance' <= 0
    BY <1>8, <1>typed, <2>2 DEF sumCredits
  <2> QED
    BY <1>8, <1>typed, <2>1, <2>3, <1>moved DEF sumCredits
<1> HIDE DEF Goal
<1> QED
  BY <1>1, <1>2, <1>3, <1>4, <1>5, <1>6, <1>7, <1>8, <1>9 DEF OperationsNext
-----------------------------------------------------------------------------
(* The components beside each other *)

PlatformInv ==
  ReqTyped /\ DeliveryInv /\ NoteInv /\ ProgrammeInv /\ DocumentInv /\ AuditInv /\ OperationInv

LEMMA Disjoint ==
  /\ WebhookState \cap (Sending \cup Announcing \cup Announced \cup Uploading \cup Changing \cup Retyping
                          \cup Reading \cup Summing \cup Testing) = {}
  /\ NoteState \cap (Delivering \cup Announcing \cup Announced \cup Uploading \cup Changing \cup Retyping
                       \cup Reading \cup Summing \cup Testing) = {}
  /\ ProgrammeState \cap (Delivering \cup Sending \cup Uploading \cup Changing \cup Retyping
                            \cup Reading \cup Summing \cup Testing) = {}
  /\ DocumentState \cap (Delivering \cup Sending \cup Announcing \cup Announced \cup Summing \cup Testing) = {}
  /\ OperationState \cap (Delivering \cup Sending \cup Announcing \cup Announced \cup Uploading \cup Changing
                            \cup Retyping \cup Reading) = {}
  /\ Idle \notin Delivering \cup Sending \cup Announcing \cup Announced \cup Uploading \cup Changing \cup Retyping
                   \cup Reading \cup Summing \cup Testing
<1> USE DEF Idle, Emitting, Delivering, Sending, Announced, Announcing, Adding, Uploading, Changing,
            Retyping, Reading, Testing, Summing
<1>1. WebhookState \cap (Sending \cup Announcing \cup Announced \cup Uploading \cup Changing \cup Retyping
                           \cup Reading \cup Summing \cup Testing) = {}
  BY DEF WebhookState
<1>2. NoteState \cap (Delivering \cup Announcing \cup Announced \cup Uploading \cup Changing \cup Retyping
                        \cup Reading \cup Summing \cup Testing) = {}
  BY DEF NoteState
<1>3. ProgrammeState \cap (Delivering \cup Sending \cup Uploading \cup Changing \cup Retyping
                             \cup Reading \cup Summing \cup Testing) = {}
  BY DEF ProgrammeState
<1>4. DocumentState \cap (Delivering \cup Sending \cup Announcing \cup Announced \cup Summing \cup Testing) = {}
  BY DEF DocumentState
<1>5. OperationState \cap (Delivering \cup Sending \cup Announcing \cup Announced \cup Uploading \cup Changing
                             \cup Retyping \cup Reading) = {}
  BY DEF OperationState
<1>6. Idle \notin Delivering \cup Sending \cup Announcing \cup Announced \cup Uploading \cup Changing \cup Retyping
                    \cup Reading \cup Summing \cup Testing
  OBVIOUS
<1> QED
  BY <1>1, <1>2, <1>3, <1>4, <1>5, <1>6

LEMMA PlatformInit == Init => PlatformInv
<1>1. Init => ReqTyped
  BY Subsets DEF Init, ServiceInit, ReqTyped
<1> QED
  BY <1>1, DeliveryInit, NoteInit, ProgrammeInit, DocumentInit, AuditInit, OperationInit DEF PlatformInv

LEMMA PlatformStep == PlatformInv /\ [Next]_vars => PlatformInv'
<1> SUFFICES ASSUME PlatformInv, [Next]_vars PROVE PlatformInv'
  OBVIOUS
<1>inv. ReqTyped /\ DeliveryInv /\ NoteInv /\ ProgrammeInv /\ DocumentInv /\ AuditInv /\ OperationInv
  BY DEF PlatformInv
<1>1. ASSUME WebhooksNext, UNCHANGED <<notificationVars, programmeVars, documentVars, operationsVars>>
      PROVE  PlatformInv'
  <2>1. ReqTyped' /\ Frame(WebhookState) /\ DeliveryInv' /\ UNCHANGED <<scope, note>>
    BY <1>inv, <1>1, WebhooksKeep DEF notificationVars
  <2>2. NoteInv' /\ ProgrammeInv' /\ OperationInv' /\ AuditInv' /\ DocumentInv'
    BY <1>inv, <1>1, <2>1, Disjoint, Subsets, NoteFrame, ProgrammeFrame, OperationFrame, AuditFrame, DocumentFrame
  <2> QED
    BY <2>1, <2>2 DEF PlatformInv
<1>2. ASSUME NotificationsNext, UNCHANGED <<webhookVars, programmeVars, documentVars, operationsVars>>
      PROVE  PlatformInv'
  <2>1. ReqTyped' /\ Frame(NoteState) /\ NoteInv' /\ Rewritten /\ UNCHANGED scope
    BY <1>inv, <1>2, NotificationsKeep
  <2>2. DeliveryInv' /\ ProgrammeInv' /\ OperationInv' /\ AuditInv' /\ DocumentInv'
    BY <1>inv, <1>2, <2>1, Disjoint, Subsets, DeliveryFrame, ProgrammeNoteFrame, OperationFrame, AuditFrame,
       DocumentFrame
  <2> QED
    BY <2>1, <2>2 DEF PlatformInv
<1>3. ASSUME ProgrammesNext, UNCHANGED <<webhookVars, notificationVars, documentVars, operationsVars>>
      PROVE  PlatformInv'
  <2>1. ReqTyped' /\ Frame(ProgrammeState) /\ ProgrammeInv' /\ UNCHANGED scope
    BY <1>inv, <1>3, ProgrammesKeep DEF notificationVars
  <2>2. DeliveryInv' /\ NoteInv' /\ OperationInv' /\ AuditInv' /\ DocumentInv'
    BY <1>inv, <1>3, <2>1, Disjoint, Subsets, DeliveryFrame, NoteFrame, OperationFrame, AuditFrame, DocumentFrame
  <2> QED
    BY <2>1, <2>2 DEF PlatformInv
<1>4. ASSUME DocumentsNext, UNCHANGED <<webhookVars, notificationVars, programmeVars, operationsVars>>
      PROVE  PlatformInv'
  <2>1. ReqTyped' /\ Frame(DocumentState) /\ DocumentInv' /\ AuditInv' /\ UNCHANGED <<scope, note>>
    BY <1>inv, <1>4, DocumentsKeep, AuditKeeps DEF notificationVars
  <2>2. DeliveryInv' /\ NoteInv' /\ ProgrammeInv' /\ OperationInv'
    BY <1>inv, <1>4, <2>1, Disjoint, DeliveryFrame, NoteFrame, ProgrammeFrame, OperationFrame
  <2> QED
    BY <2>1, <2>2 DEF PlatformInv
<1>5. ASSUME OperationsNext, UNCHANGED <<webhookVars, notificationVars, programmeVars, documentVars>>
      PROVE  PlatformInv'
  <2>1. ReqTyped' /\ Frame(OperationState) /\ OperationInv' /\ UNCHANGED <<scope, note>>
    BY <1>inv, <1>5, OperationsKeep DEF notificationVars
  <2>2. DeliveryInv' /\ NoteInv' /\ ProgrammeInv' /\ AuditInv' /\ DocumentInv'
    BY <1>inv, <1>5, <2>1, Disjoint, Subsets, DeliveryFrame, NoteFrame, ProgrammeFrame, AuditFrame, DocumentFrame
  <2> QED
    BY <2>1, <2>2 DEF PlatformInv
\* A stop of the process, or nothing: requests end or stay.
<1>6. ASSUME crash \/ UNCHANGED vars PROVE PlatformInv'
  <2>1. /\ UNCHANGED <<webhookVars, notificationVars, programmeVars, documentVars, operationsVars, scope, note>>
        /\ \A q \in Processes : req'[q] = req[q] \/ req'[q] \in {Idle}
        /\ ReqTyped'
    BY <1>inv, <1>6, Subsets DEF crash, vars, notificationVars, ReqTyped
  <2>2. Frame({Idle}) /\ {Idle} \in SUBSET State
    BY <2>1, Subsets DEF Frame
  <2>3. DeliveryInv' /\ NoteInv' /\ ProgrammeInv' /\ OperationInv' /\ AuditInv' /\ DocumentInv'
    BY <1>inv, <2>1, <2>2, Disjoint, DeliveryFrame, NoteFrame, ProgrammeFrame, OperationFrame, AuditFrame,
       DocumentFrame
  <2> QED
    BY <2>1, <2>3 DEF PlatformInv
<1> QED
  BY <1>1, <1>2, <1>3, <1>4, <1>5, <1>6 DEF Next

LEMMA PlatformInvariant == Spec => []PlatformInv
<1> QED
  BY PlatformInit, PlatformStep, PTL DEF Spec

\* Participants once, announced programmes published, files stored, audited and
\* verified, tested connections to a sandbox and no debits to spare: for every
\* number of requests, whatever overlaps, fails or stops.  The documents and
\* connections that operations.service writes itself have no file or test behind
\* them, and the properties named leave them out.
THEOREM RecordsAreTrue == Spec => []RecordsHold
<1>1. PlatformInv => RecordsHold
  <2>1. ProgrammeInv => ParticipatesOnce /\ AnnouncedWasPublished
    BY DEF ProgrammeInv, ParticipatesOnce
  <2>2. DocumentInv => RecordHasFile /\ IdentityIsVerified
    BY DEF DocumentInv
  <2>3. OperationInv => TestedIsSandbox /\ NoDebitsToSpare
    BY DEF OperationInv
  <2> QED
    BY <2>1, <2>2, <2>3, AuditImplies DEF PlatformInv, RecordsHold
<1> QED
  BY <1>1, PlatformInvariant, PTL
-----------------------------------------------------------------------------
(* What is final stays so *)

\* A notification past its read is not cancelled.
Uncancelled ==
  \A q \in Processes : req[q].phase \in {"mark", "dispatch", "store"} => note[req[q].note].status # "CANCELLED"

\* One request at most works on documents, and finds its row as it was read.
OneOnDocuments ==
  /\ \A q, s \in Processes :
       req[q] \in DocumentState \ {Idle} /\ req[s] \in DocumentState \ {Idle} => q = s
  /\ \A q \in Processes :
       /\ req[q] \in Uploading => document[req[q].document] = NoDocument
       /\ req[q] \in Changing \cup Retyping => document[req[q].document].status # "DELETED"

SerialInv == Without({"overlap"}) => Uncancelled /\ OneOnDocuments

NotesStay == \A n \in Notes : note[n].status = "CANCELLED" => note'[n].status = "CANCELLED"
DocumentsStay == \A d \in Documents : document[d].status = "DELETED" => document'[d].status = "DELETED"
EvidenceStays == \A t \in Tables \cap appendOnly : IsPrefix(records[t], records'[t])

LEMMA SerialInit == Init => SerialInv
  BY DEF Init, ServiceInit, SerialInv, Uncancelled, OneOnDocuments, Idle, Uploading, Changing, Retyping

\* Steps that end requests or move those of other components.
LEMMA UncancelledFrame ==
  ASSUME ReqTyped, Uncancelled, NEW S \in SUBSET State, S \cap Sending = {}, Frame(S), UNCHANGED note
  PROVE  Uncancelled'
<1>1. \A s \in S : s.phase \notin {"mark", "dispatch", "store"}
  BY ByPhase
<1> QED
  BY <1>1 DEF Uncancelled, Frame

LEMMA OneOnDocumentsFrame ==
  ASSUME ReqTyped, OneOnDocuments, NEW S, S \cap (Uploading \cup Changing \cup Retyping \cup Reading) = {},
         Frame(S), UNCHANGED document
  PROVE  OneOnDocuments'
<1>1. \A s \in S : s \notin DocumentState \ {Idle}
  BY DEF DocumentState
<1> QED
  BY <1>1 DEF OneOnDocuments, Frame

LEMMA NotesFinal ==
  ASSUME ReqTyped, NoteInv, Uncancelled, Without({"overlap"}), NotificationsNext
  PROVE  Uncancelled' /\ (Without({"patch"}) => NotesStay)
<1> DEFINE Goal == Uncancelled' /\ (Without({"patch"}) => NotesStay)
<1> SUFFICES Goal
  OBVIOUS
<1>typed. /\ Requests \subseteq Processes /\ req \in [Processes -> State]
          /\ note \in [Notes -> {NoNote} \cup Note] /\ NoNote.status = "NONE"
          /\ Idle.phase = "idle"
          /\ \A q \in Processes : req[q].phase \in {"mark", "dispatch", "store"} =>
               req[q].note \in Notes /\ note[req[q].note] # NoNote
  <2>1. ASSUME NEW q \in Processes, req[q].phase \in {"mark", "dispatch", "store"}
        PROVE  req[q].note \in Notes /\ note[req[q].note] # NoNote
    BY <2>1, MailInHand
  <2> QED
    BY <2>1 DEF Processes, ReqTyped, NoteInv, NoNote, Idle
\* A step that writes new rows at most.
<1>new. ASSUME NEW r \in Processes, NEW s, become(r, s) \/ UNCHANGED req, s.phase \notin {"mark", "dispatch", "store"},
               \A n \in Notes : note[n] # NoNote => note'[n] = note[n]
        PROVE  Goal
  <2>1. \A q \in Processes : req'[q] = req[q] \/ req'[q] = s
    BY <1>new, <1>typed DEF become
  <2>2. Uncancelled'
    BY <1>new, <1>typed, <2>1 DEF Uncancelled
  <2>3. NotesStay
    BY <1>new, <1>typed DEF NotesStay
  <2> QED
    BY <2>2, <2>3
<1>newNote. ASSUME NEW n \in Notes, NEW st, NEW channel, NEW about, newNote(n, st, channel, about)
            PROVE  \A m \in Notes : note[m] # NoNote => note'[m] = note[m]
  BY <1>newNote, <1>typed DEF newNote
<1>throw. ASSUME NEW r \in Processes, throw(r)
          PROVE  \A m \in Notes : note[m] # NoNote => note'[m] = note[m]
  BY <1>throw, <1>newNote DEF throw
\* A step that writes the row of the request into a status that is not CANCELLED.
<1>own. ASSUME NEW r \in Processes, NEW s, become(r, s), NEW n \in Notes, NEW row,
               row.status # "CANCELLED", note[n].status # "CANCELLED",
               note' = [note EXCEPT ![n] = row],
               s.phase \in {"mark", "dispatch", "store"} => s.note = n
        PROVE  Goal
  <2>1. req'[r] = s /\ \A q \in Processes \ {r} : req'[q] = req[q]
    BY <1>own, <1>typed DEF become
  <2>2. note'[n] = row /\ \A m \in Notes \ {n} : note'[m] = note[m]
    BY <1>own, <1>typed
  <2>3. Uncancelled'
    BY <1>own, <1>typed, <2>1, <2>2 DEF Uncancelled
  <2>4. NotesStay
    BY <1>own, <2>2 DEF NotesStay
  <2> QED
    BY <2>3, <2>4
<1>1. ASSUME NEW r \in Requests, NEW n \in Notes, NEW channel \in Channels,
             createNotification(r, n, channel) \/ sendTemplate(r, n, channel)
      PROVE  Goal
  <2>1. sending(n, "audit", FALSE).phase = "audit"
    BY DEF sending
  <2> QED
    BY <1>1, <1>typed, <2>1, <1>new, <1>newNote DEF createNotification, sendTemplate
<1>2. ASSUME NEW r \in Requests, NEW n \in Notes, NEW occasion \in Occasions,
             createLifecycleEmail(r, n, occasion) \/ skipLifecycleEmail(r, n, occasion)
      PROVE  Goal
  <2>1. sending(n, "audit", TRUE).phase = "audit"
    BY DEF sending
  <2> QED
    BY <1>2, <1>typed, <2>1, <1>new, <1>newNote DEF createLifecycleEmail, skipLifecycleEmail
<1>3. ASSUME NEW r \in Requests, NEW n \in Notes, sendNotification(r, n) PROVE Goal
  <2>1. sending(n, "read", FALSE).phase = "read"
    BY DEF sending
  <2> QED
    BY <1>3, <1>typed, <2>1, <1>new DEF sendNotification, notificationVars
\* Nothing else runs when a row is cancelled.
<1>4. ASSUME NEW r \in Requests, NEW n \in Notes, cancelNotification(r, n) PROVE Goal
  <2>1. Quiet /\ UNCHANGED req
    BY <1>4 DEF cancelNotification, mayBegin, Without
  <2>2. Uncancelled'
    BY <1>typed, <2>1 DEF Uncancelled, Quiet
  <2>3. note' = [note EXCEPT ![n].status = "CANCELLED"] /\ note[n] \in Note
    BY <1>4, <1>typed DEF cancelNotification
  <2>4. NotesStay
    BY <1>typed, <2>3 DEF NotesStay, Note
  <2> QED
    BY <2>2, <2>4
<1>5. ASSUME NEW r \in Requests, NEW n \in Notes, NEW status \in {"PENDING", "SENT", "FAILED", "CANCELLED"},
             NEW channel \in Channels,
             operationsCreate(r, n, status, channel) \/ operationsUpdate(r, n, status, channel)
      PROVE  Goal
  <2>1. "patch" \in scope /\ Quiet /\ UNCHANGED req
    BY <1>5 DEF operationsCreate, operationsUpdate, mayBegin, Without
  <2>2. Uncancelled'
    BY <1>typed, <2>1 DEF Uncancelled, Quiet
  <2> QED
    BY <2>1, <2>2 DEF Without
<1>6. ASSUME NEW r \in Requests, auditCreation(r) PROVE Goal
  <2>1. req[r] \in Sending /\ r \in Processes
    BY <1>6, <1>typed, MailInHand DEF auditCreation, at
  <2>2. [req[r] EXCEPT !.phase = "read"].phase = "read"
    BY <2>1 DEF Sending
  <2> QED
    BY <1>6, <1>typed, <2>1, <2>2, <1>new, <1>throw DEF auditCreation
<1>7. ASSUME NEW r \in Requests, readNotification(r) PROVE Goal
  <2>1. req[r] \in Sending /\ r \in Processes /\ req[r].note \in Notes
    BY <1>7, <1>typed, MailInHand DEF readNotification, at
  <2> DEFINE a == note[req[r].note].attempts + 1
             b == note[req[r].note].status = "FAILED"
             c == note[req[r].note].channel
             s == [req[r] EXCEPT !.phase = "mark", !.channel = c, !.attempts = a, !.failed = b]
  <2>2. ASSUME become(r, s), UNCHANGED note, note[req[r].note].status # "CANCELLED" PROVE Goal
    <3>1. s.note = req[r].note
      BY <2>1 DEF Sending
    <3> HIDE DEF s
    <3>2. req'[r] = s /\ \A q \in Processes \ {r} : req'[q] = req[q]
      BY <1>typed, <2>1, <2>2 DEF become
    <3>3. Uncancelled' /\ NotesStay
      BY <2>2, <3>1, <3>2 DEF Uncancelled, NotesStay
    <3> QED
      BY <3>3
  <2> QED
    BY <1>7, <1>typed, <2>1, <2>2, <1>new, <1>throw DEF readNotification
<1>8. ASSUME NEW r \in Requests, markSending(r) PROVE Goal
  <2> DEFINE st == IF req[r].failed THEN "RETRYING" ELSE "SENDING"
             row == [note[req[r].note] EXCEPT !.attempts = req[r].attempts, !.status = st]
             s == [req[r] EXCEPT !.phase = "dispatch"]
  <2>1. req[r] \in Sending /\ r \in Processes /\ req[r].note \in Notes /\ note[req[r].note] \in Note
    BY <1>8, <1>typed, MailInHand DEF markSending, at
  <2>2. note' = [note EXCEPT ![req[r].note] = row] /\ become(r, s)
    BY <1>8, <1>typed, <2>1 DEF markSending
  <2>3. row.status # "CANCELLED" /\ s.note = req[r].note
    BY <2>1 DEF Sending, Note
  <2>4. note[req[r].note].status # "CANCELLED"
    BY <1>8, <2>1 DEF markSending, at, Uncancelled
  <2> HIDE DEF row, s
  <2> QED
    BY <2>1, <2>2, <2>3, <2>4, <1>own
<1>9. ASSUME NEW r \in Requests, dispatch(r) PROVE Goal
  <2>1. req[r] \in Sending /\ r \in Processes /\ req[r].note \in Notes /\ note[req[r].note].status # "CANCELLED"
    BY <1>9, <1>typed, MailInHand DEF dispatch, at, Uncancelled
  <2>2. PICK ok \in BOOLEAN : become(r, [req[r] EXCEPT !.phase = "store", !.ok = ok])
    BY <1>9 DEF dispatch
  <2> DEFINE s == [req[r] EXCEPT !.phase = "store", !.ok = ok]
  <2>3. s.note = req[r].note
    BY <2>1 DEF Sending
  <2> HIDE DEF s
  <2>4. req'[r] = s /\ \A q \in Processes \ {r} : req'[q] = req[q]
    BY <1>typed, <2>1, <2>2 DEF become, s
  <2>5. UNCHANGED note
    BY <1>9 DEF dispatch
  <2>6. Uncancelled' /\ NotesStay
    BY <2>1, <2>3, <2>4, <2>5 DEF Uncancelled, NotesStay
  <2> QED
    BY <2>6
<1>10. ASSUME NEW r \in Requests, storeResult(r) PROVE Goal
  <2> DEFINE st == IF req[r].ok THEN "SENT" ELSE "FAILED"
             row == [note[req[r].note] EXCEPT !.status = st]
             s == [req[r] EXCEPT !.phase = "written"]
  <2>1. req[r] \in Sending /\ r \in Processes /\ req[r].note \in Notes /\ note[req[r].note] \in Note
    BY <1>10, <1>typed, MailInHand DEF storeResult, at
  <2>2. note' = [note EXCEPT ![req[r].note] = row] /\ become(r, s)
    BY <1>10, <1>typed, <2>1 DEF storeResult
  <2>3. row.status # "CANCELLED" /\ s.note = req[r].note
    BY <2>1 DEF Sending, Note
  <2>4. note[req[r].note].status # "CANCELLED"
    BY <1>10, <2>1 DEF storeResult, at, Uncancelled
  <2> HIDE DEF row, s
  <2> QED
    BY <2>1, <2>2, <2>3, <2>4, <1>own
<1>11. ASSUME NEW r \in Requests, logSending(r) PROVE Goal
  BY <1>11, <1>typed, <1>new, <1>throw DEF logSending
<1> HIDE DEF Goal
<1> QED
  BY <1>1, <1>2, <1>3, <1>4, <1>5, <1>6, <1>7, <1>8, <1>9, <1>10, <1>11 DEF NotificationsNext, NotificationsStep

LEMMA DocumentsFinal ==
  ASSUME ReqTyped, DocumentInv, OneOnDocuments, Without({"overlap"}), DocumentsNext
  PROVE  OneOnDocuments' /\ DocumentsStay
<1> DEFINE Goal == OneOnDocuments' /\ DocumentsStay
<1> SUFFICES Goal
  OBVIOUS
<1>typed. /\ Requests \subseteq Processes /\ req \in [Processes -> State]
          /\ document \in [Documents -> {NoDocument} \cup Document] /\ NoDocument.status = "NONE"
          /\ Idle \in DocumentState
          /\ \A s \in Uploading : s \in DocumentState \ {Idle} /\ s \notin Changing \cup Retyping
          /\ \A s \in Reading : s \in DocumentState \ {Idle} /\ s \notin Uploading \cup Changing \cup Retyping
          /\ \A s \in Changing \cup Retyping : s \in DocumentState \ {Idle} /\ s \notin Uploading
          /\ Idle \notin Uploading \cup Changing \cup Retyping
  BY DEF Processes, ReqTyped, DocumentInv, NoDocument, DocumentState, Idle, Uploading, Changing, Retyping, Reading
\* The request that begins is the only one.
<1>begins. ASSUME NEW r \in Requests, NEW op, mayBegin(r, op), NEW s \in State, become(r, s), UNCHANGED document,
                  s \in Uploading => document[s.document] = NoDocument,
                  s \in Changing \cup Retyping => document[s.document].status # "DELETED"
           PROVE  Goal
  <2>1. \A q \in Processes : req[q] = Idle
    BY <1>begins DEF mayBegin, Without, Quiet
  <2>2. r \in Processes /\ req'[r] = s /\ \A q \in Processes \ {r} : req'[q] = Idle
    BY <1>begins, <1>typed, <2>1 DEF become
  <2>3. OneOnDocuments'
    BY <1>begins, <1>typed, <2>2 DEF OneOnDocuments
  <2>4. DocumentsStay
    BY <1>begins DEF DocumentsStay
  <2> QED
    BY <2>3, <2>4
\* The request that goes on is the only one that may write a row.
<1>goes. ASSUME NEW r \in Processes, req[r] \in DocumentState \ {Idle}, NEW s \in DocumentState, become(r, s),
                s \in Uploading => req[r] \in Uploading /\ s.document = req[r].document /\ UNCHANGED document,
                s \notin Changing \cup Retyping
         PROVE  OneOnDocuments'
  <2>1. req'[r] = s /\ \A q \in Processes \ {r} : req'[q] = req[q] /\ req[q] \notin DocumentState \ {Idle}
    BY <1>goes, <1>typed DEF become, OneOnDocuments
  <2> QED
    BY <1>goes, <1>typed, <2>1 DEF OneOnDocuments
\* A row that is written was not deleted.
<1>written. ASSUME NEW d \in Documents, NEW row, document' = [document EXCEPT ![d] = row],
                   document[d].status # "DELETED"
            PROVE  DocumentsStay
  BY <1>written, <1>typed DEF DocumentsStay
<1>1. ASSUME NEW r \in Requests, NEW d \in Documents, NEW type \in Types, uploadDocument(r, d, type) PROVE Goal
  <2> DEFINE s == [phase |-> "storeFile", document |-> d, type |-> type]
  <2>1. s \in Uploading /\ s.document = d /\ s \in State
    BY Subsets DEF Uploading, State, DocumentState
  <2> HIDE DEF s
  <2> QED
    BY <1>1, <1>typed, <2>1, <1>begins DEF uploadDocument, documentVars, s
<1>2. ASSUME NEW r \in Requests, NEW d \in Documents, NEW status \in {"VERIFIED", "REJECTED", "DELETED"},
             changeDocument(r, d, status)
      PROVE  Goal
  <2> DEFINE s == [phase |-> "changeDocument", document |-> d, status |-> status]
  <2>1. s \in Changing /\ s.document = d /\ s \in State
    BY DEF Changing, State, DocumentState
  <2> HIDE DEF s
  <2> QED
    BY <1>2, <1>typed, <2>1, <1>begins DEF changeDocument, findDocument, documentVars, s
<1>3. ASSUME NEW r \in Requests, NEW d \in Documents, NEW type \in Types, updateDocument(r, d, type) PROVE Goal
  <2> DEFINE s == [phase |-> "retypeDocument", document |-> d, type |-> type]
  <2>1. s \in Retyping /\ s.document = d /\ s \in State
    BY DEF Retyping, State, DocumentState
  <2> HIDE DEF s
  <2> QED
    BY <1>3, <1>typed, <2>1, <1>begins DEF updateDocument, findDocument, documentVars, s
<1>4. ASSUME NEW r \in Requests, NEW d \in Documents, getDownloadUrl(r, d) PROVE Goal
  <2> DEFINE s == [phase |-> "auditLink", document |-> d]
  <2>1. s \in Reading /\ s \in State
    BY DEF Reading, State, DocumentState
  <2> HIDE DEF s
  <2> QED
    BY <1>4, <1>typed, <2>1, <1>begins DEF getDownloadUrl, documentVars, s
<1>5. ASSUME NEW r \in Requests, storeFile(r) PROVE Goal
  <2>1. req[r] \in Uploading /\ r \in Processes
    BY <1>5, DocumentInHand DEF storeFile, at
  <2> DEFINE s == [req[r] EXCEPT !.phase = "recordFile"]
  <2>2. s \in Uploading /\ s.document = req[r].document
    BY <2>1 DEF Uploading
  <2> HIDE DEF s
  <2>3. (become(r, s) \/ become(r, Idle)) /\ UNCHANGED document
    BY <1>5 DEF storeFile, s
  <2> QED
    BY <1>typed, <2>1, <2>2, <2>3, <1>goes DEF DocumentsStay
<1>6. ASSUME NEW r \in Requests, recordFile(r) PROVE Goal
  <2>1. req[r] \in Uploading /\ r \in Processes /\ req[r].document \in Documents
    BY <1>6, DocumentInHand DEF recordFile, at
  <2>2. document[req[r].document].status # "DELETED"
    BY <1>typed, <2>1 DEF OneOnDocuments
  <2>3. OneOnDocuments'
    BY <1>6, <1>typed, <2>1, <1>goes DEF recordFile
  <2>4. DocumentsStay
    BY <1>6, <2>1, <2>2, <1>written DEF recordFile, DocumentsStay
  <2> QED
    BY <2>3, <2>4
<1>7. ASSUME NEW r \in Requests, writeChange(r) \/ writeUpdate(r) PROVE Goal
  <2>1. req[r] \in Changing \cup Retyping /\ r \in Processes /\ req[r].document \in Documents
    BY <1>7, DocumentInHand DEF writeChange, writeUpdate, at
  <2>2. document[req[r].document].status # "DELETED"
    BY <2>1 DEF OneOnDocuments
  <2>3. OneOnDocuments'
    BY <1>7, <1>typed, <2>1, <1>goes DEF writeChange, writeUpdate
  <2>4. \E row : document' = [document EXCEPT ![req[r].document] = row]
    BY <1>7 DEF writeChange, writeUpdate
  <2>5. DocumentsStay
    BY <2>1, <2>2, <2>4, <1>written
  <2> QED
    BY <2>3, <2>5
<1>8. ASSUME NEW r \in Requests, auditLink(r) \/ auditFile(r) \/ findAgain(r) \/ handOut(r) PROVE Goal
  <2>1. req[r] \in Reading /\ r \in Processes
    BY <1>8, DocumentInHand DEF auditLink, auditFile, findAgain, handOut, at
  <2>2. \A p \in {"link", "findAgain", "auditFile", "file"} : [req[r] EXCEPT !.phase = p] \in Reading
    BY <2>1 DEF Reading
  <2>3. UNCHANGED document /\ \E s \in {Idle} \cup Reading : become(r, s)
    <3>1. CASE auditLink(r)
      BY <3>1, <2>2 DEF auditLink, auditAccess
    <3>2. CASE auditFile(r)
      BY <3>2, <2>2 DEF auditFile, auditAccess
    <3>3. CASE findAgain(r)
      BY <3>3, <2>2 DEF findAgain, documentVars
    <3>4. CASE handOut(r)
      BY <3>4 DEF handOut
    <3> QED
      BY <1>8, <3>1, <3>2, <3>3, <3>4
  <2> QED
    BY <1>typed, <2>1, <2>3, <1>goes DEF DocumentsStay
<1>9. ASSUME NEW r \in Requests, NEW d \in Documents, NEW status, NEW type, operationsDocument(r, d, status, type)
      PROVE  Goal
  <2>1. Quiet /\ UNCHANGED req /\ document[d].status # "DELETED"
    BY <1>9, <1>typed DEF operationsDocument, mayBegin, Without
  <2>2. OneOnDocuments'
    BY <1>typed, <2>1 DEF OneOnDocuments, Quiet
  <2>3. DocumentsStay
    BY <1>9, <2>1, <1>written DEF operationsDocument
  <2> QED
    BY <2>2, <2>3
<1> HIDE DEF Goal
<1> QED
  BY <1>1, <1>2, <1>3, <1>4, <1>5, <1>6, <1>7, <1>8, <1>9 DEF DocumentsNext, DocumentsStep

LEMMA EvidenceAppended ==
  ASSUME OperationInv, OperationsNext
  PROVE  EvidenceStays
<1> SUFFICES ASSUME NEW t \in Tables, t \in appendOnly PROVE IsPrefix(records[t], records'[t])
  BY DEF EvidenceStays
<1>1. records \in [Tables -> Seq(Nat)] /\ records[t] \in Seq(Nat)
  BY DEF OperationInv
<1>2. IsPrefix(records[t], records[t]) /\ IsPrefix(records[t], Append(records[t], 0))
  <2>1. \A x \in Seq(Nat) : IsPrefix(x, x) /\ IsPrefix(x, Append(x, 0))
    BY DEF IsPrefix
  <2> QED
    BY <1>1, <2>1
<1>3. \/ records' = records
      \/ \E u \in Tables : records' = [records EXCEPT ![u] = Append(@, 0)]
      \/ \E u \in Tables : u \notin appendOnly /\ \E i : records' = [records EXCEPT ![u][i] = @ + 1]
  BY DEF OperationsNext, post, markTested, sumDebits, sumCredits, createRecord, updateRecord, testConnection,
         createConnection, updateConnection, writeConnection, operationsVars
<1> QED
  BY <1>1, <1>2, <1>3

LEMMA SerialStep ==
  ASSUME PlatformInv, SerialInv, [Next]_vars
  PROVE  /\ SerialInv'
         /\ Without({"overlap", "patch"}) => NotesStay
         /\ Without({"overlap"}) => DocumentsStay
         /\ EvidenceStays
<1> DEFINE Goal == /\ SerialInv'
                   /\ Without({"overlap", "patch"}) => NotesStay
                   /\ Without({"overlap"}) => DocumentsStay
                   /\ EvidenceStays
<1> SUFFICES Goal
  OBVIOUS
<1>inv. ReqTyped /\ DeliveryInv /\ NoteInv /\ ProgrammeInv /\ DocumentInv /\ OperationInv
  BY DEF PlatformInv
<1>scopes. Without({"overlap", "patch"}) => Without({"overlap"}) /\ Without({"patch"})
  BY DEF Without
<1>same. /\ UNCHANGED note => NotesStay
         /\ UNCHANGED document => DocumentsStay
         /\ UNCHANGED records => EvidenceStays
  <2>1. \A x \in Seq(Nat) : IsPrefix(x, x)
    BY DEF IsPrefix
  <2> QED
    BY <1>inv, <2>1 DEF NotesStay, DocumentsStay, EvidenceStays, OperationInv
<1>idle. Idle \in State /\ {Idle} \in SUBSET State
  BY Subsets
\* A step of none of the two components.
<1>other. ASSUME NEW S \in SUBSET State, Frame(S),
                 S \cap (Sending \cup Uploading \cup Changing \cup Retyping \cup Reading) = {},
                 UNCHANGED <<note, document, scope>>, EvidenceStays
          PROVE  Goal
  <2>1. Without({"overlap"}) => Uncancelled' /\ OneOnDocuments'
    BY <1>inv, <1>other, UncancelledFrame, OneOnDocumentsFrame DEF SerialInv
  <2>2. SerialInv'
    BY <1>other, <2>1 DEF SerialInv, Without
  <2> QED
    BY <1>other, <1>same, <2>2
<1>1. ASSUME WebhooksNext, UNCHANGED <<notificationVars, programmeVars, documentVars, operationsVars>> PROVE Goal
  BY <1>1, <1>inv, <1>same, <1>other, WebhooksKeep, Subsets, Disjoint
     DEF notificationVars, documentVars, operationsVars
<1>2. ASSUME ProgrammesNext, UNCHANGED <<webhookVars, notificationVars, documentVars, operationsVars>> PROVE Goal
  BY <1>2, <1>inv, <1>same, <1>other, ProgrammesKeep, Subsets, Disjoint
     DEF notificationVars, documentVars, operationsVars
<1>3. ASSUME OperationsNext, UNCHANGED <<webhookVars, notificationVars, programmeVars, documentVars>> PROVE Goal
  BY <1>3, <1>inv, <1>other, OperationsKeep, EvidenceAppended, Subsets, Disjoint DEF notificationVars, documentVars
<1>4. ASSUME NotificationsNext, UNCHANGED <<webhookVars, programmeVars, documentVars, operationsVars>> PROVE Goal
  <2>1. Frame(NoteState) /\ UNCHANGED <<document, records, scope>>
    BY <1>4, <1>inv, NotificationsKeep DEF documentVars, operationsVars
  <2>2. Without({"overlap"}) => Uncancelled' /\ OneOnDocuments' /\ (Without({"patch"}) => NotesStay)
    BY <1>4, <1>inv, <2>1, NotesFinal, OneOnDocumentsFrame, Disjoint DEF SerialInv
  <2>3. SerialInv'
    BY <2>1, <2>2 DEF SerialInv, Without
  <2> QED
    BY <1>scopes, <1>same, <2>1, <2>2, <2>3
<1>5. ASSUME DocumentsNext, UNCHANGED <<webhookVars, notificationVars, programmeVars, operationsVars>> PROVE Goal
  <2>1. Frame(DocumentState) /\ UNCHANGED <<note, records, scope>>
    BY <1>5, <1>inv, DocumentsKeep DEF notificationVars, operationsVars
  <2>2. Without({"overlap"}) => Uncancelled' /\ OneOnDocuments' /\ DocumentsStay
    BY <1>5, <1>inv, <2>1, DocumentsFinal, UncancelledFrame, Subsets, Disjoint DEF SerialInv
  <2>3. SerialInv'
    BY <2>1, <2>2 DEF SerialInv, Without
  <2> QED
    BY <1>same, <2>1, <2>2, <2>3
<1>6. ASSUME crash \/ UNCHANGED vars PROVE Goal
  <2>1. /\ UNCHANGED <<note, document, records, scope>>
        /\ \A q \in Processes : req'[q] = req[q] \/ req'[q] \in {Idle}
    BY <1>6 DEF crash, vars, notificationVars, documentVars, operationsVars
  <2>2. Frame({Idle})
    BY <2>1 DEF Frame
  <2> QED
    BY <1>idle, <1>same, <1>other, <2>1, <2>2, Disjoint
<1> HIDE DEF Goal
<1> QED
  BY <1>1, <1>2, <1>3, <1>4, <1>5, <1>6 DEF Next

\* A cancelled notification is not sent after all and a deleted document is not
\* brought back, where requests do not overlap and no operator writes the row
\* itself, and what was recorded as evidence is only added to, whatever does.
THEOREM FinalIsFinal == Spec => FinalStaysFinal
<1>1. Init => SerialInv
  BY SerialInit
<1>2. PlatformInv /\ SerialInv /\ [Next]_vars => SerialInv'
  BY SerialStep
<1>3. Spec => []SerialInv
  BY <1>1, <1>2, PlatformInvariant, PTL DEF Spec
<1>4. PlatformInv /\ SerialInv /\ [Next]_vars =>
        /\ [Without({"overlap", "patch"}) =>
              \A n \in Notes : note[n].status = "CANCELLED" => note'[n].status = "CANCELLED"]_<<note, req, scope>>
        /\ [Without({"overlap"}) =>
              \A d \in Documents : document[d].status = "DELETED" => document'[d].status = "DELETED"]_<<document, req, scope>>
        /\ [\A t \in Tables \cap appendOnly : IsPrefix(records[t], records'[t])]_<<records, req, scope>>
  BY SerialStep DEF NotesStay, DocumentsStay, EvidenceStays
<1> QED
  BY <1>3, <1>4, PlatformInvariant, PTL DEF Spec, FinalStaysFinal, CancelledIsFinal, DeletedStaysDeleted, EvidenceIsKept
-----------------------------------------------------------------------------
(* One request at a time: attempts, calls and messages *)

OnDelivery(q, d) == req[q] \in Delivering /\ req[q].delivery = d

\* Of a delivery at rest: the attempts shown are the calls made, and another one
\* that is announced has a time and is allowed.
Settled(d) ==
  /\ delivery[d].attempts = calls[d]
  /\ delivery[d].status = "RETRYING" => delivery[d].due /\ delivery[d].attempts < MaxRetries

\* What a process that works on a delivery has counted.
Counted(s) ==
  /\ s.phase = "deliver" => delivery[s.delivery].attempts = calls[s.delivery]
  /\ s.phase = "call" => s.attempts = calls[s.delivery] + 1
  /\ s.phase \in {"update", "log", "catch"} => s.attempts = calls[s.delivery]
  /\ s.phase = "log" => Settled(s.delivery)

CountInv ==
  /\ \A d \in Deliveries : delivery[d] = NoDelivery => calls[d] = 0
  /\ \A q, p \in Processes : \A d \in Deliveries : OnDelivery(q, d) /\ OnDelivery(p, d) => q = p
  /\ \A q \in Processes : req[q] \in Delivering => Counted(req[q])
  /\ \A d \in Deliveries : delivery[d] # NoDelivery /\ (\A q \in Processes : ~OnDelivery(q, d)) => Settled(d)

\* The background only delivers, each process its own delivery.
OwnDelivery == \A d \in Background : req[d] = Idle \/ (d \in Deliveries /\ OnDelivery(d, d))

OneAtWork == \A q, p \in Requests : req[q] # Idle /\ req[p] # Idle => q = p

\* What was taken once is not taken again: it is shown as sent or cancelled, or is
\* about to be.
SentInv ==
  /\ \A n \in Notes : sent[n] <= 1
  /\ \A n \in Notes : sent[n] > 0 =>
       \/ note[n].status \in {"SENT", "CANCELLED"}
       \/ \E q \in Requests : at(q, "store") /\ req[q].note = n /\ req[q].ok
  /\ \A q \in Requests :
       at(q, "mark") \/ at(q, "dispatch") \/ (at(q, "store") /\ ~req[q].ok) => sent[req[q].note] = 0

CallsTyped ==
  calls \in [Deliveries -> Nat] /\ endpoint \in [Endpoints -> {NoEndpoint} \cup Endpoint]

AtOnceInv ==
  /\ CallsTyped /\ OwnDelivery
  /\ Without({"overlap"}) => OneAtWork
  /\ Without({"overlap", "crash"}) => CountInv
  /\ Without({"overlap", "lost", "crash", "patch"}) => SentInv

\* A step in which one request at most moves: it was in one of the states given, or
\* begins.
Takes(S) ==
  \E r \in Requests :
    /\ \A q \in Processes \ {r} : req'[q] = req[q]
    /\ req'[r] = req[r] \/ req[r] \in S \ {Idle} \/ (req[r] = Idle /\ ("overlap" \in scope \/ Quiet))

LEMMA MoveTakes ==
  ASSUME ReqTyped, NEW S, NEW r \in Requests,
         UNCHANGED req \/ \E s : become(r, s),
         (\E op : mayBegin(r, op)) \/ req[r] \in S \ {Idle}
  PROVE  Takes(S)
<1>1. \A q \in Processes \ {r} : req'[q] = req[q]
  BY DEF become, ReqTyped
<1>2. req[r] \in S \ {Idle} \/ (req[r] = Idle /\ ("overlap" \in scope \/ Quiet))
  BY DEF mayBegin
<1> QED
  BY <1>1, <1>2 DEF Takes

\* What a request is, by the phase it is at.
LEMMA AtPhase ==
  ASSUME ReqTyped, NEW r \in Requests
  PROVE  /\ \A p \in {"audit", "read", "mark", "dispatch", "store", "written"} : at(r, p) => req[r] \in Sending \ {Idle}
         /\ at(r, "announce") => req[r] \in Announced \ {Idle}
         /\ \A p \in {"setStatus", "auditStatus", "readAgain"} : at(r, p) => req[r] \in Announcing \ {Idle}
         /\ at(r, "addParticipant") => req[r] \in Adding \ {Idle}
         /\ \A p \in {"storeFile", "recordFile", "changeDocument", "retypeDocument", "auditLink", "link", "findAgain",
                      "auditFile", "file"} : at(r, p) => req[r] \in DocumentState \ {Idle}
         /\ \A p \in {"markTested", "sumCredits"} : at(r, p) => req[r] \in OperationState \ {Idle}
<1> DEFINE s == req[r]
<1>1. s \in State
  BY DEF ReqTyped, Processes
<1>2. Idle.phase = "idle"
  BY DEF Idle
<1> HIDE DEF s
<1>3. /\ s.phase \in {"audit", "read", "mark", "dispatch", "store", "written"} => s \in Sending
      /\ s.phase = "announce" => s \in Announced
      /\ s.phase \in {"setStatus", "auditStatus", "readAgain"} => s \in Announcing
      /\ s.phase = "addParticipant" => s \in Adding
      /\ s.phase \in {"storeFile", "recordFile"} => s \in Uploading
      /\ s.phase = "changeDocument" => s \in Changing
      /\ s.phase = "retypeDocument" => s \in Retyping
      /\ s.phase \in {"auditLink", "link", "findAgain", "auditFile", "file"} => s \in Reading
      /\ s.phase = "markTested" => s \in Testing
      /\ s.phase = "sumCredits" => s \in Summing
  BY <1>1, ByPhase
<1> QED
  BY <1>2, <1>3 DEF at, s, DocumentState, OperationState

LEMMA NotificationsTake ==
  ASSUME ReqTyped, NotificationsNext
  PROVE  Takes(Sending \cup Announced)
<1> DEFINE S == Sending \cup Announced
<1> SUFFICES Takes(S)
  OBVIOUS
<1>1. PICK r \in Requests :
        \/ NotificationsStep(r)
        \/ \E n \in Notes :
             \/ \E channel \in Channels : createNotification(r, n, channel) \/ sendTemplate(r, n, channel)
             \/ \E occasion \in Occasions :
                  createLifecycleEmail(r, n, occasion) \/ skipLifecycleEmail(r, n, occasion)
             \/ sendNotification(r, n) \/ cancelNotification(r, n)
             \/ \E status \in {"PENDING", "SENT", "FAILED", "CANCELLED"}, channel \in Channels :
                  operationsCreate(r, n, status, channel) \/ operationsUpdate(r, n, status, channel)
  BY DEF NotificationsNext
<1>2. UNCHANGED req \/ \E s : become(r, s)
  BY <1>1 DEF NotificationsStep, auditCreation, readNotification, markSending, dispatch, storeResult, logSending,
              createNotification, sendTemplate, createLifecycleEmail, skipLifecycleEmail, sendNotification,
              cancelNotification, operationsCreate, operationsUpdate
<1>3. (\E op : mayBegin(r, op)) \/ (\E p \in {"audit", "read", "mark", "dispatch", "store", "written", "announce"} : at(r, p))
  BY <1>1 DEF NotificationsStep, auditCreation, readNotification, markSending, dispatch, storeResult, logSending,
              createNotification, sendTemplate, createLifecycleEmail, skipLifecycleEmail, sendNotification,
              cancelNotification, operationsCreate, operationsUpdate, announcing
<1> QED
  BY <1>2, <1>3, AtPhase, MoveTakes

LEMMA ProgrammesTake ==
  ASSUME ReqTyped, ProgrammesNext
  PROVE  Takes(Announcing \cup Adding)
<1> DEFINE S == Announcing \cup Adding
<1> SUFFICES Takes(S)
  OBVIOUS
<1>1. PICK r \in Requests :
        \/ ProgrammesStep(r)
        \/ \E p \in Programmes :
             \/ \E anchor \in Counterparties, published \in BOOLEAN :
                  \/ createProgramme(r, p, anchor, published)
                  \/ \E status \in ProgrammeStatus : updateProgramme(r, p, status, anchor, published)
             \/ \E status \in {"ACTIVE", "SUSPENDED", "CLOSED"} : setStatus(r, p, status)
             \/ \E c \in Counterparties : addParticipant(r, p, c)
  BY DEF ProgrammesNext
<1>2. UNCHANGED req \/ \E s : become(r, s)
  BY <1>1 DEF ProgrammesStep, insertParticipant, writeStatus, auditStatus, readAgain, createProgramme, updateProgramme,
              setStatus, addParticipant
<1>3. (\E op : mayBegin(r, op)) \/ (\E p \in {"setStatus", "auditStatus", "readAgain", "addParticipant"} : at(r, p))
  BY <1>1 DEF ProgrammesStep, insertParticipant, writeStatus, auditStatus, readAgain, createProgramme, updateProgramme,
              setStatus, addParticipant
<1> QED
  BY <1>2, <1>3, AtPhase, MoveTakes

LEMMA DocumentsTake ==
  ASSUME ReqTyped, DocumentsNext
  PROVE  Takes(DocumentState)
<1>1. PICK r \in Requests :
        \/ DocumentsStep(r)
        \/ \E d \in Documents :
             \/ getDownloadUrl(r, d)
             \/ \E type \in Types : uploadDocument(r, d, type) \/ updateDocument(r, d, type)
             \/ \E status \in {"VERIFIED", "REJECTED", "DELETED"} : changeDocument(r, d, status)
             \/ \E row \in Document : operationsDocument(r, d, row.status, row.type)
  BY DEF DocumentsNext
<1>2. UNCHANGED req \/ \E s : become(r, s)
  BY <1>1 DEF DocumentsStep, storeFile, recordFile, writeChange, writeUpdate, auditLink, auditAccess, findAgain,
              auditFile, handOut, getDownloadUrl, uploadDocument, updateDocument, changeDocument, operationsDocument
<1>3. \/ \E op : mayBegin(r, op)
      \/ \E p \in {"storeFile", "recordFile", "changeDocument", "retypeDocument", "auditLink", "link", "findAgain",
                   "auditFile", "file"} : at(r, p)
  BY <1>1 DEF DocumentsStep, storeFile, recordFile, writeChange, writeUpdate, auditLink, findAgain,
              auditFile, handOut, getDownloadUrl, uploadDocument, updateDocument, changeDocument, operationsDocument
<1> QED
  BY <1>2, <1>3, AtPhase, MoveTakes

\* A posting moves no request.
LEMMA OperationsTake ==
  ASSUME ReqTyped, OperationsNext
  PROVE  Takes(OperationState) \/ UNCHANGED req
<1>1. CASE post
  BY <1>1 DEF post
<1>2. CASE ~post
  <2>1. PICK r \in Requests :
          \/ markTested(r) \/ sumDebits(r) \/ sumCredits(r)
          \/ \E t \in Tables : createRecord(r, t) \/ \E i \in 1..MaxWrites : updateRecord(r, t, i)
          \/ \E c \in Connections :
               \/ testConnection(r, c)
               \/ \E row \in Connection : writeConnection(r, c, row)
               \/ \E environment \in {"SANDBOX", "PRODUCTION"} :
                    \/ createConnection(r, c, environment)
                    \/ \E status \in {"ENABLED", "DISABLED"} : updateConnection(r, c, status, environment)
    BY <1>2 DEF OperationsNext
  <2>2. UNCHANGED req \/ \E s : become(r, s)
    BY <2>1 DEF markTested, sumDebits, sumCredits, createRecord, updateRecord, testConnection, createConnection,
                updateConnection, writeConnection
  <2>3. (\E op : mayBegin(r, op)) \/ (\E p \in {"markTested", "sumCredits"} : at(r, p))
    BY <2>1 DEF markTested, sumDebits, sumCredits, createRecord, updateRecord, testConnection, createConnection,
                updateConnection, writeConnection
  <2> QED
    BY <2>2, <2>3, AtPhase, MoveTakes
<1> QED
  BY <1>1, <1>2

\* The requests of another component leave the deliveries under way alone.
LEMMA DeliveriesUnderWay ==
  ASSUME ReqTyped, NEW S, S \cap Delivering = {}, Takes(S), NEW T, T \cap Delivering = {}, Frame(T)
  PROVE  /\ \A q \in Processes : req[q] \in Delivering \/ req'[q] \in Delivering => req'[q] = req[q]
         /\ \A d \in Background : req'[d] = req[d]
         /\ \A q \in Processes, d \in Deliveries : OnDelivery(q, d)' <=> OnDelivery(q, d)
<1>1. PICK r \in Requests :
        /\ \A q \in Processes \ {r} : req'[q] = req[q]
        /\ req'[r] = req[r] \/ req[r] \in S \ {Idle} \/ (req[r] = Idle /\ ("overlap" \in scope \/ Quiet))
  BY DEF Takes
<1>2. r \in Processes /\ r \notin Background /\ Background \subseteq Processes
  BY WebhooksAssumption DEF Processes
<1>3. req'[r] = req[r] \/ (req[r] \notin Delivering /\ req'[r] \notin Delivering)
  BY <1>1, <1>2 DEF Frame, Idle, Delivering
<1> QED
  BY <1>1, <1>2, <1>3 DEF OnDelivery

LEMMA OneStaysAtWork ==
  ASSUME OneAtWork, NEW S, Takes(S), Without({"overlap"})
  PROVE  OneAtWork'
<1>1. PICK r \in Requests :
        /\ \A q \in Processes \ {r} : req'[q] = req[q]
        /\ req'[r] = req[r] \/ req[r] \in S \ {Idle} \/ (req[r] = Idle /\ ("overlap" \in scope \/ Quiet))
  BY DEF Takes
<1>2. req'[r] = req[r] \/ \A q \in Requests \ {r} : req[q] = Idle
  BY <1>1 DEF OneAtWork, Without, Quiet, Processes
<1> QED
  BY <1>1, <1>2 DEF OneAtWork, Processes

LEMMA OthersKeepDeliveries ==
  ASSUME ReqTyped, CallsTyped, OwnDelivery, UNCHANGED webhookVars,
         NEW S, S \cap Delivering = {}, Takes(S), NEW T, T \cap Delivering = {}, Frame(T)
  PROVE  /\ CallsTyped' /\ OwnDelivery'
         /\ CountInv => CountInv'
<1>1. /\ \A q \in Processes : req[q] \in Delivering \/ req'[q] \in Delivering => req'[q] = req[q]
      /\ \A d \in Background : req'[d] = req[d]
      /\ \A q \in Processes, d \in Deliveries : OnDelivery(q, d)' <=> OnDelivery(q, d)
  BY DeliveriesUnderWay
<1>2. UNCHANGED <<delivery, calls, endpoint>>
  BY DEF webhookVars
<1>3. CallsTyped'
  BY <1>2 DEF CallsTyped
<1>4. OwnDelivery'
  BY <1>1 DEF OwnDelivery, OnDelivery
<1>5. ASSUME CountInv PROVE CountInv'
  <2>1. \A d \in Deliveries : delivery'[d] = NoDelivery => calls'[d] = 0
    BY <1>2, <1>5 DEF CountInv
  <2>2. \A q, p \in Processes : \A d \in Deliveries : OnDelivery(q, d)' /\ OnDelivery(p, d)' => q = p
    BY <1>1, <1>5 DEF CountInv
  <2>3. \A q \in Processes : req'[q] \in Delivering => Counted(req[q])'
    <3> SUFFICES ASSUME NEW q \in Processes, req'[q] \in Delivering PROVE Counted(req[q])'
      OBVIOUS
    <3>1. Counted(req[q]) /\ req'[q] = req[q]
      BY <1>1, <1>5 DEF CountInv
    <3> QED
      BY <1>2, <3>1 DEF Counted, Settled
  <2>4. \A d \in Deliveries : delivery'[d] # NoDelivery /\ (\A q \in Processes : ~OnDelivery(q, d)') => Settled(d)'
    BY <1>1, <1>2, <1>5 DEF CountInv, Settled
  <2> QED
    BY <2>1, <2>2, <2>3, <2>4 DEF CountInv
<1> QED
  BY <1>3, <1>4, <1>5
-----------------------------------------------------------------------------
LEMMA CallsStayTyped ==
  ASSUME CallsTyped, WebhooksNext
  PROVE  CallsTyped'
<1>1. ASSUME UNCHANGED <<endpoint, calls>> PROVE CallsTyped'
  BY <1>1 DEF CallsTyped
<1>2. ASSUME NEW r \in Processes, WebhooksStep(r) PROVE CallsTyped'
  <2>1. UNCHANGED endpoint
    BY <1>2 DEF WebhooksStep, emitted, deliver, call, storeAnswer, logDelivery, storeFailure, startDelivery, webhookVars
  <2>2. UNCHANGED calls \/ \E d : calls' = [calls EXCEPT ![d] = @ + 1]
    BY <1>2 DEF WebhooksStep, emitted, deliver, call, storeAnswer, logDelivery, storeFailure, startDelivery, webhookVars
  <2> QED
    BY <2>1, <2>2 DEF CallsTyped
<1>3. ASSUME NEW r \in Requests, NEW e \in Endpoints, NEW events \in Subscriptions,
             \/ createEndpoint(r, e, events)
             \/ \E status \in {"ACTIVE", "DISABLED"} : updateEndpoint(r, e, status, events)
      PROVE  CallsTyped'
  <2>1. \A status \in {"ACTIVE", "DISABLED"} : [status |-> status, events |-> events] \in Endpoint
    BY DEF Endpoint
  <2>2. PICK row \in Endpoint : endpoint' = [endpoint EXCEPT ![e] = row]
    BY <1>3, <2>1 DEF createEndpoint, updateEndpoint
  <2>3. UNCHANGED calls
    BY <1>3 DEF createEndpoint, updateEndpoint
  <2> QED
    BY <2>2, <2>3 DEF CallsTyped
<1>4. ASSUME NEW r \in Requests, NEW e \in Endpoints, deleteEndpoint(r, e) PROVE CallsTyped'
  <2>1. /\ endpoint[e] \in Endpoint /\ UNCHANGED calls
        /\ endpoint' = [endpoint EXCEPT ![e] = [endpoint[e] EXCEPT !.status = "DISABLED"]]
    BY <1>4 DEF deleteEndpoint, CallsTyped
  <2>2. [endpoint[e] EXCEPT !.status = "DISABLED"] \in Endpoint
    BY <2>1 DEF Endpoint
  <2> QED
    BY <2>1, <2>2 DEF CallsTyped
<1>5. ASSUME NEW r \in Requests, NEW eventType \in EventTypes, emit(r, eventType) PROVE CallsTyped'
  BY <1>5, <1>1 DEF emit, webhookVars
<1>6. ASSUME NEW r \in Requests, NEW d \in Deliveries, retryDelivery(r, d) \/ cancelDelivery(r, d) PROVE CallsTyped'
  BY <1>6, <1>1 DEF retryDelivery, cancelDelivery
<1> QED
  BY <1>2, <1>3, <1>4, <1>5, <1>6 DEF WebhooksNext

\* A process that works on a delivery, by its phase.
LEMMA DeliveryInHand ==
  ASSUME ReqTyped, DeliveryInv, NEW r \in Processes,
         req[r].phase \in {"deliver", "call", "update", "log", "catch"}
  PROVE  /\ req[r] \in Delivering /\ req[r].delivery \in Deliveries /\ req[r].attempts \in Nat
         /\ delivery[req[r].delivery] # NoDelivery /\ delivery[req[r].delivery] \in Delivery
<1>1. req[r] \in Delivering
  BY ByPhase DEF ReqTyped
<1> QED
  BY <1>1 DEF DeliveryInv, HeardIsReceived, Delivering

\* The one that starts a delivery is a request, and the process of the delivery is free.
LEMMA StartIsFree ==
  ASSUME ReqTyped, DeliveryInv, OwnDelivery, NEW r \in Processes, NEW d \in Deliveries, startDelivery(r, d)
  PROVE  /\ r \in Requests /\ d \in Processes /\ d # r
         /\ req[d] = Idle /\ req[r] \in Emitting /\ delivery[d] = NoDelivery
         /\ req'[r] \in Emitting /\ req'[d] = delivering(d, "deliver")
         /\ \A q \in Processes \ {r, d} : req'[q] = req[q]
<1>1. req[r] \in Emitting /\ d \in Processes /\ delivery[d] = NoDelivery
  BY ByPhase, WebhooksAssumption DEF startDelivery, at, ReqTyped, Processes
<1>2. r \in Requests
  BY <1>1 DEF OwnDelivery, OnDelivery, Processes, Idle, Emitting, Delivering
<1>3. d \in Background /\ d # r
  BY <1>2, WebhooksAssumption
<1>4. req[d] = Idle
  BY <1>1, <1>3 DEF OwnDelivery, OnDelivery, DeliveryInv, HeardIsReceived
<1>5. PICK e \in req[r].todo :
        req' = [req EXCEPT ![r] = [req[r] EXCEPT !.todo = @ \ {e}], ![d] = delivering(d, "deliver")]
  BY <1>1 DEF startDelivery, ReqTyped
<1>6. [req[r] EXCEPT !.todo = @ \ {e}] \in Emitting
  BY <1>1 DEF Emitting
<1> QED
  BY <1>1, <1>2, <1>3, <1>4, <1>5, <1>6 DEF ReqTyped

\* One step of a process on its delivery leaves it on the delivery, or ends.
LEMMA StepsOnDelivery ==
  ASSUME ReqTyped, DeliveryInv, NEW r \in Processes,
         deliver(r) \/ call(r) \/ storeAnswer(r) \/ logDelivery(r) \/ storeFailure(r)
  PROVE  /\ req[r] \in Delivering /\ req[r].delivery \in Deliveries
         /\ \A q \in Processes \ {r} : req'[q] = req[q]
         /\ req'[r] = Idle \/ (req'[r] \in Delivering /\ req'[r].delivery = req[r].delivery)
<1>1. /\ req[r] \in Delivering /\ req[r].delivery \in Deliveries
      /\ delivery[req[r].delivery] \in Delivery
  BY DeliveryInHand DEF deliver, call, storeAnswer, logDelivery, storeFailure, at
<1>2. ASSUME deliver(r) PROVE \E s \in Delivering : become(r, s) /\ s.delivery = req[r].delivery
  <2> DEFINE n == delivery[req[r].delivery].attempts + 1
  <2>1. n \in Nat
    BY <1>1 DEF Delivery
  <2>2. become(r, [req[r] EXCEPT !.phase = "call", !.attempts = n])
    BY <1>2 DEF deliver
  <2> HIDE DEF n
  <2>3. /\ [req[r] EXCEPT !.phase = "call", !.attempts = n] \in Delivering
        /\ [req[r] EXCEPT !.phase = "call", !.attempts = n].delivery = req[r].delivery
    BY <1>1, <2>1 DEF Delivering
  <2> QED
    BY <2>2, <2>3
<1>3. ASSUME call(r) PROVE \E s \in Delivering : become(r, s) /\ s.delivery = req[r].delivery
  <2>1. PICK p \in {"update", "catch"}, b \in BOOLEAN : become(r, [req[r] EXCEPT !.phase = p, !.ok = b])
    BY <1>3 DEF call
  <2>2. /\ [req[r] EXCEPT !.phase = p, !.ok = b] \in Delivering
        /\ [req[r] EXCEPT !.phase = p, !.ok = b].delivery = req[r].delivery
    BY <1>1 DEF Delivering
  <2> QED
    BY <2>1, <2>2
<1>4. ASSUME storeAnswer(r) \/ logDelivery(r) \/ storeFailure(r)
      PROVE  become(r, Idle) \/ \E s \in Delivering : become(r, s) /\ s.delivery = req[r].delivery
  <2>1. \/ become(r, Idle)
        \/ \E p \in {"log", "catch"} : become(r, [req[r] EXCEPT !.phase = p])
    BY <1>4 DEF storeAnswer, logDelivery, storeFailure
  <2>2. \A p \in {"log", "catch"} : /\ [req[r] EXCEPT !.phase = p] \in Delivering
                                    /\ [req[r] EXCEPT !.phase = p].delivery = req[r].delivery
    BY <1>1 DEF Delivering
  <2> QED
    BY <2>1, <2>2
<1>5. PICK s : become(r, s) /\ (s = Idle \/ (s \in Delivering /\ s.delivery = req[r].delivery))
  BY <1>2, <1>3, <1>4
<1> QED
  BY <1>1, <1>5 DEF become, ReqTyped

\* The operators' requests, and those that emit.
LEMMA OtherWebhookSteps ==
  ASSUME ReqTyped, WebhooksNext,
         ~ \E r \in Processes : \/ deliver(r) \/ call(r) \/ storeAnswer(r) \/ logDelivery(r) \/ storeFailure(r)
                                \/ \E d \in Deliveries : startDelivery(r, d)
  PROVE  \E r \in Processes :
           \/ emitted(r)
           \/ r \in Requests /\ \/ \E e \in Endpoints :
                                     \/ deleteEndpoint(r, e)
                                     \/ \E events \in Subscriptions :
                                          \/ createEndpoint(r, e, events)
                                          \/ \E status \in {"ACTIVE", "DISABLED"} : updateEndpoint(r, e, status, events)
                                \/ \E eventType \in EventTypes : emit(r, eventType)
                                \/ \E d \in Deliveries : retryDelivery(r, d) \/ cancelDelivery(r, d)
<1>1. Requests \subseteq Processes
  BY DEF Processes
<1> QED
  BY <1>1 DEF WebhooksNext, WebhooksStep

LEMMA OwnDeliveryStays ==
  ASSUME ReqTyped, DeliveryInv, OwnDelivery, WebhooksNext
  PROVE  OwnDelivery'
<1>own. Background \subseteq Processes /\ Requests \cap Background = {} /\ Deliveries \subseteq Background
  BY WebhooksAssumption DEF Processes
<1>1. ASSUME NEW r \in Processes, deliver(r) \/ call(r) \/ storeAnswer(r) \/ logDelivery(r) \/ storeFailure(r)
      PROVE  OwnDelivery'
  BY <1>1, <1>own, StepsOnDelivery DEF OwnDelivery, OnDelivery, Idle, Delivering
<1>2. ASSUME NEW r \in Processes, NEW d \in Deliveries, startDelivery(r, d) PROVE OwnDelivery'
  <2>1. /\ r \in Requests /\ req'[d] = delivering(d, "deliver")
        /\ \A q \in Processes \ {r, d} : req'[q] = req[q]
    BY <1>2, StartIsFree
  <2>2. delivering(d, "deliver") \in Delivering /\ delivering(d, "deliver").delivery = d
    BY DeliveringIsCalling
  <2>3. OnDelivery(d, d)'
    BY <2>1, <2>2 DEF OnDelivery
  <2>4. \A c \in Background \ {d} : req'[c] = req[c]
    BY <1>own, <2>1
  <2> QED
    BY <2>3, <2>4 DEF OwnDelivery, OnDelivery
<1>3. ASSUME NEW r \in Processes, emitted(r) PROVE OwnDelivery'
  BY <1>3, <1>own DEF emitted, become, OwnDelivery, OnDelivery, ReqTyped
<1>4. ASSUME NEW r \in Requests, UNCHANGED req \/ \E s : become(r, s) PROVE OwnDelivery'
  BY <1>4, <1>own DEF become, OwnDelivery, OnDelivery, ReqTyped
<1>5. ASSUME NEW r \in Requests,
             \/ \E e \in Endpoints :
                  \/ deleteEndpoint(r, e)
                  \/ \E events \in Subscriptions :
                       \/ createEndpoint(r, e, events)
                       \/ \E status \in {"ACTIVE", "DISABLED"} : updateEndpoint(r, e, status, events)
             \/ \E eventType \in EventTypes : emit(r, eventType)
             \/ \E d \in Deliveries : retryDelivery(r, d) \/ cancelDelivery(r, d)
      PROVE  OwnDelivery'
  BY <1>4, <1>5 DEF deleteEndpoint, createEndpoint, updateEndpoint, emit, retryDelivery, cancelDelivery
<1> QED
  BY <1>1, <1>2, <1>3, <1>5, OtherWebhookSteps

LEMMA OneDeliversAtWork ==
  ASSUME ReqTyped, DeliveryInv, OwnDelivery, OneAtWork, WebhooksNext, Without({"overlap"})
  PROVE  OneAtWork'
<1>own. Requests \subseteq Processes
  BY DEF Processes
<1>moves. ASSUME NEW r \in Processes, \A q \in Requests \ {r} : req'[q] = req[q],
                 \/ UNCHANGED req
                 \/ \A q \in Requests \ {r} : req[q] = Idle
                 \/ r \notin Requests
                 \/ req[r] # Idle
          PROVE  OneAtWork'
  BY <1>moves DEF OneAtWork
<1>1. ASSUME NEW r \in Processes, deliver(r) \/ call(r) \/ storeAnswer(r) \/ logDelivery(r) \/ storeFailure(r)
      PROVE  OneAtWork'
  BY <1>1, <1>own, <1>moves, StepsOnDelivery DEF Idle, Delivering
<1>2. ASSUME NEW r \in Processes, NEW d \in Deliveries, startDelivery(r, d) PROVE OneAtWork'
  BY <1>2, <1>own, <1>moves, StartIsFree, WebhooksAssumption DEF Idle, Emitting
<1>3. ASSUME NEW r \in Processes, emitted(r) PROVE OneAtWork'
  <2>1. req[r] # Idle
    BY <1>3 DEF emitted, at, Idle
  <2> QED
    BY <1>3, <1>own, <1>moves, <2>1 DEF emitted, become, ReqTyped
<1>4. ASSUME NEW r \in Requests, UNCHANGED req \/ \E s : become(r, s), \E op : mayBegin(r, op) PROVE OneAtWork'
  <2>1. \A q \in Requests : req[q] = Idle
    BY <1>4, <1>own DEF mayBegin, Quiet, Without
  <2> QED
    BY <1>4, <1>own, <1>moves, <2>1 DEF become, ReqTyped
<1>5. ASSUME NEW r \in Requests,
             \/ \E e \in Endpoints :
                  \/ deleteEndpoint(r, e)
                  \/ \E events \in Subscriptions :
                       \/ createEndpoint(r, e, events)
                       \/ \E status \in {"ACTIVE", "DISABLED"} : updateEndpoint(r, e, status, events)
             \/ \E eventType \in EventTypes : emit(r, eventType)
             \/ \E d \in Deliveries : retryDelivery(r, d) \/ cancelDelivery(r, d)
      PROVE  OneAtWork'
  <2>1. UNCHANGED req \/ \E s : become(r, s)
    BY <1>5 DEF deleteEndpoint, createEndpoint, updateEndpoint, emit, retryDelivery, cancelDelivery
  <2>2. \E op : mayBegin(r, op)
    BY <1>5 DEF deleteEndpoint, createEndpoint, updateEndpoint, emit, retryDelivery, cancelDelivery
  <2> QED
    BY <1>4, <2>1, <2>2
<1> QED
  BY <1>1, <1>2, <1>3, <1>5, OtherWebhookSteps

\* A stored attempt shows its number, and another one only within the limit.
LEMMA AttemptedIsCounted ==
  ASSUME DeliveryInv, NEW q \in Delivering, delivery[q.delivery] # NoDelivery, NEW b \in BOOLEAN
  PROVE  /\ attempted(q, b)[q.delivery].attempts = q.attempts
         /\ attempted(q, b)[q.delivery].status = "RETRYING" =>
              attempted(q, b)[q.delivery].due /\ q.attempts < MaxRetries
<1>1. PICK st \in {"DELIVERED", "FAILED", "RETRYING"} :
        st = IF b THEN "DELIVERED" ELSE IF q.attempts >= MaxRetries THEN "FAILED" ELSE "RETRYING"
  OBVIOUS
<1>2. q.delivery \in Deliveries /\ q.attempts \in Nat /\ MaxRetries \in Nat
  BY WebhooksAssumption DEF Delivering
<1>3. /\ delivery[q.delivery] \in Delivery
      /\ delivery \in [Deliveries -> {NoDelivery} \cup Delivery]
  BY <1>2 DEF DeliveryInv
<1> DEFINE row == [[[delivery[q.delivery] EXCEPT !.attempts = q.attempts] EXCEPT !.status = st]
                     EXCEPT !.due = (st = "RETRYING")]
<1>4. attempted(q, b) = [delivery EXCEPT ![q.delivery] = row]
  BY <1>1, <1>2, <1>3 DEF attempted
<1>5. row.attempts = q.attempts /\ row.status = st /\ row.due = (st = "RETRYING")
  BY <1>1, <1>2, <1>3 DEF Delivery
<1>6. st = "RETRYING" => q.attempts < MaxRetries
  BY <1>1, <1>2
<1> HIDE DEF row
<1>7. attempted(q, b)[q.delivery] = row
  BY <1>2, <1>3, <1>4
<1> QED
  BY <1>5, <1>6, <1>7

LEMMA CountOneDelivery ==
  ASSUME ReqTyped, CountInv, NEW r \in Processes, NEW d \in Deliveries, OnDelivery(r, d),
         \A q \in Processes \ {r} : req'[q] = req[q],
         \A e \in Deliveries \ {d} : delivery'[e] = delivery[e] /\ calls'[e] = calls[e],
         delivery'[d] # NoDelivery,
         \/ req'[r] = Idle /\ Settled(d)'
         \/ OnDelivery(r, d)' /\ Counted(req[r])'
  PROVE  CountInv'
<1>1. /\ \A q \in Processes \ {r} : ~OnDelivery(q, d) /\ ~OnDelivery(q, d)'
      /\ \A q \in Processes \ {r}, e \in Deliveries : OnDelivery(q, e)' <=> OnDelivery(q, e)
      /\ \A e \in Deliveries \ {d} : ~OnDelivery(r, e) /\ ~OnDelivery(r, e)'
  <2>1. \A q \in Processes \ {r} : ~OnDelivery(q, d)
    BY DEF CountInv
  <2>2. \A q \in Processes \ {r}, e \in Deliveries : OnDelivery(q, e)' <=> OnDelivery(q, e)
    BY DEF OnDelivery
  <2>3. \A e \in Deliveries \ {d} : ~OnDelivery(r, e) /\ ~OnDelivery(r, e)'
    <3>1. Idle \notin Delivering
      BY DEF Idle, Delivering
    <3> QED
      BY <3>1 DEF OnDelivery
  <2> QED
    BY <2>1, <2>2, <2>3
<1>2. \A e \in Deliveries : delivery'[e] = NoDelivery => calls'[e] = 0
  BY DEF CountInv
<1>3. \A q, p \in Processes : \A e \in Deliveries : OnDelivery(q, e)' /\ OnDelivery(p, e)' => q = p
  <2> SUFFICES ASSUME NEW q \in Processes, NEW p \in Processes, NEW e \in Deliveries,
                      OnDelivery(q, e)', OnDelivery(p, e)'
               PROVE  q = p
    OBVIOUS
  <2>1. CASE e = d
    BY <1>1, <2>1
  <2>2. CASE e # d
    <3>1. OnDelivery(q, e) /\ OnDelivery(p, e)
      BY <1>1, <2>2
    <3> QED
      BY <3>1 DEF CountInv
  <2> QED
    BY <2>1, <2>2
<1>4. \A q \in Processes : req'[q] \in Delivering => Counted(req[q])'
  <2> SUFFICES ASSUME NEW q \in Processes, req'[q] \in Delivering, q # r PROVE Counted(req[q])'
    BY DEF Idle, Delivering
  <2>1. req'[q] = req[q] /\ Counted(req[q])
    BY DEF CountInv
  <2>2. req[q].delivery \in Deliveries
    BY <2>1 DEF Delivering
  <2>3. req[q].delivery # d
    BY <1>1, <2>1 DEF OnDelivery
  <2>4. delivery'[req[q].delivery] = delivery[req[q].delivery] /\ calls'[req[q].delivery] = calls[req[q].delivery]
    BY <2>2, <2>3
  <2> QED
    BY <2>1, <2>4 DEF Counted, Settled
<1>5. ASSUME NEW e \in Deliveries, delivery'[e] # NoDelivery, \A q \in Processes : ~OnDelivery(q, e)'
      PROVE  Settled(e)'
  <2>1. CASE e = d
    BY <1>5, <2>1 DEF OnDelivery
  <2>2. CASE e # d
    <3>1. \A q \in Processes : ~OnDelivery(q, e)
      BY <1>1, <1>5, <2>2
    <3>2. Settled(e)
      BY <1>5, <2>2, <3>1 DEF CountInv
    <3> QED
      BY <2>2, <3>2 DEF Settled
  <2> QED
    BY <2>1, <2>2
<1> QED
  BY <1>2, <1>3, <1>4, <1>5 DEF CountInv

LEMMA CountSteps ==
  ASSUME ReqTyped, DeliveryInv, CallsTyped, CountInv, NEW r \in Processes,
         deliver(r) \/ call(r) \/ storeAnswer(r) \/ logDelivery(r) \/ storeFailure(r)
  PROVE  CountInv'
<1>0. PICK d \in Deliveries : d = req[r].delivery
  BY StepsOnDelivery
<1>1. /\ req[r] \in Delivering /\ req[r].delivery = d /\ Counted(req[r]) /\ OnDelivery(r, d)
      /\ \A q \in Processes \ {r} : req'[q] = req[q]
  BY <1>0, StepsOnDelivery DEF CountInv, OnDelivery
<1>2. /\ delivery[d] # NoDelivery /\ delivery[d] \in Delivery /\ calls[d] \in Nat
      /\ req[r].attempts \in Nat /\ req[r].ok \in BOOLEAN
      /\ delivery \in [Deliveries -> {NoDelivery} \cup Delivery] /\ calls \in [Deliveries -> Nat]
  BY <1>1 DEF DeliveryInv, HeardIsReceived, CallsTyped, Delivering
<1>3. \A s : become(r, s) => req'[r] = s
  BY DEF become, ReqTyped
<1>goes. \A p \in {"log", "catch"} :
           /\ [req[r] EXCEPT !.phase = p] \in Delivering /\ [req[r] EXCEPT !.phase = p].delivery = d
           /\ [req[r] EXCEPT !.phase = p].phase = p /\ [req[r] EXCEPT !.phase = p].attempts = req[r].attempts
  BY <1>1 DEF Delivering
<1>4. ASSUME deliver(r) PROVE CountInv'
  <2> DEFINE n == delivery[d].attempts + 1
             s == [req[r] EXCEPT !.phase = "call", !.attempts = n]
  <2>1. n = calls[d] + 1 /\ n \in Nat
    BY <1>1, <1>2, <1>4 DEF deliver, at, Counted, Delivery
  <2>2. req'[r] = s /\ UNCHANGED <<delivery, calls>>
    BY <1>1, <1>3, <1>4 DEF deliver, webhookVars
  <2> HIDE DEF n
  <2>3. s \in Delivering /\ s.delivery = d /\ s.phase = "call" /\ s.attempts = n
    BY <1>1, <2>1 DEF Delivering
  <2> HIDE DEF s
  <2>4. Counted(req[r])'
    BY <2>1, <2>2, <2>3 DEF Counted
  <2> QED
    BY <1>1, <1>2, <2>2, <2>3, <2>4, CountOneDelivery DEF OnDelivery
<1>5. ASSUME call(r) PROVE CountInv'
  <2>1. PICK p \in {"update", "catch"}, b \in BOOLEAN : become(r, [req[r] EXCEPT !.phase = p, !.ok = b])
    BY <1>5 DEF call
  <2>2. req[r].attempts = calls[d] + 1 /\ calls' = [calls EXCEPT ![d] = @ + 1] /\ UNCHANGED delivery
    BY <1>1, <1>5 DEF call, at, Counted
  <2>3. calls'[d] = calls[d] + 1 /\ \A e \in Deliveries \ {d} : calls'[e] = calls[e]
    BY <1>1, <1>2, <2>2
  <2>4. /\ req'[r] \in Delivering /\ req'[r].delivery = d /\ req'[r].phase \in {"update", "catch"}
        /\ req'[r].attempts = req[r].attempts
    <3> DEFINE s == [req[r] EXCEPT !.phase = p, !.ok = b]
    <3>1. s \in Delivering /\ s.delivery = d /\ s.phase = p /\ s.attempts = req[r].attempts
      BY <1>1 DEF Delivering
    <3>2. req'[r] = s
      BY <1>3, <2>1
    <3> HIDE DEF s
    <3> QED
      BY <3>1, <3>2
  <2>5. Counted(req[r])'
    BY <2>2, <2>3, <2>4 DEF Counted
  <2> QED
    BY <1>1, <1>2, <2>2, <2>3, <2>4, <2>5, CountOneDelivery DEF OnDelivery
\* What is stored of an attempt.
<1>stored. ASSUME NEW b \in BOOLEAN, delivery' = attempted(req[r], b), UNCHANGED calls, req[r].attempts = calls[d]
           PROVE  /\ Settled(d)' /\ delivery'[d] # NoDelivery
                  /\ \A e \in Deliveries \ {d} : delivery'[e] = delivery[e]
  <2>1. delivery'[d].attempts = req[r].attempts /\ (delivery'[d].status = "RETRYING" => delivery'[d].due /\ req[r].attempts < MaxRetries)
    BY <1>1, <1>2, <1>stored, AttemptedIsCounted
  <2>2. delivery'[d] # NoDelivery /\ \A e \in Deliveries \ {d} : delivery'[e] = delivery[e]
    BY <1>1, <1>2, <1>stored, AttemptedIsTyped
  <2> QED
    BY <1>stored, <2>1, <2>2 DEF Settled
<1>6. ASSUME storeAnswer(r) PROVE CountInv'
  <2>1. req[r].attempts = calls[d] /\ delivery' = attempted(req[r], req[r].ok) /\ UNCHANGED calls
    BY <1>1, <1>6 DEF storeAnswer, at, Counted
  <2>2. /\ Settled(d)' /\ delivery'[d] # NoDelivery
        /\ \A e \in Deliveries \ {d} : delivery'[e] = delivery[e]
    BY <1>2, <1>stored, <2>1
  <2>3. /\ req'[r] \in Delivering /\ req'[r].delivery = d /\ req'[r].phase = "log"
        /\ req'[r].attempts = req[r].attempts
    BY <1>3, <1>6, <1>goes DEF storeAnswer
  <2>4. Counted(req[r])'
    BY <2>1, <2>2, <2>3 DEF Counted
  <2> QED
    BY <1>1, <2>1, <2>2, <2>3, <2>4, CountOneDelivery DEF OnDelivery
<1>7. ASSUME logDelivery(r) PROVE CountInv'
  <2>1. req[r].attempts = calls[d] /\ Settled(d) /\ UNCHANGED <<delivery, calls>>
    BY <1>1, <1>7 DEF logDelivery, at, Counted, webhookVars
  <2>2. Settled(d)'
    BY <2>1 DEF Settled
  <2>3. \/ req'[r] = Idle
        \/ /\ req'[r] \in Delivering /\ req'[r].delivery = d /\ req'[r].phase = "catch"
           /\ req'[r].attempts = req[r].attempts
    BY <1>3, <1>7, <1>goes DEF logDelivery
  <2>4. req'[r] # Idle => Counted(req[r])'
    BY <2>1, <2>3 DEF Counted
  <2> QED
    BY <1>1, <1>2, <2>1, <2>2, <2>3, <2>4, CountOneDelivery DEF OnDelivery
<1>8. ASSUME storeFailure(r) PROVE CountInv'
  <2>1. /\ req[r].attempts = calls[d] /\ delivery' = attempted(req[r], FALSE) /\ UNCHANGED calls
        /\ req'[r] = Idle
    BY <1>1, <1>3, <1>8 DEF storeFailure, at, Counted
  <2>2. /\ Settled(d)' /\ delivery'[d] # NoDelivery
        /\ \A e \in Deliveries \ {d} : delivery'[e] = delivery[e]
    BY <1>stored, <2>1
  <2> QED
    BY <1>1, <2>1, <2>2, CountOneDelivery DEF OnDelivery
<1> QED
  BY <1>4, <1>5, <1>6, <1>7, <1>8

\* Steps that leave the deliveries and the processes on them alone.
LEMMA CountsStay ==
  ASSUME CountInv, UNCHANGED <<delivery, calls>>,
         \A q \in Processes : req[q] \in Delivering \/ req'[q] \in Delivering => req'[q] = req[q]
  PROVE  CountInv'
<1>1. \A q \in Processes, d \in Deliveries : OnDelivery(q, d)' <=> OnDelivery(q, d)
  BY DEF OnDelivery
<1>2. \A q, p \in Processes : \A d \in Deliveries : OnDelivery(q, d)' /\ OnDelivery(p, d)' => q = p
  BY <1>1 DEF CountInv
<1>3. ASSUME NEW q \in Processes, req'[q] \in Delivering PROVE Counted(req[q])'
  <2>1. req'[q] = req[q] /\ Counted(req[q])
    BY <1>3 DEF CountInv
  <2> QED
    BY <2>1 DEF Counted, Settled
<1>4. \A d \in Deliveries : delivery'[d] # NoDelivery /\ (\A q \in Processes : ~OnDelivery(q, d)') => Settled(d)'
  BY <1>1 DEF CountInv, Settled
<1> QED
  BY <1>2, <1>3, <1>4 DEF CountInv

\* An operator's request on a delivery, while nothing else runs.
LEMMA CountAtRest ==
  ASSUME ReqTyped, DeliveryInv, CallsTyped, CountInv, Quiet, UNCHANGED calls, NEW d \in Deliveries,
         delivery[d] # NoDelivery, NEW row \in Delivery, delivery' = [delivery EXCEPT ![d] = row],
         row.attempts = delivery[d].attempts,
         \/ UNCHANGED req /\ row.status # "RETRYING"
         \/ \E r \in Processes : become(r, delivering(d, "deliver"))
  PROVE  CountInv'
<1>1. /\ \A q \in Processes : req[q] = Idle /\ \A e \in Deliveries : ~OnDelivery(q, e)
      /\ \A e \in Deliveries : delivery[e] # NoDelivery => Settled(e)
  BY DEF Quiet, OnDelivery, Idle, Delivering, CountInv
<1>2. /\ delivery'[d] = row /\ row # NoDelivery /\ \A e \in Deliveries \ {d} : delivery'[e] = delivery[e]
  BY DEF DeliveryInv, Delivery, NoDelivery
<1>3. delivery'[d].attempts = calls'[d]
  BY <1>1, <1>2 DEF Settled
<1>4. \A e \in Deliveries : delivery'[e] = NoDelivery => calls'[e] = 0
  BY <1>2 DEF CountInv
<1>5. \A e \in Deliveries \ {d} : delivery'[e] # NoDelivery => Settled(e)'
  BY <1>1, <1>2 DEF Settled
<1>6. CASE UNCHANGED req /\ row.status # "RETRYING"
  <2>1. \A q \in Processes, e \in Deliveries : ~OnDelivery(q, e)' /\ req'[q] \notin Delivering
    BY <1>1, <1>6 DEF OnDelivery, Idle, Delivering
  <2>2. Settled(d)'
    BY <1>2, <1>3, <1>6 DEF Settled
  <2> QED
    BY <1>4, <1>5, <2>1, <2>2 DEF CountInv
<1>7. CASE \E r \in Processes : become(r, delivering(d, "deliver"))
  <2>1. PICK r \in Processes : become(r, delivering(d, "deliver"))
    BY <1>7
  <2>2. req'[r] = delivering(d, "deliver") /\ \A q \in Processes \ {r} : req'[q] = Idle
    BY <1>1, <2>1 DEF become, ReqTyped
  <2>3. /\ delivering(d, "deliver") \in Delivering /\ delivering(d, "deliver").delivery = d
        /\ delivering(d, "deliver").phase = "deliver" /\ Idle \notin Delivering
    BY DEF delivering, Delivering, Idle
  <2>4. /\ OnDelivery(r, d)' /\ \A q \in Processes, e \in Deliveries : OnDelivery(q, e)' => q = r /\ e = d
        /\ \A q \in Processes : req'[q] \in Delivering => q = r
    BY <2>2, <2>3 DEF OnDelivery
  <2>5. Counted(req[r])'
    BY <1>3, <2>2, <2>3 DEF Counted
  <2> QED
    BY <1>4, <1>5, <2>4, <2>5 DEF CountInv
<1> QED
  BY <1>6, <1>7

LEMMA CountStart ==
  ASSUME ReqTyped, DeliveryInv, CallsTyped, OwnDelivery, CountInv, NEW r \in Processes, NEW d \in Deliveries,
         startDelivery(r, d)
  PROVE  CountInv'
<1>1. /\ d \in Processes /\ d # r /\ req[d] = Idle /\ req[r] \in Emitting /\ delivery[d] = NoDelivery
      /\ req'[r] \in Emitting /\ req'[d] = delivering(d, "deliver")
      /\ \A q \in Processes \ {r, d} : req'[q] = req[q]
  BY StartIsFree
<1>2. PICK e \in req[r].todo :
        delivery' = [delivery EXCEPT ![d] = [endpoint |-> e, status |-> "PENDING", attempts |-> 0, due |-> FALSE]]
  BY DEF startDelivery
<1> DEFINE row == [endpoint |-> e, status |-> "PENDING", attempts |-> 0, due |-> FALSE]
<1>3. row.attempts = 0 /\ row # NoDelivery /\ UNCHANGED calls /\ calls[d] = 0
  <2>1. row.attempts = 0 /\ row.due = FALSE
    OBVIOUS
  <2>2. "due" \in DOMAIN row /\ "due" \notin DOMAIN NoDelivery
    BY DEF NoDelivery
  <2> HIDE DEF row
  <2> QED
    BY <1>1, <2>1, <2>2 DEF startDelivery, CountInv
<1> HIDE DEF row
<1>4. delivery'[d] = row /\ \A f \in Deliveries \ {d} : delivery'[f] = delivery[f]
  BY <1>2 DEF DeliveryInv, row
<1>5. /\ delivering(d, "deliver") \in Delivering /\ delivering(d, "deliver").delivery = d
      /\ delivering(d, "deliver").phase = "deliver" /\ Idle \notin Delivering
      /\ \A s \in Emitting : s \notin Delivering
  BY DEF delivering, Delivering, Idle, Emitting
<1>6. /\ \A q \in Processes : ~OnDelivery(q, d)
      /\ \A q \in Processes \ {d}, f \in Deliveries : OnDelivery(q, f)' <=> OnDelivery(q, f)
      /\ OnDelivery(d, d)' /\ \A f \in Deliveries \ {d} : ~OnDelivery(d, f) /\ ~OnDelivery(d, f)'
  <2>1. \A q \in Processes : ~OnDelivery(q, d)
    BY <1>1 DEF OnDelivery, DeliveryInv, HeardIsReceived
  <2>2. \A f \in Deliveries : ~OnDelivery(r, f) /\ ~OnDelivery(r, f)'
    BY <1>1, <1>5 DEF OnDelivery
  <2>3. \A q \in Processes \ {r, d}, f \in Deliveries : OnDelivery(q, f)' <=> OnDelivery(q, f)
    BY <1>1 DEF OnDelivery
  <2>4. OnDelivery(d, d)' /\ \A f \in Deliveries \ {d} : ~OnDelivery(d, f) /\ ~OnDelivery(d, f)'
    BY <1>1, <1>5 DEF OnDelivery
  <2> QED
    BY <2>1, <2>2, <2>3, <2>4
<1>7. \A f \in Deliveries : delivery'[f] = NoDelivery => calls'[f] = 0
  BY <1>3, <1>4 DEF CountInv
<1>8. \A q, p \in Processes : \A f \in Deliveries : OnDelivery(q, f)' /\ OnDelivery(p, f)' => q = p
  <2> SUFFICES ASSUME NEW q \in Processes, NEW p \in Processes, NEW f \in Deliveries,
                      OnDelivery(q, f)', OnDelivery(p, f)'
               PROVE  q = p
    OBVIOUS
  <2>1. CASE f = d
    BY <1>6, <2>1
  <2>2. CASE f # d
    <3>1. OnDelivery(q, f) /\ OnDelivery(p, f)
      BY <1>6, <2>2
    <3> QED
      BY <3>1 DEF CountInv
  <2> QED
    BY <2>1, <2>2
<1>9. ASSUME NEW q \in Processes, req'[q] \in Delivering PROVE Counted(req[q])'
  <2>1. CASE q = d
    <3>1. delivery'[d].attempts = calls'[d]
      BY <1>3, <1>4
    <3> QED
      BY <1>1, <1>5, <2>1, <3>1 DEF Counted
  <2>2. CASE q # d
    <3>1. req'[q] = req[q] /\ Counted(req[q]) /\ req[q].delivery \in Deliveries
      BY <1>1, <1>5, <1>9, <2>2 DEF CountInv, Delivering
    <3>2. req[q].delivery # d
      BY <1>6, <1>9, <3>1 DEF OnDelivery
    <3>3. delivery'[req[q].delivery] = delivery[req[q].delivery] /\ UNCHANGED calls
      BY <1>3, <1>4, <3>1, <3>2
    <3> QED
      BY <3>1, <3>3 DEF Counted, Settled
  <2> QED
    BY <2>1, <2>2
<1>10. ASSUME NEW f \in Deliveries, delivery'[f] # NoDelivery, \A q \in Processes : ~OnDelivery(q, f)'
       PROVE  Settled(f)'
  <2>1. f # d
    BY <1>1, <1>6, <1>10
  <2>2. \A q \in Processes : ~OnDelivery(q, f)
    BY <1>6, <1>10, <2>1
  <2>3. Settled(f) /\ UNCHANGED calls
    BY <1>3, <1>4, <1>10, <2>1, <2>2 DEF CountInv
  <2> QED
    BY <1>4, <2>1, <2>3 DEF Settled
<1> QED
  BY <1>7, <1>8, <1>9, <1>10 DEF CountInv

LEMMA CountKeeps ==
  ASSUME ReqTyped, DeliveryInv, CallsTyped, OwnDelivery, CountInv, WebhooksNext, Without({"overlap", "crash"})
  PROVE  CountInv'
<1>1. ASSUME NEW r \in Processes, deliver(r) \/ call(r) \/ storeAnswer(r) \/ logDelivery(r) \/ storeFailure(r)
      PROVE  CountInv'
  BY <1>1, CountSteps
<1>2. ASSUME NEW r \in Processes, NEW d \in Deliveries, startDelivery(r, d) PROVE CountInv'
  BY <1>2, CountStart
<1>3. ASSUME NEW r \in Processes, emitted(r) PROVE CountInv'
  <2>1. req[r] \in Emitting
    BY <1>3, ByPhase DEF emitted, at, ReqTyped
  <2>2. req'[r] = Idle /\ \A q \in Processes \ {r} : req'[q] = req[q]
    BY <1>3 DEF emitted, become, ReqTyped
  <2> QED
    BY <1>3, <2>1, <2>2, CountsStay DEF emitted, webhookVars, Idle, Emitting, Delivering
<1>own. Requests \subseteq Processes
  BY DEF Processes
<1>4. ASSUME NEW r \in Requests, NEW eventType \in EventTypes, emit(r, eventType) PROVE CountInv'
  <2>1. PICK todo \in SUBSET Endpoints : become(r, [phase |-> "emit", todo |-> todo])
    BY <1>4 DEF emit
  <2>2. [phase |-> "emit", todo |-> todo] \notin Delivering /\ Idle \notin Delivering
    BY DEF Delivering, Idle
  <2>3. req[r] = Idle /\ UNCHANGED <<delivery, calls>>
    BY <1>4 DEF emit, mayBegin, webhookVars
  <2>4. req'[r] = [phase |-> "emit", todo |-> todo] /\ \A q \in Processes \ {r} : req'[q] = req[q]
    BY <1>own, <2>1 DEF become, ReqTyped
  <2> QED
    BY <2>2, <2>3, <2>4, CountsStay
<1>5. ASSUME NEW r \in Requests, NEW e \in Endpoints,
             \/ deleteEndpoint(r, e)
             \/ \E events \in Subscriptions :
                  \/ createEndpoint(r, e, events)
                  \/ \E status \in {"ACTIVE", "DISABLED"} : updateEndpoint(r, e, status, events)
      PROVE  CountInv'
  BY <1>5, CountsStay DEF deleteEndpoint, createEndpoint, updateEndpoint
<1>quiet. ASSUME NEW r, NEW op, mayBegin(r, op) PROVE Quiet
  BY <1>quiet DEF mayBegin, Without
<1>6. ASSUME NEW r \in Requests, NEW d \in Deliveries, retryDelivery(r, d) PROVE CountInv'
  <2> DEFINE row == [delivery[d] EXCEPT !.status = "RETRYING", !.due = FALSE]
  <2>1. /\ delivery[d] \in Delivery /\ delivery[d] # NoDelivery /\ delivery' = [delivery EXCEPT ![d] = row]
        /\ become(r, delivering(d, "deliver")) /\ UNCHANGED calls /\ Quiet
    BY <1>6, <1>quiet DEF retryDelivery, DeliveryInv
  <2>2. row \in Delivery /\ row.attempts = delivery[d].attempts
    BY <2>1 DEF Delivery
  <2> HIDE DEF row
  <2> QED
    BY <1>own, <2>1, <2>2, CountAtRest
<1>7. ASSUME NEW r \in Requests, NEW d \in Deliveries, cancelDelivery(r, d) PROVE CountInv'
  <2> DEFINE row == [delivery[d] EXCEPT !.status = "CANCELLED"]
  <2>1. /\ delivery[d] \in Delivery /\ delivery[d] # NoDelivery /\ delivery' = [delivery EXCEPT ![d] = row]
        /\ UNCHANGED <<req, calls>> /\ Quiet
    BY <1>7, <1>quiet DEF cancelDelivery, DeliveryInv
  <2>2. row \in Delivery /\ row.attempts = delivery[d].attempts /\ row.status # "RETRYING"
    BY <2>1 DEF Delivery
  <2> HIDE DEF row
  <2> QED
    BY <2>1, <2>2, CountAtRest
<1> QED
  BY <1>1, <1>2, <1>3, <1>4, <1>5, <1>6, <1>7, OtherWebhookSteps

\* Steps that leave the notifications and the requests on them alone.
LEMMA SentStays ==
  ASSUME ReqTyped, ReqTyped', SentInv, UNCHANGED notificationVars,
         \A q \in Requests : req[q] \in Sending \/ req'[q] \in Sending => req'[q] = req[q]
  PROVE  SentInv'
<1>1. \A q \in Requests : /\ at(q, "mark") \/ at(q, "dispatch") \/ at(q, "store") => req[q] \in Sending
                          /\ at(q, "mark")' \/ at(q, "dispatch")' \/ at(q, "store")' => req'[q] \in Sending
  <2>1. \A s \in State : s.phase \in {"mark", "dispatch", "store"} => s \in Sending
    BY ByPhase
  <2> QED
    BY <2>1 DEF at, ReqTyped, Processes
<1>2. UNCHANGED <<note, sent>>
  BY DEF notificationVars
<1>3. \A n \in Notes : sent'[n] > 0 =>
        \/ note'[n].status \in {"SENT", "CANCELLED"}
        \/ \E q \in Requests : at(q, "store")' /\ req'[q].note = n /\ req'[q].ok
  <2> SUFFICES ASSUME NEW n \in Notes, sent[n] > 0, note[n].status \notin {"SENT", "CANCELLED"}
               PROVE  \E q \in Requests : at(q, "store")' /\ req'[q].note = n /\ req'[q].ok
    BY <1>2
  <2>1. PICK q \in Requests : at(q, "store") /\ req[q].note = n /\ req[q].ok
    BY DEF SentInv
  <2>2. req'[q] = req[q]
    BY <1>1, <2>1
  <2> QED
    BY <2>1, <2>2 DEF at
<1>4. \A q \in Requests :
        at(q, "mark")' \/ at(q, "dispatch")' \/ (at(q, "store")' /\ ~req'[q].ok) => sent'[req'[q].note] = 0
  BY <1>1, <1>2 DEF SentInv, at
<1> QED
  BY <1>2, <1>3, <1>4 DEF SentInv

LEMMA SentOnceStep ==
  ASSUME SentInv, NEW r \in Requests, \A q \in Requests \ {r} : req'[q] = Idle,
         \A n \in Notes : sent'[n] <= 1,
         \A n \in Notes : sent'[n] > 0 =>
           \/ note'[n].status \in {"SENT", "CANCELLED"}
           \/ req'[r].phase = "store" /\ req'[r].note = n /\ req'[r].ok,
         \/ req'[r].phase \in {"mark", "dispatch"}
         \/ req'[r].phase = "store" /\ ~req'[r].ok
         => sent'[req'[r].note] = 0
  PROVE  SentInv'
  BY DEF SentInv, at, Idle

LEMMA CountToOne == Min({0 + 1, MaxSends}) = 1
<1>1. MaxSends \in Nat \ {0}
  BY NotificationsAssumption
<1>2. \A y \in {0 + 1, MaxSends} : 1 =< y
  BY <1>1
<1>3. Min({0 + 1, MaxSends}) = CHOOSE x \in {0 + 1, MaxSends} : \A y \in {0 + 1, MaxSends} : x =< y
  BY DEF Min
<1>4. \E x \in {0 + 1, MaxSends} : \A y \in {0 + 1, MaxSends} : x =< y
  BY <1>2
<1>5. PICK m : m = CHOOSE x \in {0 + 1, MaxSends} : \A y \in {0 + 1, MaxSends} : x =< y
  OBVIOUS
<1>6. m \in {0 + 1, MaxSends} /\ \A y \in {0 + 1, MaxSends} : m =< y
  BY <1>4, <1>5
<1>7. m = 1
  BY <1>1, <1>6
<1> QED
  BY <1>3, <1>5, <1>7

LEMMA SentKeeps ==
  ASSUME ReqTyped, NoteInv, OneAtWork, SentInv, NotificationsNext, Without({"overlap", "lost", "crash", "patch"})
  PROVE  SentInv'
<1>typed. /\ Requests \subseteq Processes /\ sent \in [Notes -> Nat] /\ note \in [Notes -> {NoNote} \cup Note]
          /\ NoNote.status = "NONE" /\ Idle.phase = "idle"
  BY DEF Processes, NoteInv, NoNote, Idle
\* The request that works is the only one.
<1>alone. ASSUME NEW r \in Requests, (\E op : mayBegin(r, op)) \/ req[r] # Idle
          PROVE  \A q \in Requests \ {r} : req[q] = Idle
  BY <1>alone, <1>typed DEF mayBegin, Without, Quiet, OneAtWork
<1>moves. ASSUME NEW r \in Requests, NEW s, become(r, s)
          PROVE  req'[r] = s /\ \A q \in Requests \ {r} : req'[q] = req[q]
  BY <1>moves, <1>typed DEF become, ReqTyped
<1>unsent. ASSUME NEW r \in Requests, \A q \in Requests \ {r} : req[q] = Idle, NEW n \in Notes,
                  req[r].phase # "store" \/ req[r].note # n \/ ~req[r].ok,
                  note[n].status \notin {"SENT", "CANCELLED"}
           PROVE  sent[n] = 0
  BY <1>unsent, <1>typed DEF SentInv, at
<1>absent. ASSUME NEW n \in Notes, note[n] = NoNote PROVE sent[n] = 0
  <2>1. \A q \in Requests : at(q, "store") => req[q].note # n
    BY <1>typed, <1>absent, MailInHand DEF at
  <2> QED
    BY <1>typed, <1>absent, <2>1 DEF SentInv
\* A step that writes new rows at most, and does not come to send one.
<1>new. ASSUME NEW r \in Requests, (\E op : mayBegin(r, op)) \/ req[r] # Idle, req[r].phase # "store",
               UNCHANGED sent, \A m \in Notes : note[m] # NoNote => note'[m] = note[m],
               \/ UNCHANGED req /\ req[r].phase \notin {"mark", "dispatch"}
               \/ \E s : become(r, s) /\ s.phase \notin {"mark", "dispatch", "store"}
        PROVE  SentInv'
  <2>1. /\ \A q \in Requests \ {r} : req[q] = Idle /\ req'[q] = Idle
        /\ req'[r].phase \notin {"mark", "dispatch", "store"}
    BY <1>new, <1>alone, <1>moves
  <2>2. ASSUME NEW n \in Notes, sent[n] > 0 PROVE note'[n].status \in {"SENT", "CANCELLED"}
    <3>1. note[n] # NoNote
      BY <1>absent, <2>2
    <3>2. note[n].status \in {"SENT", "CANCELLED"}
      BY <1>new, <1>unsent, <2>1, <2>2
    <3> QED
      BY <1>new, <3>1, <3>2
  <2> QED
    BY <1>new, <2>1, <2>2, SentOnceStep DEF SentInv
<1>newNote. ASSUME NEW n \in Notes, NEW st, NEW channel, NEW about, newNote(n, st, channel, about)
            PROVE  \A m \in Notes : note[m] # NoNote => note'[m] = note[m]
  BY <1>newNote, <1>typed DEF newNote
<1>throw. ASSUME NEW r \in Requests, throw(r)
          PROVE  \A m \in Notes : note[m] # NoNote => note'[m] = note[m]
  BY <1>throw, <1>newNote DEF throw
<1>idle. ASSUME NEW r \in Requests, NEW op, mayBegin(r, op) PROVE req[r].phase = "idle"
  BY <1>idle, <1>typed DEF mayBegin
<1>1. ASSUME NEW r \in Requests, NEW n \in Notes, NEW channel \in Channels,
             createNotification(r, n, channel) \/ sendTemplate(r, n, channel)
      PROVE  SentInv'
  <2>1. sending(n, "audit", FALSE).phase = "audit"
    BY DEF sending
  <2>2. (\E op : mayBegin(r, op)) /\ UNCHANGED sent /\ (UNCHANGED req \/ become(r, sending(n, "audit", FALSE)))
    BY <1>1 DEF createNotification, sendTemplate
  <2>3. \A m \in Notes : note[m] # NoNote => note'[m] = note[m]
    BY <1>1, <1>newNote DEF createNotification, sendTemplate
  <2> QED
    BY <1>idle, <1>new, <2>1, <2>2, <2>3
<1>2. ASSUME NEW r \in Requests, NEW n \in Notes, NEW occasion \in Occasions,
             createLifecycleEmail(r, n, occasion) \/ skipLifecycleEmail(r, n, occasion)
      PROVE  SentInv'
  <2>1. sending(n, "audit", TRUE).phase = "audit"
    BY DEF sending
  <2>2. /\ (\E op : mayBegin(r, op)) \/ req[r].phase = "announce"
        /\ UNCHANGED sent
        /\ become(r, Idle) \/ become(r, sending(n, "audit", TRUE))
    BY <1>2 DEF createLifecycleEmail, skipLifecycleEmail, announcing, at
  <2>3. \A m \in Notes : note[m] # NoNote => note'[m] = note[m]
    BY <1>2, <1>newNote DEF createLifecycleEmail, skipLifecycleEmail
  <2> QED
    BY <1>idle, <1>typed, <1>new, <2>1, <2>2, <2>3
<1>3. ASSUME NEW r \in Requests, NEW n \in Notes, sendNotification(r, n) PROVE SentInv'
  <2>1. sending(n, "read", FALSE).phase = "read"
    BY DEF sending
  <2>2. (\E op : mayBegin(r, op)) /\ UNCHANGED <<sent, note>> /\ become(r, sending(n, "read", FALSE))
    BY <1>3 DEF sendNotification, notificationVars
  <2> QED
    BY <1>idle, <1>new, <2>1, <2>2
<1>4. ASSUME NEW r \in Requests, NEW n \in Notes, cancelNotification(r, n) PROVE SentInv'
  <2>1. (\E op : mayBegin(r, op)) /\ UNCHANGED <<sent, req>> /\ note[n] \in Note
        /\ note' = [note EXCEPT ![n].status = "CANCELLED"]
    BY <1>4, <1>typed DEF cancelNotification
  <2>2. req[r].phase = "idle" /\ \A q \in Requests \ {r} : req[q] = Idle
    BY <1>alone, <1>idle, <2>1
  <2>3. note'[n].status = "CANCELLED" /\ \A m \in Notes \ {n} : note'[m] = note[m]
    BY <1>typed, <2>1 DEF Note
  <2>4. \A m \in Notes : sent[m] > 0 => note[m].status \in {"SENT", "CANCELLED"}
    BY <1>unsent, <1>typed, <2>2
  <2> QED
    BY <2>1, <2>2, <2>3, <2>4, SentOnceStep DEF SentInv
<1>5. ASSUME NEW r \in Requests, NEW n \in Notes, NEW status, NEW channel,
             operationsCreate(r, n, status, channel) \/ operationsUpdate(r, n, status, channel)
      PROVE  SentInv'
  BY <1>5 DEF operationsCreate, operationsUpdate, mayBegin, Without
<1>6. ASSUME NEW r \in Requests, auditCreation(r) PROVE SentInv'
  <2>1. req[r].phase = "audit" /\ req[r] \in Sending /\ UNCHANGED sent
    BY <1>6, <1>typed, MailInHand DEF auditCreation, at
  <2>2. [req[r] EXCEPT !.phase = "read"].phase = "read"
    BY <2>1 DEF Sending
  <2>3. \E s : become(r, s) /\ s.phase \notin {"mark", "dispatch", "store"}
    BY <1>6, <1>typed, <2>2 DEF auditCreation
  <2>4. \A m \in Notes : note[m] # NoNote => note'[m] = note[m]
    BY <1>6, <1>throw DEF auditCreation
  <2> QED
    BY <1>typed, <1>new, <2>1, <2>3, <2>4
<1>7. ASSUME NEW r \in Requests, readNotification(r) PROVE SentInv'
  <2>1. /\ req[r].phase = "read" /\ req[r] \in Sending /\ UNCHANGED sent /\ req[r].note \in Notes
        /\ req[r] # Idle
    BY <1>7, <1>typed, MailInHand DEF readNotification, at
  <2> DEFINE a == note[req[r].note].attempts + 1
             b == note[req[r].note].status = "FAILED"
             c == note[req[r].note].channel
             s == [req[r] EXCEPT !.phase = "mark", !.channel = c, !.attempts = a, !.failed = b]
  <2>2. ASSUME become(r, s), UNCHANGED note, note[req[r].note].status \notin {"SENT", "CANCELLED"} PROVE SentInv'
    <3>1. s.note = req[r].note /\ s.phase = "mark"
      BY <2>1 DEF Sending
    <3> HIDE DEF s
    <3>2. req'[r] = s /\ \A q \in Requests \ {r} : req'[q] = Idle /\ req[q] = Idle
      BY <1>alone, <1>moves, <2>1, <2>2
    <3>3. sent[req[r].note] = 0
      BY <1>unsent, <2>1, <2>2, <3>2
    <3>4. \A m \in Notes : sent[m] > 0 => note[m].status \in {"SENT", "CANCELLED"}
      BY <1>unsent, <1>typed, <2>1, <3>2
    <3> QED
      BY <2>1, <2>2, <3>1, <3>2, <3>3, <3>4, SentOnceStep DEF SentInv
  <2>3. ASSUME throw(r), become(r, Idle) PROVE SentInv'
    BY <1>typed, <1>new, <1>throw, <2>1, <2>3
  <2> QED
    BY <1>7, <2>2, <2>3 DEF readNotification
<1>8. ASSUME NEW r \in Requests, markSending(r) PROVE SentInv'
  <2> DEFINE st == IF req[r].failed THEN "RETRYING" ELSE "SENDING"
             s == [req[r] EXCEPT !.phase = "dispatch"]
  <2>1. /\ req[r].phase = "mark" /\ req[r] \in Sending /\ UNCHANGED sent /\ req[r].note \in Notes
        /\ req[r] # Idle /\ become(r, s) /\ sent[req[r].note] = 0
    BY <1>8, <1>typed, MailInHand DEF markSending, at, SentInv
  <2>2. s.note = req[r].note /\ s.phase = "dispatch"
    BY <2>1 DEF Sending
  <2> HIDE DEF s
  <2>3. req'[r] = s /\ \A q \in Requests \ {r} : req'[q] = Idle /\ req[q] = Idle
    BY <1>alone, <1>moves, <2>1
  <2>4. \A m \in Notes \ {req[r].note} : note'[m] = note[m]
    BY <1>8, <1>typed DEF markSending
  <2>5. \A m \in Notes : sent[m] > 0 => note'[m].status \in {"SENT", "CANCELLED"}
    <3> SUFFICES ASSUME NEW m \in Notes, sent[m] > 0 PROVE note'[m].status \in {"SENT", "CANCELLED"}
      OBVIOUS
    <3>1. m # req[r].note
      BY <2>1
    <3>2. note[m].status \in {"SENT", "CANCELLED"}
      BY <1>unsent, <2>1, <2>3
    <3> QED
      BY <2>4, <3>1, <3>2
  <2> QED
    BY <2>1, <2>2, <2>3, <2>5, SentOnceStep DEF SentInv
<1>9. ASSUME NEW r \in Requests, dispatch(r) PROVE SentInv'
  <2>1. /\ req[r].phase = "dispatch" /\ req[r] \in Sending /\ UNCHANGED note /\ req[r].note \in Notes
        /\ req[r] # Idle /\ sent[req[r].note] = 0
    BY <1>9, <1>typed, MailInHand DEF dispatch, at, SentInv
  <2>2. PICK taken \in BOOLEAN, ok \in BOOLEAN :
          /\ taken => ok
          /\ sent' = [sent EXCEPT ![req[r].note] = IF taken THEN Min({@ + 1, MaxSends}) ELSE @]
          /\ become(r, [req[r] EXCEPT !.phase = "store", !.ok = ok])
    BY <1>9 DEF dispatch, Without
  <2> DEFINE s == [req[r] EXCEPT !.phase = "store", !.ok = ok]
  <2>3. s.note = req[r].note /\ s.phase = "store" /\ s.ok = ok
    BY <2>1 DEF Sending
  <2> HIDE DEF s
  <2>4. req'[r] = s /\ \A q \in Requests \ {r} : req'[q] = Idle /\ req[q] = Idle
    BY <1>alone, <1>moves, <2>1, <2>2 DEF s
  <2>5. /\ sent'[req[r].note] = (IF taken THEN 1 ELSE 0) /\ (taken => ok)
        /\ \A m \in Notes \ {req[r].note} : sent'[m] = sent[m]
    <3>1. CASE taken
      <4>1. sent' = [sent EXCEPT ![req[r].note] = Min({sent[req[r].note] + 1, MaxSends})]
        BY <2>2, <3>1
      <4>2. sent' = [sent EXCEPT ![req[r].note] = Min({0 + 1, MaxSends})]
        BY <2>1, <4>1
      <4>3. sent' = [sent EXCEPT ![req[r].note] = 1]
        BY <4>2, CountToOne
      <4> QED
        BY <1>typed, <2>1, <2>2, <3>1, <4>3
    <3>2. CASE ~taken
      BY <1>typed, <2>1, <2>2, <3>2
    <3> QED
      BY <2>2, <3>1, <3>2
  <2>6. \A m \in Notes : sent'[m] > 0 =>
          \/ note'[m].status \in {"SENT", "CANCELLED"}
          \/ req'[r].phase = "store" /\ req'[r].note = m /\ req'[r].ok
    <3> SUFFICES ASSUME NEW m \in Notes, sent'[m] > 0, m # req[r].note PROVE note[m].status \in {"SENT", "CANCELLED"}
      BY <2>1, <2>3, <2>4, <2>5
    <3> QED
      BY <1>unsent, <1>typed, <2>1, <2>4, <2>5
  <2>7. \A m \in Notes : sent'[m] <= 1
    BY <2>5 DEF SentInv
  <2> QED
    BY <2>3, <2>4, <2>5, <2>6, <2>7, SentOnceStep
<1>10. ASSUME NEW r \in Requests, storeResult(r) PROVE SentInv'
  <2> DEFINE st == IF req[r].ok THEN "SENT" ELSE "FAILED"
             s == [req[r] EXCEPT !.phase = "written"]
  <2>1. /\ req[r].phase = "store" /\ req[r] \in Sending /\ UNCHANGED sent /\ req[r].note \in Notes
        /\ req[r] # Idle /\ become(r, s) /\ note[req[r].note] \in Note
        /\ note' = [note EXCEPT ![req[r].note].status = st]
        /\ ~req[r].ok => sent[req[r].note] = 0
    BY <1>10, <1>typed, MailInHand DEF storeResult, at, SentInv
  <2>2. s.phase = "written"
    BY <2>1 DEF Sending
  <2> HIDE DEF s
  <2>3. req'[r] = s /\ \A q \in Requests \ {r} : req'[q] = Idle /\ req[q] = Idle
    BY <1>alone, <1>moves, <2>1
  <2>4. note'[req[r].note].status = st /\ \A m \in Notes \ {req[r].note} : note'[m] = note[m]
    BY <1>typed, <2>1 DEF Note
  <2>5. \A m \in Notes : sent[m] > 0 => note'[m].status \in {"SENT", "CANCELLED"}
    <3> SUFFICES ASSUME NEW m \in Notes, sent[m] > 0 PROVE note'[m].status \in {"SENT", "CANCELLED"}
      OBVIOUS
    <3>1. CASE m = req[r].note
      BY <2>1, <2>4, <3>1
    <3>2. CASE m # req[r].note
      BY <1>unsent, <2>3, <2>4, <3>2
    <3> QED
      BY <3>1, <3>2
  <2> QED
    BY <2>1, <2>2, <2>3, <2>5, SentOnceStep DEF SentInv
<1>11. ASSUME NEW r \in Requests, logSending(r) PROVE SentInv'
  <2>1. req[r].phase = "written" /\ UNCHANGED sent /\ become(r, Idle)
    BY <1>11 DEF logSending, at
  <2>2. \A m \in Notes : note[m] # NoNote => note'[m] = note[m]
    BY <1>11, <1>throw DEF logSending
  <2> QED
    BY <1>typed, <1>new, <2>1, <2>2
<1> QED
  BY <1>1, <1>2, <1>3, <1>4, <1>5, <1>6, <1>7, <1>8, <1>9, <1>10, <1>11 DEF NotificationsNext, NotificationsStep

FilesTyped == stored \subseteq Documents

AtOnce == FilesTyped /\ AtOnceInv

LEMMA AtOnceInit == Init => AtOnce
<1> SUFFICES ASSUME Init PROVE AtOnce
  OBVIOUS
<1>1. /\ req = [r \in Processes |-> Idle] /\ stored = {} /\ sent = [n \in Notes |-> 0]
      /\ calls = [d \in Deliveries |-> 0] /\ delivery = [d \in Deliveries |-> NoDelivery]
      /\ endpoint = [e \in Endpoints |-> NoEndpoint]
  BY DEF Init, ServiceInit, WebhooksInit, NotificationsInit, DocumentsInit
<1>2. \A q \in Processes : req[q] = Idle /\ req[q] \notin Delivering
  BY <1>1 DEF Idle, Delivering
<1>3. CallsTyped /\ FilesTyped
  BY <1>1 DEF CallsTyped, FilesTyped
<1>4. OwnDelivery /\ OneAtWork
  BY <1>2 DEF OwnDelivery, OneAtWork, Processes
<1>5. CountInv
  BY <1>1, <1>2 DEF CountInv, OnDelivery
<1>6. SentInv
  BY <1>1, <1>2 DEF SentInv, at, Idle, Processes
<1> QED
  BY <1>3, <1>4, <1>5, <1>6 DEF AtOnce, AtOnceInv

\* A step of the webhooks moves no request of another component.
LEMMA WebhooksMove ==
  ASSUME ReqTyped, DeliveryInv, OwnDelivery, WebhooksNext
  PROVE  \A q \in Requests : req'[q] = req[q] \/ req[q] \in WebhookState
<1>own. Requests \subseteq Processes /\ Idle.phase = "idle"
  BY DEF Processes, Idle
<1>1. ASSUME NEW r \in Processes, deliver(r) \/ call(r) \/ storeAnswer(r) \/ logDelivery(r) \/ storeFailure(r)
      PROVE  \A q \in Requests : req'[q] = req[q] \/ req[q] \in WebhookState
  BY <1>1, <1>own, StepsOnDelivery DEF WebhookState
<1>2. ASSUME NEW r \in Processes, NEW d \in Deliveries, startDelivery(r, d)
      PROVE  \A q \in Requests : req'[q] = req[q] \/ req[q] \in WebhookState
  BY <1>2, <1>own, StartIsFree DEF WebhookState
<1>3. ASSUME NEW r \in Processes, NEW s, become(r, s), req[r] \in WebhookState
      PROVE  \A q \in Requests : req'[q] = req[q] \/ req[q] \in WebhookState
  BY <1>3, <1>own DEF become, ReqTyped
<1>4. ASSUME NEW r \in Processes, emitted(r)
      PROVE  \A q \in Requests : req'[q] = req[q] \/ req[q] \in WebhookState
  <2>1. req[r] \in WebhookState
    BY <1>4, ByPhase DEF emitted, at, ReqTyped, WebhookState
  <2> QED
    BY <1>4, <2>1, <1>3 DEF emitted
<1>5. ASSUME NEW r \in Requests,
             \/ \E e \in Endpoints :
                  \/ deleteEndpoint(r, e)
                  \/ \E events \in Subscriptions :
                       \/ createEndpoint(r, e, events)
                       \/ \E status \in {"ACTIVE", "DISABLED"} : updateEndpoint(r, e, status, events)
             \/ \E eventType \in EventTypes : emit(r, eventType)
             \/ \E d \in Deliveries : retryDelivery(r, d) \/ cancelDelivery(r, d)
      PROVE  \A q \in Requests : req'[q] = req[q] \/ req[q] \in WebhookState
  <2>1. UNCHANGED req \/ \E s : become(r, s)
    BY <1>5 DEF deleteEndpoint, createEndpoint, updateEndpoint, emit, retryDelivery, cancelDelivery
  <2>2. req[r] = Idle
    BY <1>5 DEF deleteEndpoint, createEndpoint, updateEndpoint, emit, retryDelivery, cancelDelivery, mayBegin
  <2> QED
    BY <1>own, <2>1, <2>2, <1>3, Subsets
<1> QED
  BY <1>1, <1>2, <1>4, <1>5, OtherWebhookSteps

\* The requests of a component that sends nothing leave the sending alone.
LEMMA SendingUnderWay ==
  ASSUME NEW S, S \cap Sending = {}, Takes(S), NEW T, T \cap Sending = {}, Frame(T)
  PROVE  \A q \in Requests : req[q] \in Sending \/ req'[q] \in Sending => req'[q] = req[q]
<1>1. PICK r \in Requests :
        /\ \A q \in Processes \ {r} : req'[q] = req[q]
        /\ req'[r] = req[r] \/ req[r] \in S \ {Idle} \/ (req[r] = Idle /\ ("overlap" \in scope \/ Quiet))
  BY DEF Takes
<1>2. r \in Processes /\ Requests \subseteq Processes
  BY DEF Processes
<1>3. req'[r] = req[r] \/ (req[r] \notin Sending /\ req'[r] \notin Sending)
  BY <1>1, <1>2 DEF Frame, Idle, Sending
<1> QED
  BY <1>1, <1>2, <1>3

\* What the scope of a behaviour leaves out, it leaves out for good.
LEMMA ScopesNest ==
  ASSUME UNCHANGED scope
  PROVE  /\ \A ops : Without(ops)' <=> Without(ops)
         /\ Without({"overlap", "crash"}) => Without({"overlap"})
         /\ Without({"overlap", "lost", "crash", "patch"}) => Without({"overlap"}) /\ Without({"crash"})
  BY DEF Without

LEMMA FilesStayTyped ==
  ASSUME ReqTyped, DocumentInv, FilesTyped, DocumentsNext
  PROVE  FilesTyped'
<1>1. ASSUME NEW r \in Requests, storeFile(r) PROVE FilesTyped'
  BY <1>1, DocumentInHand DEF storeFile, at, FilesTyped
<1>2. ASSUME UNCHANGED stored PROVE FilesTyped'
  BY <1>2 DEF FilesTyped
<1>3. ASSUME NEW r \in Requests, DocumentsStep(r), ~storeFile(r) PROVE UNCHANGED stored
  BY <1>3 DEF DocumentsStep, recordFile, writeChange, writeUpdate, auditLink, auditAccess, findAgain, auditFile,
              handOut, documentVars
<1>4. ASSUME NEW r \in Requests, NEW d \in Documents,
             \/ getDownloadUrl(r, d)
             \/ \E type \in Types : uploadDocument(r, d, type) \/ updateDocument(r, d, type)
             \/ \E status \in {"VERIFIED", "REJECTED", "DELETED"} : changeDocument(r, d, status)
             \/ \E row \in Document : operationsDocument(r, d, row.status, row.type)
      PROVE  UNCHANGED stored
  BY <1>4 DEF getDownloadUrl, uploadDocument, updateDocument, changeDocument, operationsDocument, documentVars
<1> QED
  BY <1>1, <1>2, <1>3, <1>4 DEF DocumentsNext

LEMMA AtOnceStep == PlatformInv /\ AtOnce /\ [Next]_vars => AtOnce'
<1> SUFFICES ASSUME PlatformInv, AtOnce, [Next]_vars PROVE AtOnce'
  OBVIOUS
<1>inv. /\ ReqTyped /\ DeliveryInv /\ NoteInv /\ ProgrammeInv /\ DocumentInv /\ OperationInv
        /\ FilesTyped /\ CallsTyped /\ OwnDelivery
        /\ Without({"overlap"}) => OneAtWork
        /\ Without({"overlap", "crash"}) => CountInv
        /\ Without({"overlap", "lost", "crash", "patch"}) => SentInv
        /\ ReqTyped'
  BY PlatformStep DEF PlatformInv, AtOnce, AtOnceInv
<1>files. UNCHANGED documentVars => FilesTyped'
  BY <1>inv DEF FilesTyped, documentVars
\* A step of a component that delivers and sends nothing.
<1>other. ASSUME NEW S, S \cap (Delivering \cup Sending) = {}, Takes(S) \/ UNCHANGED req,
                 NEW T, T \cap (Delivering \cup Sending) = {}, Frame(T),
                 UNCHANGED <<webhookVars, notificationVars, scope>>, FilesTyped'
          PROVE  AtOnce'
  <2>1. CASE Takes(S)
    <3>1. S \cap Delivering = {} /\ S \cap Sending = {} /\ T \cap Delivering = {} /\ T \cap Sending = {}
      BY <1>other
    <3>2. CallsTyped' /\ OwnDelivery' /\ (CountInv => CountInv')
      BY <1>inv, <1>other, <2>1, <3>1, OthersKeepDeliveries
    <3>3. Without({"overlap"}) => OneAtWork'
      BY <1>inv, <2>1, OneStaysAtWork
    <3>4. SentInv => SentInv'
      BY <1>inv, <1>other, <2>1, <3>1, SendingUnderWay, SentStays
    <3> QED
      BY <1>inv, <1>other, <3>2, <3>3, <3>4, ScopesNest DEF AtOnce, AtOnceInv
  <2>2. CASE UNCHANGED req
    <3>1. CallsTyped' /\ OwnDelivery' /\ (OneAtWork => OneAtWork')
      BY <1>inv, <1>other, <2>2 DEF CallsTyped, OwnDelivery, OnDelivery, OneAtWork, webhookVars
    <3>2. CountInv => CountInv'
      BY <1>other, <2>2, CountsStay DEF webhookVars
    <3>3. SentInv => SentInv'
      BY <1>inv, <1>other, <2>2, SentStays
    <3> QED
      BY <1>inv, <1>other, <3>1, <3>2, <3>3, ScopesNest DEF AtOnce, AtOnceInv
  <2> QED
    BY <1>other, <2>1, <2>2
<1>1. ASSUME WebhooksNext, UNCHANGED <<notificationVars, programmeVars, documentVars, operationsVars>> PROVE AtOnce'
  <2>1. Frame(WebhookState) /\ UNCHANGED scope
    BY <1>1, <1>inv, WebhooksKeep
  <2>2. CallsTyped' /\ OwnDelivery' /\ FilesTyped'
    BY <1>1, <1>inv, <1>files, CallsStayTyped, OwnDeliveryStays
  <2>3. Without({"overlap"}) => OneAtWork'
    BY <1>1, <1>inv, OneDeliversAtWork
  <2>4. Without({"overlap", "crash"}) => CountInv'
    BY <1>1, <1>inv, CountKeeps
  <2>5. \A q \in Requests : req[q] \in Sending \/ req'[q] \in Sending => req'[q] = req[q]
    <3>1. WebhookState \cap Sending = {} /\ Requests \subseteq Processes
      BY Disjoint DEF Processes
    <3> QED
      BY <1>1, <1>inv, <2>1, <3>1, WebhooksMove DEF Frame
  <2>6. SentInv => SentInv'
    BY <1>1, <1>inv, <2>5, SentStays
  <2> QED
    BY <1>inv, <2>1, <2>2, <2>3, <2>4, <2>6, ScopesNest DEF AtOnce, AtOnceInv
<1>2. ASSUME NotificationsNext, UNCHANGED <<webhookVars, programmeVars, documentVars, operationsVars>> PROVE AtOnce'
  <2> DEFINE S == Sending \cup Announced
  <2>1. Frame(NoteState) /\ UNCHANGED scope /\ Takes(S)
    BY <1>2, <1>inv, NotificationsKeep, NotificationsTake
  <2>2. S \cap Delivering = {} /\ NoteState \cap Delivering = {}
    BY Disjoint DEF Sending, Announced, Delivering
  <2> HIDE DEF S
  <2>3. CallsTyped' /\ OwnDelivery' /\ (CountInv => CountInv')
    BY <1>2, <1>inv, <2>1, <2>2, OthersKeepDeliveries
  <2>4. Without({"overlap"}) => OneAtWork'
    BY <1>inv, <2>1, OneStaysAtWork
  <2>5. Without({"overlap", "lost", "crash", "patch"}) => SentInv'
    BY <1>2, <1>inv, <2>1, SentKeeps, ScopesNest
  <2> QED
    BY <1>2, <1>inv, <1>files, <2>1, <2>3, <2>4, <2>5, ScopesNest DEF AtOnce, AtOnceInv
<1>3. ASSUME ProgrammesNext, UNCHANGED <<webhookVars, notificationVars, documentVars, operationsVars>> PROVE AtOnce'
  <2> DEFINE S == Announcing \cup Adding
  <2>1. Frame(ProgrammeState) /\ UNCHANGED scope /\ Takes(S)
    BY <1>3, <1>inv, ProgrammesKeep, ProgrammesTake DEF notificationVars
  <2>2. S \cap (Delivering \cup Sending) = {} /\ ProgrammeState \cap (Delivering \cup Sending) = {}
    BY Disjoint DEF Sending, Announcing, Adding, Delivering
  <2> HIDE DEF S
  <2> QED
    BY <1>3, <1>files, <1>other, <2>1, <2>2
<1>4. ASSUME DocumentsNext, UNCHANGED <<webhookVars, notificationVars, programmeVars, operationsVars>> PROVE AtOnce'
  <2>1. Frame(DocumentState) /\ UNCHANGED scope /\ Takes(DocumentState) /\ FilesTyped'
    BY <1>4, <1>inv, DocumentsKeep, DocumentsTake, FilesStayTyped
  <2>2. DocumentState \cap (Delivering \cup Sending) = {}
    BY Disjoint
  <2> QED
    BY <1>4, <1>other, <2>1, <2>2
<1>5. ASSUME OperationsNext, UNCHANGED <<webhookVars, notificationVars, programmeVars, documentVars>> PROVE AtOnce'
  <2>1. Frame(OperationState) /\ UNCHANGED scope /\ (Takes(OperationState) \/ UNCHANGED req)
    BY <1>5, <1>inv, OperationsKeep, OperationsTake
  <2>2. OperationState \cap (Delivering \cup Sending) = {}
    BY Disjoint
  <2> QED
    BY <1>5, <1>files, <1>other, <2>1, <2>2
\* Where the process stops, nothing is said of what it has counted and sent.
<1>6. CASE crash
  <2>1. /\ UNCHANGED <<webhookVars, documentVars, scope>> /\ "crash" \in scope
        /\ \A q \in Processes : req'[q] = Idle
    BY <1>6 DEF crash
  <2>2. ~Without({"overlap", "crash"})' /\ ~Without({"overlap", "lost", "crash", "patch"})'
    BY <2>1 DEF Without
  <2>3. CallsTyped' /\ OwnDelivery' /\ OneAtWork'
    BY <1>inv, <2>1 DEF CallsTyped, OwnDelivery, OneAtWork, Processes, webhookVars
  <2> QED
    BY <1>files, <2>1, <2>2, <2>3 DEF AtOnce, AtOnceInv
<1>7. CASE UNCHANGED vars
  <2>1. UNCHANGED req /\ UNCHANGED <<webhookVars, notificationVars, scope>> /\ FilesTyped'
    BY <1>7, <1>files DEF vars
  <2>2. Frame({}) /\ {} \cap (Delivering \cup Sending) = {}
    BY <2>1 DEF Frame
  <2> QED
    BY <1>other, <2>1, <2>2
<1> QED
  BY <1>1, <1>2, <1>3, <1>4, <1>5, <1>6, <1>7 DEF Next

\* Which requests have which fields.
LEMMA ByField ==
  ASSUME NEW s \in State
  PROVE  /\ "delivery" \in DOMAIN s <=> s \in Delivering
         /\ "lifecycle" \in DOMAIN s => s \in Sending
         /\ "programme" \in DOMAIN s => s \in Announcing \cup Adding
         /\ "document" \in DOMAIN s => s \in Uploading \cup Changing \cup Retyping \cup Reading
<1> USE DEF Idle, Emitting, Delivering, Sending, Announced, Announcing, Adding, Uploading, Changing,
            Retyping, Reading, Testing, Summing
<1>1. CASE s \in WebhookState
  BY <1>1 DEF WebhookState
<1>2. CASE s \in NoteState
  BY <1>2 DEF NoteState
<1>3. CASE s \in ProgrammeState
  BY <1>3 DEF ProgrammeState
<1>4. CASE s \in DocumentState
  BY <1>4 DEF DocumentState
<1>5. CASE s \in OperationState
  BY <1>5 DEF OperationState
<1> QED
  BY <1>1, <1>2, <1>3, <1>4, <1>5 DEF State

LEMMA PlatformTyped == PlatformInv /\ AtOnce => TypeOK
<1> SUFFICES ASSUME PlatformInv, AtOnce PROVE TypeOK
  OBVIOUS
<1>1. \A r \in Processes : req[r] \in State
  BY DEF PlatformInv, ReqTyped
<1>2. Requests \subseteq Processes
  BY DEF Processes
<1>3. WebhooksTypeOK
  <2>1. \A r \in Requests : at(r, "emit") => req[r] \in Emitting
    BY <1>1, <1>2, ByPhase DEF at
  <2>2. \A r \in Processes : "delivery" \in DOMAIN req[r] => req[r] \in Delivering
    BY <1>1, ByField
  <2> QED
    BY <2>1, <2>2 DEF PlatformInv, AtOnce, AtOnceInv, DeliveryInv, CallsTyped, WebhooksTypeOK
<1>4. NotificationsTypeOK
  <2>1. \A r \in Requests : "lifecycle" \in DOMAIN req[r] => req[r] \in Sending
    BY <1>1, <1>2, ByField
  <2>2. \A r \in Requests : at(r, "announce") => req[r] \in [phase : {"announce"}, about : Occasions]
    BY <1>1, <1>2, ByPhase DEF at, Announced
  <2> QED
    BY <2>1, <2>2 DEF PlatformInv, NoteInv, NotificationsTypeOK
<1>5. ProgrammesTypeOK
  <2>1. \A r \in Requests : "programme" \in DOMAIN req[r] => req[r] \in Announcing \cup Adding
    BY <1>1, <1>2, ByField
  <2>2. participants \in [Programmes \X Counterparties -> Nat]
    BY DEF PlatformInv, ProgrammeInv
  <2> QED
    BY <2>1, <2>2 DEF PlatformInv, ProgrammeInv, ProgrammesTypeOK
<1>6. DocumentsTypeOK
  <2>1. \A r \in Requests :
          "document" \in DOMAIN req[r] => req[r] \in Uploading \cup Changing \cup Retyping \cup Reading
    BY <1>1, <1>2, ByField
  <2> QED
    BY <2>1 DEF PlatformInv, AtOnce, DocumentInv, AuditInv, FilesTyped, DocumentsTypeOK
<1>7. OperationsTypeOK
  <2>1. \A r \in Requests : at(r, "sumCredits") => req[r] \in [phase : {"sumCredits"}, debits : Int]
    BY <1>1, <1>2, ByPhase DEF at, Summing
  <2> QED
    BY <2>1 DEF PlatformInv, OperationInv, OperationsTypeOK
<1> QED
  BY <1>3, <1>4, <1>5, <1>6, <1>7 DEF TypeOK

\* What the rows of deliveries and notifications say of the world outside is so, for
\* every number of requests, endpoints and retries: the attempts a row shows at rest
\* are the calls the endpoint got, and no provider takes one message twice, unless
\* what the property names occurs: overlapping requests, lost answers, a stop, a
\* row written by a PATCH.  Nothing is said of channels without a provider, which
\* dispatch answers as sent.
THEOREM DeliveriesAreTrue == Spec => []DeliveriesHold
<1>1. Init => AtOnce
  BY AtOnceInit
<1>2. PlatformInv /\ AtOnce /\ [Next]_vars => AtOnce'
  BY AtOnceStep
<1>3. Spec => []AtOnce
  BY <1>1, <1>2, PlatformInvariant, PTL DEF Spec
<1>4. PlatformInv /\ AtOnce => DeliveriesHold
  <2> SUFFICES ASSUME PlatformInv, AtOnce PROVE DeliveriesHold
    OBVIOUS
  <2>1. \A d \in Deliveries : resting(d) => \A q \in Processes : ~OnDelivery(q, d)
    <3>1. \A r \in Processes : req[r] \in Delivering => "delivery" \in DOMAIN req[r]
      BY DEF Delivering
    <3> QED
      BY <3>1 DEF resting, OnDelivery
  <2>2. \A d \in Deliveries : delivery[d].status = "RETRYING" => delivery[d] # NoDelivery
    BY DEF NoDelivery
  <2>3. AttemptsAreCalls /\ RetryingIsDue
    BY <2>1, <2>2 DEF AtOnce, AtOnceInv, CountInv, Settled, AttemptsAreCalls, RetryingIsDue
  <2>4. SentOnce
    BY DEF AtOnce, AtOnceInv, SentInv, SentOnce
  <2> QED
    BY <2>3, <2>4, PlatformTyped DEF PlatformInv, DeliveryInv, NoteInv, DeliveriesHold
<1> QED
  BY <1>3, <1>4, PlatformInvariant, PTL
-----------------------------------------------------------------------------
(* Accounts, sessions and the tab *)

\* One request at a time: what "overlap" lifts.
Alone == \A a, b \in Processes : req[a] # Idle /\ req[b] # Idle => a = b

AccountState == {Idle} \cup LoggingIn \cup Hashing \cup Comparing \cup Editing

\* Whoever a session, a reset token or a request is about has an account.
KnownInv ==
  /\ \A s \in Sessions : session[s] # NoSession => user[session[s].user] # NoUser
  /\ \A t \in ResetTokens : reset[t] # NoReset => user[reset[t].user] # NoUser
  /\ \A r \in Processes : req[r] # Idle => user[req[r].user] # NoUser

\* Nothing was signed or changed in the future.
PastInv ==
  /\ \A u \in Users : user[u] # NoUser => user[u].changed <= now
  /\ \A s \in Sessions : session[s] # NoSession => session[s].iat <= now

\* A reset token is either there, or with one request, or used up.
Using(r, t) == at(r, "setPassword") /\ req[r].token = t
TokenInv ==
  \A t \in ResetTokens :
    /\ resets[t] <= 1
    /\ reset[t] # NoReset => resets[t] = 0
    /\ \A r \in Processes : Using(r, t) => resets[t] = 0 /\ reset[t] = NoReset
    /\ \A p, q \in Processes : Using(p, t) /\ Using(q, t) => p = q

\* With one request at a time: a login carries the password there is, and a session signed
\* for another one is not younger than the change.
PasswordInv ==
  Without({"overlap"}) =>
    /\ Alone
    /\ \A r \in Processes : req[r] \in LoggingIn => req[r].password = user[req[r].user].password
    /\ \A s \in Sessions : session[s] # NoSession =>
         \/ session[s].password = user[session[s].user].password
         \/ session[s].iat <= user[session[s].user].changed

\* Unless roles change, those that were read are those there are.
RolesInv ==
  Without({"roles"}) =>
    /\ \A r \in Processes : req[r] \in LoggingIn \cup Editing => req[r].roles = user[req[r].user].roles
    /\ \A s \in Sessions : session[s] # NoSession => session[s].roles = user[session[s].user].roles

\* Nothing is counted in the future, and what is remembered of an account are its lookups.
RateInv ==
  /\ \A k \in Users \cup Clients : \A time \in 0..MaxTime : time > now => attempts[k][time] = 0
  /\ \A u \in Users : \A time \in 0..MaxTime : time > now => lookups[u][time] = 0
  /\ Without({"crash"}) => \A u \in Users : \A time \in recent : attempts[u][time] = lookups[u][time]
  /\ WithinRate

AccountsInv == AccountsTypeOK /\ KnownInv /\ PastInv /\ TokenInv /\ PasswordInv /\ RolesInv
-----------------------------------------------------------------------------
(* What a process is *)

LEMMA AccountByPhase ==
  ASSUME NEW s \in AccountState
  PROVE  /\ s.phase = "idle" <=> s = Idle
         /\ s.phase \in {"auditLogin", "sign"} <=> s \in LoggingIn
         /\ s.phase = "setPassword" <=> s \in Hashing
         /\ s.phase = "comparePassword" <=> s \in Comparing
         /\ s.phase = "editUser" <=> s \in Editing
  BY DEF AccountState, Idle, LoggingIn, Hashing, Comparing, Editing

LEMMA AccountBecomes ==
  ASSUME req \in [Processes -> AccountState], NEW r \in Processes, NEW s \in AccountState, become(r, s)
  PROVE  /\ req' \in [Processes -> AccountState]
         /\ req'[r] = s /\ \A q \in Processes \ {r} : req'[q] = req[q]
  BY DEF become

LEMMA AccountsInitially == BrowserInit => AccountsInv
<1> SUFFICES ASSUME BrowserInit PROVE AccountsInv
  OBVIOUS
<1> USE DEF BrowserInit, ServiceInit, AccountsInit
<1>1. PICK seed \in Seeds(scope) :
        user = [u \in Users |-> IF u \in DOMAIN seed
                               THEN [status |-> "ACTIVE", password |-> seed[u].password, changed |-> 0, roles |-> seed[u].roles]
                               ELSE NoUser]
  OBVIOUS
<1>2. user \in [Users -> {NoUser} \cup User] /\ \A u \in Users : user[u] # NoUser => user[u].changed = 0
  <2>1. \A u \in Users : u \in DOMAIN seed =>
          [status |-> "ACTIVE", password |-> seed[u].password, changed |-> 0, roles |-> seed[u].roles] \in User
    BY AccountsAssumption DEF User, UserStatus
  <2> QED
    BY <1>1, <2>1 DEF User, NoUser
<1>3. AccountsTypeOK
  <2>1. 0 \in 0..MaxTime /\ Never \in Tally
    BY AccountsAssumption DEF Never, Tally
  <2> QED
    BY <1>2, <2>1 DEF AccountsTypeOK
<1> QED
  BY <1>2, <1>3 DEF AccountsInv, KnownInv, PastInv, TokenInv, Using, at, Idle, PasswordInv, Alone, RolesInv, LoggingIn, Editing
-----------------------------------------------------------------------------
(* Steps *)

\* A request that begins, or goes on, with an account that exists and what it has read.
LEMMA AccountMoves ==
  ASSUME AccountsInv, NEW r \in Processes, NEW st \in AccountState, become(r, st),
         UNCHANGED <<now, user, session, resets, scope>>,
         reset' \in [ResetTokens -> {NoReset} \cup [user : Users, expires : Nat]],
         \A t \in ResetTokens : reset'[t] # NoReset => reset'[t] = reset[t],
         st # Idle => user[st.user] # NoUser,
         st \in Hashing /\ st.token # None =>
           /\ resets[st.token] = 0 /\ reset'[st.token] = NoReset
           /\ \A q \in Processes : ~Using(q, st.token),
         st # Idle /\ Without({"overlap"}) => \A q \in Processes \ {r} : req[q] = Idle,
         st \in LoggingIn /\ Without({"overlap"}) => st.password = user[st.user].password,
         st \in LoggingIn \cup Editing /\ Without({"roles"}) => st.roles = user[st.user].roles,
         UNCHANGED <<attempts, lookups>>
  PROVE  AccountsInv'
<1>1. req \in [Processes -> AccountState]
  BY DEF AccountsInv, AccountsTypeOK, AccountState
<1>2. /\ req' \in [Processes -> AccountState] /\ req'[r] = st
      /\ \A q \in Processes \ {r} : req'[q] = req[q]
  BY <1>1, AccountBecomes
<1> USE DEF AccountsInv
<1>3. AccountsTypeOK'
  BY <1>2 DEF AccountsTypeOK, AccountState
<1>4. KnownInv'
  BY <1>2 DEF KnownInv
<1>5. PastInv'
  BY DEF PastInv
<1>6. TokenInv'
  <2> SUFFICES ASSUME NEW t \in ResetTokens
               PROVE  /\ resets[t] <= 1
                      /\ reset'[t] # NoReset => resets[t] = 0
                      /\ \A q \in Processes : Using(q, t)' => resets[t] = 0 /\ reset'[t] = NoReset
                      /\ \A p, q \in Processes : Using(p, t)' /\ Using(q, t)' => p = q
    BY DEF TokenInv
  <2>1. \A q \in Processes \ {r} : Using(q, t)' <=> Using(q, t)
    BY <1>2 DEF Using, at
  <2>2. Using(r, t)' => st \in Hashing /\ st.token = t
    BY <1>2, AccountByPhase DEF Using, at
  <2>3. t # None
    BY AccountsAssumption
  <2> QED
    BY <2>1, <2>2, <2>3 DEF TokenInv
<1>7. PasswordInv'
  <2> SUFFICES ASSUME Without({"overlap"})' PROVE PasswordInv!2'
    BY DEF PasswordInv
  <2>1. Without({"overlap"})
    BY DEF Without
  <2>2. Alone'
    BY <1>2, <2>1 DEF Alone, PasswordInv
  <2> QED
    BY <1>2, <2>1, <2>2 DEF PasswordInv
<1>8. RolesInv'
  BY <1>2 DEF RolesInv, Without
<1> QED
  BY <1>3, <1>4, <1>5, <1>6, <1>7, <1>8

LEMMA BeginsAlone ==
  ASSUME NEW r \in Processes, NEW op, mayBegin(r, op), Without({"overlap"})
  PROVE  \A q \in Processes : req[q] = Idle
  BY DEF mayBegin, Without, Quiet

LEMMA GoesOnAlone ==
  ASSUME AccountsInv, NEW r \in Processes, req[r] # Idle, Without({"overlap"})
  PROVE  \A q \in Processes \ {r} : req[q] = Idle
  BY DEF AccountsInv, PasswordInv, Alone

LEMMA AccountRequests ==
  ASSUME AccountsInv, NEW r \in Requests,
         \/ auditLogin(r) \/ comparePassword(r)
         \/ \E t \in ResetTokens, password \in Passwords : confirmPasswordReset(r, t, password)
         \/ \E s \in Sessions, current, password \in Passwords : changePassword(r, s, current, password)
         \/ \E u \in Users, password \in Passwords : login(r, u, password)
         \/ \E u \in Users, status \in Statuses, password \in Passwords \cup {"none"}, roles \in SUBSET Roles :
              updateUser(r, u, status, password, roles)
  PROVE  AccountsInv'
<1>0. r \in Processes
  BY DEF Processes
<1>1. /\ req \in [Processes -> AccountState] /\ reset \in [ResetTokens -> {NoReset} \cup [user : Users, expires : Nat]]
      /\ user \in [Users -> {NoUser} \cup User] /\ session \in [Sessions -> {NoSession} \cup Session]
  BY DEF AccountsInv, AccountsTypeOK, AccountState
<1>idle. Idle \in AccountState /\ Idle \notin LoggingIn \cup Hashing \cup Comparing \cup Editing
  BY DEF AccountState, Idle, LoggingIn, Hashing, Comparing, Editing
<1>2. ASSUME auditLogin(r) PROVE AccountsInv'
  <2>1. req[r] \in LoggingIn /\ req[r] # Idle /\ UNCHANGED <<accountVars, scope>>
    BY <1>0, <1>1, <1>2, <1>idle, AccountByPhase DEF auditLogin, at
  <2>2. PICK st \in {[req[r] EXCEPT !.phase = "sign"], Idle} : become(r, st)
    BY <1>2 DEF auditLogin
  <2>3. st # Idle => /\ st \in LoggingIn /\ st.user = req[r].user
                     /\ st.password = req[r].password /\ st.roles = req[r].roles
    BY <2>1, <2>2 DEF LoggingIn
  <2>4. st \in LoggingIn => st \notin Hashing
    BY DEF LoggingIn, Hashing
  <2>5. user[req[r].user] # NoUser
    BY <1>0, <2>1 DEF AccountsInv, KnownInv
  <2>6. Without({"overlap"}) => req[r].password = user[req[r].user].password
    BY <1>0, <2>1 DEF AccountsInv, PasswordInv
  <2>7. Without({"roles"}) => req[r].roles = user[req[r].user].roles
    BY <1>0, <2>1 DEF AccountsInv, RolesInv
  <2>8. Without({"overlap"}) => \A q \in Processes \ {r} : req[q] = Idle
    BY <1>0, <2>1, GoesOnAlone
  <2>9. st \in AccountState
    BY <2>3, <1>idle DEF AccountState
  <2> HIDE DEF Idle
  <2> QED
    BY <1>0, <1>1, <1>idle, <2>1, <2>2, <2>3, <2>4, <2>5, <2>6, <2>7, <2>8, <2>9, AccountMoves DEF accountVars
<1>3. ASSUME comparePassword(r) PROVE AccountsInv'
  <2>1. req[r] \in Comparing /\ req[r] # Idle /\ UNCHANGED <<accountVars, scope>>
    BY <1>0, <1>1, <1>3, <1>idle, AccountByPhase DEF comparePassword, at
  <2>2. PICK st \in {hashing(req[r].user, req[r].password, "none"), Idle} : become(r, st)
    BY <1>3 DEF comparePassword
  <2>3. st # Idle => st \in Hashing /\ st.user = req[r].user /\ st.token = None
    BY <2>1, <2>2 DEF Hashing, Comparing, hashing, None
  <2>4. st \in Hashing => st \notin LoggingIn \cup Editing
    BY DEF LoggingIn, Hashing, Editing
  <2>5. user[req[r].user] # NoUser
    BY <1>0, <2>1 DEF AccountsInv, KnownInv
  <2>6. Without({"overlap"}) => \A q \in Processes \ {r} : req[q] = Idle
    BY <1>0, <2>1, GoesOnAlone
  <2>7. st \in AccountState
    BY <2>3, <1>idle DEF AccountState
  <2> HIDE DEF Idle
  <2> QED
    BY <1>0, <1>1, <1>idle, <2>1, <2>2, <2>3, <2>4, <2>5, <2>6, <2>7, AccountMoves DEF accountVars
<1>4. ASSUME NEW t \in ResetTokens, NEW password \in Passwords, confirmPasswordReset(r, t, password) PROVE AccountsInv'
  <2>1. /\ reset[t] # NoReset /\ reset' = [reset EXCEPT ![t] = NoReset] /\ mayBegin(r, "reset")
        /\ UNCHANGED <<now, user, session, resets, attempts, lookups, scope>>
    BY <1>4 DEF confirmPasswordReset
  <2>2. PICK st \in {hashing(reset[t].user, password, t), Idle} : become(r, st)
    BY <1>4 DEF confirmPasswordReset
  <2>3. reset[t].user \in Users
    BY <1>1, <2>1
  <2>4. st # Idle => st \in Hashing /\ st.user = reset[t].user /\ st.token = t
    BY <2>2, <2>3 DEF Hashing, hashing
  <2>5. st \in Hashing => st \notin LoggingIn \cup Editing
    BY DEF LoggingIn, Hashing, Editing
  <2>6. user[reset[t].user] # NoUser
    BY <2>1 DEF AccountsInv, KnownInv
  <2>7. Without({"overlap"}) => \A q \in Processes \ {r} : req[q] = Idle
    BY <1>0, <2>1, BeginsAlone
  <2>8. st \in AccountState
    BY <2>4, <1>idle DEF AccountState
  <2>9. resets[t] = 0 /\ \A q \in Processes : ~Using(q, t)
    BY <2>1 DEF AccountsInv, TokenInv
  <2>10. /\ reset' \in [ResetTokens -> {NoReset} \cup [user : Users, expires : Nat]] /\ reset'[t] = NoReset
         /\ \A o \in ResetTokens : reset'[o] # NoReset => reset'[o] = reset[o]
    BY <1>1, <2>1
  <2> HIDE DEF Idle
  <2> QED
    BY <1>0, <1>1, <1>idle, <2>1, <2>2, <2>4, <2>5, <2>6, <2>7, <2>8, <2>9, <2>10, AccountMoves
<1>5. ASSUME NEW s \in Sessions, NEW current \in Passwords, NEW password \in Passwords,
             changePassword(r, s, current, password) PROVE AccountsInv'
  <2> DEFINE st == [phase |-> "comparePassword", user |-> session[s].user, current |-> current, password |-> password]
  <2>1. /\ session[s] # NoSession /\ become(r, st) /\ mayBegin(r, "password") /\ UNCHANGED <<accountVars, scope>>
    BY <1>5 DEF changePassword, validate
  <2>2. session[s].user \in Users /\ user[session[s].user] # NoUser
    BY <1>1, <2>1 DEF AccountsInv, KnownInv, Session
  <2>3. st \in Comparing /\ st \notin LoggingIn \cup Hashing \cup Editing /\ st.user = session[s].user
    BY <2>2 DEF Comparing, LoggingIn, Hashing, Editing
  <2>4. Without({"overlap"}) => \A q \in Processes \ {r} : req[q] = Idle
    BY <1>0, <2>1, BeginsAlone
  <2> HIDE DEF st
  <2>5. st \in AccountState
    BY <2>3 DEF AccountState
  <2> QED
    BY <1>0, <1>1, <2>1, <2>2, <2>3, <2>4, <2>5, AccountMoves DEF accountVars
<1>6. ASSUME NEW u \in Users, NEW password \in Passwords, login(r, u, password) PROVE AccountsInv'
  <2> DEFINE st == [phase |-> "auditLogin", user |-> u, password |-> password, roles |-> user[u].roles]
  <2>1. /\ user[u] # NoUser /\ user[u].password = password /\ become(r, st) /\ mayBegin(r, "login")
        /\ UNCHANGED <<accountVars, scope>>
    BY <1>6 DEF login
  <2>2. user[u].roles \in SUBSET Roles
    BY <1>1, <2>1 DEF User
  <2>3. /\ st \in LoggingIn /\ st \notin Hashing \cup Editing
        /\ st.user = u /\ st.password = password /\ st.roles = user[u].roles
    BY <2>2 DEF LoggingIn, Hashing, Editing
  <2>4. Without({"overlap"}) => \A q \in Processes \ {r} : req[q] = Idle
    BY <1>0, <2>1, BeginsAlone
  <2> HIDE DEF st
  <2>5. st \in AccountState
    BY <2>3 DEF AccountState
  <2> QED
    BY <1>0, <1>1, <2>1, <2>3, <2>4, <2>5, AccountMoves DEF accountVars
<1>7. ASSUME NEW u \in Users, NEW status \in Statuses, NEW password \in Passwords \cup {"none"},
             NEW roles \in SUBSET Roles, updateUser(r, u, status, password, roles) PROVE AccountsInv'
  <2> DEFINE st == [phase |-> "editUser", user |-> u, status |-> status, password |-> password, roles |-> roles]
  <2>1. /\ user[u] # NoUser /\ become(r, st) /\ mayBegin(r, "edit") /\ UNCHANGED <<accountVars, scope>>
        /\ Without({"roles"}) => roles = user[u].roles
    BY <1>7 DEF updateUser, Without
  <2>2. /\ st \in Editing /\ st \notin LoggingIn \cup Hashing /\ st.user = u /\ st.roles = roles
    BY AccountsAssumption DEF LoggingIn, Hashing, Editing
  <2>3. Without({"overlap"}) => \A q \in Processes \ {r} : req[q] = Idle
    BY <1>0, <2>1, BeginsAlone
  <2> HIDE DEF st
  <2>4. st \in AccountState
    BY <2>2 DEF AccountState
  <2> QED
    BY <1>0, <1>1, <2>1, <2>2, <2>3, <2>4, AccountMoves DEF accountVars
<1> QED
  BY <1>2, <1>3, <1>4, <1>5, <1>6, <1>7

\* A request ends: nobody else notices.
LEMMA AccountEnds ==
  ASSUME req \in [Processes -> AccountState], NEW r \in Processes, become(r, Idle)
  PROVE  /\ req' \in [Processes -> AccountState]
         /\ \A q \in Processes : req'[q] # Idle => q # r /\ req'[q] = req[q]
         /\ \A q \in Processes : req'[q] \in LoggingIn \cup Editing => q # r /\ req'[q] = req[q]
         /\ \A q \in Processes, t \in ResetTokens : Using(q, t)' => q # r /\ Using(q, t)
         /\ Alone => Alone'
<1>1. Idle \in AccountState /\ Idle \notin LoggingIn \cup Editing /\ Idle.phase # "setPassword"
  BY DEF AccountState, Idle, LoggingIn, Editing
<1>2. /\ req' \in [Processes -> AccountState] /\ req'[r] = Idle
      /\ \A q \in Processes \ {r} : req'[q] = req[q]
  BY <1>1, AccountBecomes
<1> QED
  BY <1>1, <1>2 DEF Using, at, Alone

LEMMA SignKeeps ==
  ASSUME AccountsInv, NEW r \in Requests, sign(r)
  PROVE  AccountsInv'
<1> USE DEF AccountsInv
<1>1. /\ req \in [Processes -> AccountState] /\ r \in Processes
      /\ user \in [Users -> {NoUser} \cup User] /\ session \in [Sessions -> {NoSession} \cup Session]
      /\ now \in 0..MaxTime
  BY DEF AccountsTypeOK, AccountState, Processes
<1>2. req[r] \in LoggingIn /\ req[r] # Idle
  BY <1>1, AccountByPhase DEF sign, at, LoggingIn, Idle
<1>3. become(r, Idle) /\ UNCHANGED <<now, user, reset, resets, attempts, lookups, scope>>
  BY DEF sign
<1> DEFINE new == [user |-> req[r].user, iat |-> now, password |-> req[r].password, roles |-> req[r].roles]
<1>4. new \in Session /\ new # NoSession
  BY <1>1, <1>2 DEF LoggingIn, Session, NoSession
<1>5. /\ session' \in [Sessions -> {NoSession} \cup Session]
      /\ \A s \in Sessions : session'[s] # NoSession => session'[s] = session[s] \/ session'[s] = new
  BY <1>1, <1>4 DEF sign
<1>6. new.user = req[r].user /\ new.iat = now /\ new.password = req[r].password /\ new.roles = req[r].roles
  OBVIOUS
<1> HIDE DEF new
<1>7. AccountsTypeOK'
  BY <1>1, <1>3, <1>5, AccountEnds DEF AccountsTypeOK, AccountState
<1>8. KnownInv'
  BY <1>1, <1>2, <1>3, <1>5, <1>6, AccountEnds DEF KnownInv
<1>9. PastInv'
  BY <1>1, <1>3, <1>5, <1>6 DEF PastInv
<1>10. TokenInv'
  BY <1>1, <1>3, AccountEnds DEF TokenInv
<1>11. PasswordInv'
  <2> SUFFICES ASSUME Without({"overlap"})' PROVE PasswordInv!2'
    BY DEF PasswordInv
  <2>1. Without({"overlap"})
    BY <1>3 DEF Without
  <2> QED
    BY <1>1, <1>2, <1>3, <1>5, <1>6, <2>1, AccountEnds DEF PasswordInv
<1>12. RolesInv'
  BY <1>1, <1>2, <1>3, <1>5, <1>6, AccountEnds DEF RolesInv, Without
<1> QED
  BY <1>7, <1>8, <1>9, <1>10, <1>11, <1>12

\* An account is written: what its row says may be new, its password as of now.
LEMMA AccountWritten ==
  ASSUME AccountsInv, UNCHANGED <<now, session, reset, scope>>, req' \in [Processes -> AccountState],
         \A q \in Processes : req'[q] # Idle => req'[q] = req[q],
         \A q \in Processes : req'[q] \in LoggingIn \cup Editing => req'[q] = req[q],
         NEW u \in Users, NEW row \in User, user' = [user EXCEPT ![u] = row],
         row.changed <= now,
         user[u] # NoUser => /\ row.changed = now \/ (row.password = user[u].password /\ row.changed = user[u].changed)
                             /\ Without({"roles"}) => row.roles = user[u].roles,
         Without({"overlap"}) => \A q \in Processes : req'[q] = Idle,
         resets' \in [ResetTokens -> Nat], TokenInv', UNCHANGED <<attempts, lookups>>
  PROVE  AccountsInv'
<1> USE DEF AccountsInv
<1>1. /\ user \in [Users -> {NoUser} \cup User] /\ session \in [Sessions -> {NoSession} \cup Session]
      /\ req \in [Processes -> AccountState] /\ now \in 0..MaxTime
      /\ reset \in [ResetTokens -> {NoReset} \cup [user : Users, expires : Nat]]
  BY DEF AccountsTypeOK, AccountState
<1>2. /\ user' \in [Users -> {NoUser} \cup User] /\ user'[u] = row /\ row # NoUser
      /\ \A o \in Users \ {u} : user'[o] = user[o]
  BY <1>1 DEF User, NoUser, UserStatus
<1>3. \A s \in Sessions : session[s] # NoSession => session[s].user \in Users /\ session[s].iat \in 0..MaxTime
  BY <1>1 DEF Session
<1>4. \A o \in Users : user[o] # NoUser => user'[o] # NoUser /\ user[o].changed \in 0..MaxTime
  BY <1>1, <1>2 DEF User
<1>5. \A q \in Processes : req[q] # Idle => req[q].user \in Users
  BY <1>1 DEF AccountState, LoggingIn, Hashing, Comparing, Editing
<1>6. \A t \in ResetTokens : reset[t] # NoReset => reset[t].user \in Users
  BY <1>1
<1>idle. Idle \notin LoggingIn \cup Editing
  BY DEF Idle, LoggingIn, Editing
<1>7. AccountsTypeOK'
  BY <1>2 DEF AccountsTypeOK, AccountState
<1>8. KnownInv'
  BY <1>3, <1>4, <1>5, <1>6 DEF KnownInv
<1>9. PastInv'
  BY <1>2, <1>3 DEF PastInv
<1>10. PasswordInv'
  <2> SUFFICES ASSUME Without({"overlap"})' PROVE PasswordInv!2'
    BY DEF PasswordInv
  <2>1. Without({"overlap"})
    BY DEF Without
  <2>2. Alone' /\ \A q \in Processes : req'[q] \notin LoggingIn
    BY <2>1, <1>idle DEF Alone
  <2>3. ASSUME NEW s \in Sessions, session[s] # NoSession
        PROVE  \/ session[s].password = user'[session[s].user].password
               \/ session[s].iat <= user'[session[s].user].changed
    <3>1. CASE session[s].user = u
      BY <1>1, <1>2, <1>3, <1>4, <2>1, <2>3, <3>1 DEF PasswordInv, KnownInv, PastInv
    <3>2. CASE session[s].user # u
      BY <1>2, <1>3, <2>1, <2>3, <3>2 DEF PasswordInv
    <3> QED
      BY <3>1, <3>2
  <2> QED
    BY <2>2, <2>3
<1>11. RolesInv'
  <2> SUFFICES ASSUME Without({"roles"})' PROVE RolesInv!2'
    BY DEF RolesInv
  <2>1. Without({"roles"})
    BY DEF Without
  <2>2. \A o \in Users : user[o] # NoUser => user'[o].roles = user[o].roles
    BY <1>2, <2>1
  <2> QED
    BY <1>3, <1>5, <1>idle, <2>1, <2>2 DEF RolesInv, KnownInv
<1> QED
  BY <1>7, <1>8, <1>9, <1>10, <1>11

LEMMA SetPasswordKeeps ==
  ASSUME AccountsInv, NEW r \in Requests, setPassword(r)
  PROVE  AccountsInv'
<1> USE DEF AccountsInv
<1>1. /\ req \in [Processes -> AccountState] /\ r \in Processes /\ now \in 0..MaxTime
      /\ user \in [Users -> {NoUser} \cup User] /\ resets \in [ResetTokens -> Nat]
  BY DEF AccountsTypeOK, AccountState, Processes
<1>2. req[r] \in Hashing /\ req[r] # Idle
  BY <1>1, AccountByPhase DEF setPassword, at, Hashing, Idle
<1>3. PICK u \in Users : u = req[r].user
  BY <1>2 DEF Hashing
<1> DEFINE row == [user[u] EXCEPT !.password = req[r].password, !.changed = now, !.status = "ACTIVE"]
<1>4. user[u] \in User
  BY <1>1, <1>2, <1>3 DEF KnownInv
<1>5. row \in User /\ row.changed = now /\ row.roles = user[u].roles
  BY <1>1, <1>2, <1>4 DEF User, UserStatus, Hashing
<1>6. /\ user' = [user EXCEPT ![u] = row] /\ become(r, Idle)
      /\ resets' = IF req[r].token = "none" THEN resets ELSE [resets EXCEPT ![req[r].token] = @ + 1]
      /\ UNCHANGED <<now, session, reset, attempts, lookups, scope>>
  <2>1. user' = [user EXCEPT ![u].password = req[r].password, ![u].changed = now, ![u].status = "ACTIVE"]
    BY <1>3 DEF setPassword
  <2> QED
    BY <1>1, <1>4, <2>1 DEF setPassword, User
<1>7. resets' \in [ResetTokens -> Nat]
  BY <1>1, <1>2, <1>6 DEF Hashing, None
<1>8. Without({"overlap"}) => \A q \in Processes : req'[q] = Idle
  BY <1>1, <1>2, <1>6, GoesOnAlone, AccountEnds
<1>9. TokenInv'
  <2> SUFFICES ASSUME NEW t \in ResetTokens
               PROVE  /\ resets'[t] <= 1
                      /\ reset[t] # NoReset => resets'[t] = 0
                      /\ \A q \in Processes : Using(q, t)' => resets'[t] = 0 /\ reset[t] = NoReset
                      /\ \A p, q \in Processes : Using(p, t)' /\ Using(q, t)' => p = q
    BY <1>6 DEF TokenInv
  <2>1. CASE req[r].token = t
    <3>1. Using(r, t) /\ t # None
      BY <2>1, AccountsAssumption DEF Using, setPassword
    <3>2. resets'[t] = 1 /\ reset[t] = NoReset
      BY <1>1, <1>6, <2>1, <3>1 DEF TokenInv, None
    <3>3. \A q \in Processes : ~Using(q, t)'
      BY <1>1, <1>6, <3>1, AccountEnds DEF TokenInv
    <3> QED
      BY <3>2, <3>3
  <2>2. CASE req[r].token # t
    <3>1. resets'[t] = resets[t]
      BY <1>1, <1>6, <2>2
    <3> QED
      BY <1>1, <1>6, <3>1, AccountEnds DEF TokenInv
  <2> QED
    BY <2>1, <2>2
<1> HIDE DEF row
<1>10. \A q \in Processes : req'[q] # Idle => req'[q] = req[q]
  BY <1>1, <1>6, AccountEnds
<1>11. \A q \in Processes : req'[q] \in LoggingIn \cup Editing => req'[q] = req[q]
  BY <1>1, <1>6, AccountEnds
<1>12. req' \in [Processes -> AccountState] /\ row.changed <= now
  BY <1>1, <1>5, <1>6, AccountEnds, AccountsAssumption
<1> QED
  BY <1>5, <1>6, <1>7, <1>8, <1>9, <1>10, <1>11, <1>12, AccountWritten

LEMMA WriteUserKeeps ==
  ASSUME AccountsInv, NEW r \in Requests, writeUser(r)
  PROVE  AccountsInv'
<1> USE DEF AccountsInv
<1>1. /\ req \in [Processes -> AccountState] /\ r \in Processes /\ now \in 0..MaxTime
      /\ user \in [Users -> {NoUser} \cup User] /\ resets \in [ResetTokens -> Nat]
  BY DEF AccountsTypeOK, AccountState, Processes
<1>2. req[r] \in Editing /\ req[r] # Idle
  BY <1>1, AccountByPhase DEF writeUser, at, Editing, Idle
<1>3. PICK u \in Users : u = req[r].user
  BY <1>2 DEF Editing
<1>4. user[u] \in User /\ user[u] # NoUser
  BY <1>1, <1>2, <1>3 DEF KnownInv
<1> DEFINE edited == [user[u] EXCEPT !.status = req[r].status, !.roles = req[r].roles]
           row == IF req[r].password = "none" THEN edited
                  ELSE [edited EXCEPT !.password = req[r].password, !.changed = now]
<1>5. /\ row \in User /\ row.roles = req[r].roles
      /\ row.changed = now \/ (row.password = user[u].password /\ row.changed = user[u].changed)
      /\ row.changed <= now
  <2>1. /\ edited \in User /\ edited.roles = req[r].roles
        /\ edited.password = user[u].password /\ edited.changed = user[u].changed
    BY <1>2, <1>4 DEF User, Editing
  <2>2. user[u].changed <= now
    BY <1>4 DEF PastInv
  <2> HIDE DEF edited
  <2>3. CASE req[r].password = "none"
    BY <2>1, <2>2, <2>3
  <2>4. CASE req[r].password # "none"
    <3>1. row = [edited EXCEPT !.password = req[r].password, !.changed = now]
      BY <2>4
    <3>2. now <= now /\ req[r].password \in Passwords
      BY <1>1, <1>2, <2>4, AccountsAssumption DEF Editing
    <3> HIDE DEF row
    <3> QED
      BY <1>1, <2>1, <3>1, <3>2 DEF User
  <2> QED
    BY <2>3, <2>4
<1>6. /\ user' = [user EXCEPT ![u] = row] /\ become(r, Idle)
      /\ UNCHANGED <<now, session, reset, resets, attempts, lookups, scope>>
  <2> DEFINE all == [user EXCEPT ![u].status = req[r].status, ![u].roles = req[r].roles]
  <2>1. user' = IF req[r].password = "none" THEN all
                ELSE [all EXCEPT ![u].password = req[r].password, ![u].changed = now]
    BY <1>3 DEF writeUser
  <2>2. all = [user EXCEPT ![u] = edited]
    BY <1>1, <1>4 DEF User
  <2>3. edited \in User
    BY <1>2, <1>4 DEF User, Editing
  <2> HIDE DEF all, edited
  <2>4. user' = [user EXCEPT ![u] = row]
    BY <1>1, <2>1, <2>2, <2>3 DEF User
  <2> QED
    BY <2>4 DEF writeUser
<1> HIDE DEF row
<1>7. Without({"roles"}) => row.roles = user[u].roles
  BY <1>1, <1>2, <1>3, <1>5 DEF RolesInv
<1>8. Without({"overlap"}) => \A q \in Processes : req'[q] = Idle
  BY <1>1, <1>2, <1>6, GoesOnAlone, AccountEnds
<1>9. TokenInv'
  BY <1>1, <1>6, AccountEnds DEF TokenInv
<1>10. \A q \in Processes : req'[q] # Idle => req'[q] = req[q]
  BY <1>1, <1>6, AccountEnds
<1>11. \A q \in Processes : req'[q] \in LoggingIn \cup Editing => req'[q] = req[q]
  BY <1>1, <1>6, AccountEnds
<1>12. req' \in [Processes -> AccountState] /\ resets' \in [ResetTokens -> Nat]
  BY <1>1, <1>6, AccountEnds
<1> QED
  BY <1>5, <1>6, <1>7, <1>8, <1>9, <1>10, <1>11, <1>12, AccountWritten

LEMMA CreateUserKeeps ==
  ASSUME AccountsInv, NEW r \in Requests, NEW u \in Users, NEW status \in {"INVITED", "ACTIVE"},
         NEW password \in Passwords, NEW roles \in SUBSET Roles, createUser(r, u, status, password, roles)
  PROVE  AccountsInv'
<1> USE DEF AccountsInv
<1>1. /\ req \in [Processes -> AccountState] /\ r \in Processes /\ now \in 0..MaxTime
      /\ user \in [Users -> {NoUser} \cup User] /\ resets \in [ResetTokens -> Nat]
  BY DEF AccountsTypeOK, AccountState, Processes
<1> DEFINE row == [status |-> status, password |-> password, changed |-> now, roles |-> roles]
<1>2. row \in User /\ row.changed <= now
  BY <1>1 DEF User, UserStatus
<1>3. /\ user[u] = NoUser /\ user' = [user EXCEPT ![u] = row] /\ mayBegin(r, "create")
      /\ UNCHANGED <<now, session, reset, resets, attempts, lookups, req, scope>>
  BY DEF createUser
<1> HIDE DEF row
<1>4. Without({"overlap"}) => \A q \in Processes : req'[q] = Idle
  BY <1>1, <1>3, BeginsAlone
<1>5. TokenInv'
  BY <1>3 DEF TokenInv, Using, at
<1>6. \A q \in Processes : req'[q] = req[q]
  BY <1>3
<1>7. req' \in [Processes -> AccountState] /\ resets' \in [ResetTokens -> Nat]
  BY <1>1, <1>3
<1> QED
  BY <1>2, <1>3, <1>4, <1>5, <1>6, <1>7, AccountWritten

LEMMA ResetRequestedKeeps ==
  ASSUME AccountsInv, NEW r \in Requests, NEW t \in ResetTokens, NEW u \in Users, requestPasswordReset(r, t, u)
  PROVE  AccountsInv'
<1> USE DEF AccountsInv
<1> DEFINE new == [user |-> u, expires |-> now + Lifetime]
<1>1. /\ user[u] # NoUser /\ resets[t] = 0 /\ reset' = [reset EXCEPT ![t] = new]
      /\ \A q \in Processes : ~Using(q, t)
      /\ UNCHANGED <<now, user, session, resets, attempts, lookups, req, scope>>
  BY DEF requestPasswordReset, Using
<1>2. new \in [user : Users, expires : Nat] /\ new.user = u
  BY AccountsAssumption DEF AccountsTypeOK
<1> HIDE DEF new
<1>3. /\ reset' \in [ResetTokens -> {NoReset} \cup [user : Users, expires : Nat]]
      /\ \A o \in ResetTokens : o # t => reset'[o] = reset[o]
      /\ reset'[t] = new
  BY <1>1, <1>2 DEF AccountsTypeOK
<1>4. AccountsTypeOK'
  BY <1>1, <1>3 DEF AccountsTypeOK
<1>5. KnownInv'
  BY <1>1, <1>2, <1>3 DEF KnownInv
<1>6. TokenInv'
  BY <1>1, <1>3 DEF TokenInv, Using, at
<1>7. PastInv' /\ PasswordInv' /\ RolesInv'
  BY <1>1 DEF PastInv, PasswordInv, RolesInv, Alone, Without
<1> QED
  BY <1>4, <1>5, <1>6, <1>7

LEMMA TickKeeps == AccountsInv /\ tick => AccountsInv'
<1> SUFFICES ASSUME AccountsInv, tick PROVE AccountsInv'
  OBVIOUS
<1> USE DEF AccountsInv
<1>1. /\ now \in 0..MaxTime /\ now' = now + 1 /\ now' \in 0..MaxTime
      /\ UNCHANGED <<user, session, reset, resets, attempts, lookups, req, scope>>
  BY AccountsAssumption DEF tick, AccountsTypeOK
<1>2. AccountsTypeOK'
  BY <1>1 DEF AccountsTypeOK
<1>3. KnownInv' /\ TokenInv' /\ PasswordInv' /\ RolesInv'
  BY <1>1 DEF KnownInv, TokenInv, Using, at, PasswordInv, RolesInv, Alone, Without
<1>4. PastInv'
  <2>1. \A u \in Users : user[u] # NoUser => user[u].changed \in 0..MaxTime
    BY DEF AccountsTypeOK, User
  <2>2. \A s \in Sessions : session[s] # NoSession => session[s].iat \in 0..MaxTime
    BY DEF AccountsTypeOK, Session
  <2> QED
    BY <1>1, <2>1, <2>2 DEF PastInv
<1> QED
  BY <1>2, <1>3, <1>4

LEMMA RestartKeeps == AccountsInv /\ restart => AccountsInv'
<1> SUFFICES ASSUME AccountsInv, restart PROVE AccountsInv'
  OBVIOUS
<1> USE DEF AccountsInv
<1>1. /\ \A q \in Processes : req'[q] = Idle
      /\ \A t \in ResetTokens : reset'[t] = NoReset
      /\ UNCHANGED <<now, user, session, resets, lookups, scope>>
  BY DEF restart
<1>2. AccountsTypeOK'
  <2>1. Never \in Tally
    BY AccountsAssumption DEF Never, Tally
  <2> QED
    BY <2>1 DEF restart, AccountsTypeOK
<1>3. KnownInv' /\ PastInv'
  BY <1>1 DEF KnownInv, PastInv
<1>4. TokenInv'
  BY <1>1 DEF TokenInv, Using, at, Idle
<1>5. PasswordInv' /\ RolesInv'
  BY <1>1 DEF PasswordInv, RolesInv, Alone, Without, Idle, LoggingIn, Editing
<1> QED
  BY <1>2, <1>3, <1>4, <1>5
-----------------------------------------------------------------------------
(* Rates *)

LEMMA AmongIsTotal ==
  ASSUME NEW counts, NEW times
  PROVE  among(counts, times) = Total(counts, times)
  BY DEF among, Total

LEMMA SecondsAreNumbers == MaxTime \in Nat /\ \A time \in 0..MaxTime : time \in Nat /\ 0 \in Int
  BY AccountsAssumption

LEMMA RecentSeconds ==
  ASSUME NEW t \in 0..MaxTime, t = now
  PROVE  /\ recent \subseteq 0..now /\ 0..now \subseteq 0..MaxTime /\ now \in recent
         /\ IsFiniteSet(0..now) /\ IsFiniteSet(recent)
<1>1. recent \subseteq 0..now /\ 0..now \subseteq 0..MaxTime /\ now \in recent
  BY AccountsAssumption DEF recent
<1>2. IsFiniteSet(0..now)
  BY FS_Interval, SecondsAreNumbers
<1> QED
  BY <1>1, <1>2, FS_Subset

LEMMA TallyCounts ==
  ASSUME NEW f \in Tally, NEW time \in 0..MaxTime
  PROVE  f[time] \in Nat /\ f[time] + 1 \in Nat
<1>1. f[time] \in Nat
  BY DEF Tally
<1> QED
  BY <1>1

\* Adding one at one moment adds one to the sum.
LEMMA OneMore ==
  ASSUME NEW S, IsFiniteSet(S), NEW f, NEW g, NEW y \in S, \A x \in S : f[x] \in Nat,
         g[y] = f[y] + 1, \A x \in S \ {y} : g[x] = f[x]
  PROVE  Total(g, S) = Total(f, S) + 1
<1>1. \A x \in S : g[x] \in Nat
  OBVIOUS
<1>2. Total(f, S) = f[y] + Total(f, S \ {y}) /\ Total(g, S) = g[y] + Total(g, S \ {y})
  BY <1>1, TotalRemove
<1>3. IsFiniteSet(S \ {y})
  BY FS_RemoveElement
<1>4. Total(g, S \ {y}) = Total(f, S \ {y})
  BY <1>3, TotalSame
<1>5. Total(f, S \ {y}) \in Nat
  BY <1>3, TotalType
<1> QED
  BY <1>2, <1>4, <1>5

LEMMA CountedIsOneMore ==
  ASSUME now \in 0..MaxTime, NEW k, attempts[k] \in Tally
  PROVE  /\ counted(k) \in Tally
         /\ \A time \in recent \ {now} : counted(k)[time] = attempts[k][time]
         /\ counted(k)[now] = attempts[k][now] + 1
         /\ \A time \in (0..MaxTime) \ recent : counted(k)[time] = 0
         /\ tried(k) \in Nat
         /\ among(counted(k), 0..now) = tried(k) + 1
<1>1. /\ recent \subseteq 0..now /\ 0..now \subseteq 0..MaxTime /\ now \in recent
      /\ IsFiniteSet(0..now) /\ IsFiniteSet(recent)
  BY RecentSeconds
<1>2. counted(k) \in Tally
  <2>1. \A time \in 0..MaxTime : attempts[k][time] \in Nat /\ attempts[k][time] + 1 \in Nat
    BY TallyCounts
  <2> QED
    BY <2>1 DEF counted, Tally
<1>3. \A time \in recent \ {now} : counted(k)[time] = attempts[k][time]
  BY <1>1 DEF counted
<1>4. counted(k)[now] = attempts[k][now] + 1
  BY <1>1 DEF counted
<1>5. \A time \in (0..MaxTime) \ recent : counted(k)[time] = 0
  BY DEF counted
<1>6. \A time \in 0..MaxTime : attempts[k][time] \in Nat /\ counted(k)[time] \in Nat
  BY <1>2 DEF Tally
<1> HIDE DEF counted
<1>7. Total(counted(k), recent) = Total(attempts[k], recent) + 1
  BY <1>1, <1>3, <1>4, <1>6, OneMore
<1>8. IsFiniteSet((0..now) \ recent) /\ recent \cup ((0..now) \ recent) = 0..now
  BY <1>1, FS_Difference
<1>9. Total(counted(k), (0..now) \ recent) = 0
  BY <1>1, <1>5, <1>8, TotalOfZeros
<1>10. Total(counted(k), 0..now) = Total(counted(k), recent) + Total(counted(k), (0..now) \ recent)
  <2>1. recent \cap ((0..now) \ recent) = {} /\ \A x \in recent \cup ((0..now) \ recent) : counted(k)[x] \in Nat
    BY <1>1, <1>6
  <2>2. Total(counted(k), recent \cup ((0..now) \ recent)) = Total(counted(k), recent) + Total(counted(k), (0..now) \ recent)
    BY <1>1, <1>8, <2>1, TotalUnion
  <2> QED
    BY <1>8, <2>2
<1>11. Total(attempts[k], recent) \in Nat
  BY <1>1, <1>6, TotalType
<1>12. tried(k) \in Nat /\ among(counted(k), 0..now) = tried(k) + 1
  BY <1>7, <1>9, <1>10, <1>11, AmongIsTotal DEF tried
<1> QED
  BY <1>2, <1>3, <1>4, <1>5, <1>12

LEMMA AttemptKeepsTypes ==
  ASSUME AccountsInv, NEW u \in Users, NEW client \in Clients, assertRateLimits(u, client),
         UNCHANGED <<now, user, session, reset, resets, req, scope>>
  PROVE  AccountsInv'
<1> USE DEF AccountsInv
<1>1. /\ now \in 0..MaxTime /\ attempts \in [Users \cup Clients -> Tally] /\ lookups \in [Users -> Tally]
  BY DEF AccountsTypeOK
<1>2. counted(u) \in Tally /\ counted(client) \in Tally
  BY <1>1, CountedIsOneMore
<1>3. [lookups[u] EXCEPT ![now] = @ + 1] \in Tally
  <2>1. lookups[u][now] + 1 \in Nat
    BY <1>1, TallyCounts
  <2> QED
    BY <1>1, <2>1 DEF Tally
<1>4. attempts' \in [Users \cup Clients -> Tally] /\ lookups' \in [Users -> Tally]
  BY <1>1, <1>2, <1>3 DEF assertRateLimits
<1>5. AccountsTypeOK'
  BY <1>4 DEF AccountsTypeOK
<1>6. KnownInv' /\ PastInv' /\ TokenInv' /\ PasswordInv' /\ RolesInv'
  BY DEF KnownInv, PastInv, TokenInv, Using, at, PasswordInv, RolesInv, Alone, Without
<1> QED
  BY <1>5, <1>6

Remembered == \A client \in Clients : among(attempts[client], 0..now) <= ClientLimit
LookedUp ==
  \A u \in Users, first \in 0..MaxTime :
    among(lookups[u], {time \in 0..now : time - first \in 0..Window - 1}) <= EmailLimit

\* What the limits let through is within them.
LEMMA AttemptIsWithinRate ==
  ASSUME AccountsTypeOK, RateInv, NEW u \in Users, NEW client \in Clients, assertRateLimits(u, client),
         UNCHANGED <<now, scope>>
  PROVE  RateInv'
<1>1. /\ now \in 0..MaxTime /\ attempts \in [Users \cup Clients -> Tally] /\ lookups \in [Users -> Tally]
      /\ u # client /\ u \notin Clients /\ client \notin Users
  BY AccountsAssumption DEF AccountsTypeOK
<1>2. /\ recent \subseteq 0..now /\ 0..now \subseteq 0..MaxTime /\ now \in recent
      /\ IsFiniteSet(0..now) /\ IsFiniteSet(recent)
  BY <1>1, RecentSeconds
<1>3. /\ \A time \in recent \ {now} : counted(u)[time] = attempts[u][time]
      /\ counted(u)[now] = attempts[u][now] + 1 /\ tried(u) \in Nat
      /\ \A time \in (0..MaxTime) \ recent : counted(u)[time] = 0
  BY <1>1, CountedIsOneMore
<1>4. /\ \A time \in (0..MaxTime) \ recent : counted(client)[time] = 0
      /\ tried(client) \in Nat /\ among(counted(client), 0..now) = tried(client) + 1
  BY <1>1, CountedIsOneMore
<1>5. CASE tried(client) >= ClientLimit
  <2>1. UNCHANGED <<attempts, lookups>>
    BY <1>5 DEF assertRateLimits
  <2> QED
    BY <2>1 DEF RateInv, WithinRate, Without, recent
<1>6. CASE ~(tried(client) >= ClientLimit)
  <2> DEFINE window(first) == {time \in 0..now : time - first \in 0..Window - 1}
  <2>1. /\ tried(client) < ClientLimit /\ attempts'[client] = counted(client)
        /\ \A c \in Clients \ {client} : attempts'[c] = attempts[c]
        /\ \A o \in Users \ {u} : attempts'[o] = attempts[o] /\ lookups'[o] = lookups[o]
        /\ \/ attempts'[u] = attempts[u] /\ lookups'[u] = lookups[u]
           \/ /\ tried(u) < EmailLimit /\ attempts'[u] = counted(u)
              /\ lookups'[u] = [lookups[u] EXCEPT ![now] = @ + 1]
    BY <1>1, <1>3, <1>4, <1>6, AccountsAssumption DEF assertRateLimits
  <2> HIDE DEF counted, tried
  <2>2. Remembered'
    <3>1. \A c \in Clients : among(attempts'[c], 0..now) <= ClientLimit
      BY <1>4, <2>1, AccountsAssumption DEF RateInv, WithinRate
    <3> QED
      BY <3>1 DEF Remembered
  <2>3. \A k \in Users \cup Clients : \A time \in 0..MaxTime : time > now => attempts'[k][time] = 0
    <3>1. \A time \in 0..MaxTime : time > now => time \notin recent
      BY <1>2
    <3> QED
      BY <1>3, <1>4, <2>1, <3>1 DEF RateInv
  <2>4. \A time \in 0..MaxTime : /\ time # now => lookups'[u][time] = lookups[u][time]
                                 /\ lookups'[u][time] \in Nat /\ lookups[u][time] \in Nat
    <3>1. \A time \in 0..MaxTime : lookups[u][time] \in Nat /\ lookups[u][time] + 1 \in Nat
      BY <1>1, TallyCounts
    <3>2. DOMAIN lookups[u] = 0..MaxTime
      BY <1>1 DEF Tally
    <3> QED
      BY <1>1, <2>1, <3>1, <3>2
  <2>5. \A o \in Users : \A time \in 0..MaxTime : time > now => lookups'[o][time] = 0
    BY <1>1, <2>1, <2>4 DEF RateInv
  <2>6. ASSUME Without({"crash"})
        PROVE  (\A o \in Users : \A time \in recent : attempts'[o][time] = lookups'[o][time]) /\ LookedUp'
    <3>1. \A o \in Users : \A time \in recent : attempts[o][time] = lookups[o][time]
      BY <2>6 DEF RateInv
    <3>2. \A o \in Users, first \in 0..MaxTime : among(lookups[o], window(first)) <= EmailLimit
      BY <2>6 DEF RateInv, WithinRate
    <3>3. \A o \in Users : \A time \in recent : attempts'[o][time] = lookups'[o][time]
      <4>1. DOMAIN lookups[u] = 0..MaxTime
        BY <1>1 DEF Tally
      <4>2. \A time \in recent : attempts'[u][time] = lookups'[u][time]
        <5>1. CASE attempts'[u] = attempts[u] /\ lookups'[u] = lookups[u]
          BY <3>1, <5>1
        <5>2. CASE attempts'[u] = counted(u) /\ lookups'[u] = [lookups[u] EXCEPT ![now] = @ + 1]
          <6>1. lookups'[u][now] = lookups[u][now] + 1
            BY <1>1, <4>1, <5>2
          <6>2. ASSUME NEW time \in recent, time # now PROVE attempts'[u][time] = lookups'[u][time]
            BY <1>2, <1>3, <2>4, <3>1, <5>2, <6>2
          <6>3. attempts'[u][now] = attempts[u][now] + 1 /\ attempts[u][now] = lookups[u][now]
            BY <1>2, <1>3, <3>1, <5>2
          <6> QED
            BY <6>1, <6>2, <6>3
        <5> QED
          BY <2>1, <5>1, <5>2
      <4> QED
        BY <2>1, <3>1, <4>2
    <3>4. ASSUME NEW first \in 0..MaxTime, tried(u) < EmailLimit, lookups'[u] = [lookups[u] EXCEPT ![now] = @ + 1]
          PROVE  among(lookups'[u], window(first)) <= EmailLimit
      <4>1. window(first) \subseteq 0..now /\ IsFiniteSet(window(first))
        BY <1>2, FS_Subset
      <4>2. CASE now \in window(first)
        <5>1. window(first) \subseteq recent
          BY <1>1, <4>2, AccountsAssumption DEF recent
        <5>2. Total(lookups'[u], window(first)) = Total(lookups[u], window(first)) + 1
          <6>1. \A time \in window(first) \ {now} : lookups'[u][time] = lookups[u][time]
            BY <1>2, <2>4, <4>1
          <6>2. lookups'[u][now] = lookups[u][now] + 1
            BY <1>1, <3>4 DEF Tally
          <6>3. \A time \in window(first) : lookups[u][time] \in Nat
            BY <1>2, <2>4, <4>1
          <6> HIDE DEF window
          <6> QED
            BY <4>1, <4>2, <6>1, <6>2, <6>3, OneMore
        <5>3. Total(lookups[u], window(first)) <= Total(lookups[u], recent)
          <6>1. \A time \in recent : lookups[u][time] \in Nat
            BY <1>2, <2>4
          <6> HIDE DEF window
          <6> QED
            BY <1>2, <5>1, <6>1, TotalMonotone
        <5>4. Total(lookups[u], recent) = tried(u)
          BY <1>2, <3>1, TotalSame, AmongIsTotal DEF tried
        <5>5. Total(lookups[u], window(first)) \in Nat
          <6>1. \A time \in window(first) : lookups[u][time] \in Nat
            BY <1>2, <2>4, <4>1
          <6> HIDE DEF window
          <6> QED
            BY <4>1, <6>1, TotalType
        <5> HIDE DEF window
        <5> QED
          BY <1>3, <3>4, <5>2, <5>3, <5>4, <5>5, AmongIsTotal, AccountsAssumption
      <4>3. CASE now \notin window(first)
        <5>1. \A time \in window(first) : lookups'[u][time] = lookups[u][time]
          BY <1>2, <2>4, <4>1, <4>3
        <5> HIDE DEF window
        <5>2. Total(lookups'[u], window(first)) = Total(lookups[u], window(first))
          BY <4>1, <5>1, TotalSame
        <5> QED
          BY <3>2, <5>2, AmongIsTotal
      <4> QED
        BY <4>2, <4>3
    <3>5. \A o \in Users, first \in 0..MaxTime : among(lookups'[o], window(first)) <= EmailLimit
      <4> HIDE DEF window
      <4> QED
        BY <2>1, <3>2, <3>4
    <3> QED
      BY <3>3, <3>5 DEF LookedUp
  <2>7. recent' = recent
    BY DEF recent
  <2>8. Without({"crash"})' <=> Without({"crash"})
    BY DEF Without
  <2> QED
    BY <2>2, <2>3, <2>5, <2>6, <2>7, <2>8 DEF RateInv, WithinRate, Remembered, LookedUp
<1> QED
  BY <1>1, <1>5, <1>6 DEF assertRateLimits

LEMMA NoMore ==
  ASSUME NEW S, IsFiniteSet(S), NEW f, NEW y, y \notin S, \A x \in S : f[x] \in Nat, f[y] = 0
  PROVE  Total(f, S \cup {y}) = Total(f, S)
<1>1. \A x \in S \cup {y} : f[x] \in Nat
  OBVIOUS
<1>2. Total(f, S \cup {y}) = Total(f, S) + f[y]
  BY <1>1, TotalAdd
<1>3. Total(f, S) \in Nat
  BY TotalType
<1> QED
  BY <1>2, <1>3

\* A second passes: nothing is counted in it yet.
LEMMA TickIsWithinRate ==
  ASSUME AccountsTypeOK, RateInv, tick
  PROVE  RateInv'
<1>1. /\ now \in 0..MaxTime /\ now' = now + 1 /\ now' \in 0..MaxTime /\ now \in Nat
      /\ attempts \in [Users \cup Clients -> Tally] /\ lookups \in [Users -> Tally]
      /\ UNCHANGED <<attempts, lookups, scope>>
  BY AccountsAssumption DEF tick, AccountsTypeOK
<1>n. PICK n \in 0..MaxTime : n = now' /\ n = now + 1
  BY <1>1
<1>2. 0..n = (0..now) \cup {n} /\ n \notin 0..now /\ 0..now \subseteq 0..MaxTime /\ IsFiniteSet(0..now)
  <2>1. IsFiniteSet(0..now)
    BY <1>1, RecentSeconds
  <2> QED
    BY <1>1, <1>n, <2>1, AccountsAssumption
<1>3. \A k \in Users \cup Clients : attempts[k][n] = 0 /\ \A time \in 0..MaxTime : attempts[k][time] \in Nat
  BY <1>1, <1>n, TallyCounts DEF RateInv
<1>4. \A u \in Users : lookups[u][n] = 0 /\ \A time \in 0..MaxTime : lookups[u][time] \in Nat
  BY <1>1, <1>n, TallyCounts DEF RateInv
<1>5. Remembered'
  <2> SUFFICES ASSUME NEW client \in Clients PROVE among(attempts[client], 0..n) <= ClientLimit
    BY <1>1, <1>n DEF Remembered
  <2>1. \A time \in (0..now) \cup {n} : attempts[client][time] \in Nat
    BY <1>1, <1>2, <1>3
  <2>4. among(attempts[client], 0..now) <= ClientLimit
    BY DEF RateInv, WithinRate
  <2>5. Total(attempts[client], 0..n) = Total(attempts[client], 0..now)
    BY <1>2, <1>3, <2>1, NoMore
  <2> QED
    BY <2>4, <2>5, AmongIsTotal
<1>6. ASSUME Without({"crash"})
      PROVE  (\A u \in Users : \A time \in recent' : attempts[u][time] = lookups[u][time]) /\ LookedUp'
  <2>1. recent' \subseteq recent \cup {n}
    BY <1>1, <1>n, <1>2, AccountsAssumption DEF recent
  <2>2. \A u \in Users : \A time \in recent' : attempts[u][time] = lookups[u][time]
    BY <1>3, <1>4, <1>6, <2>1 DEF RateInv
  <2> DEFINE window(first) == {time \in 0..now : time - first \in 0..Window - 1}
             later(first) == {time \in 0..n : time - first \in 0..Window - 1}
  <2>3. ASSUME NEW u \in Users, NEW first \in 0..MaxTime PROVE among(lookups[u], later(first)) <= EmailLimit
    <3>1. among(lookups[u], window(first)) <= EmailLimit
      BY <1>6 DEF RateInv, WithinRate
    <3>2. window(first) \subseteq 0..now /\ IsFiniteSet(window(first)) /\ n \notin window(first)
      BY <1>2, FS_Subset
    <3>3. later(first) = window(first) \/ later(first) = window(first) \cup {n}
      BY <1>2
    <3>4. \A time \in window(first) \cup {n} : lookups[u][time] \in Nat
      BY <1>1, <1>2, <1>4, <3>2
    <3> HIDE DEF window, later
    <3>5. Total(lookups[u], window(first) \cup {n}) = Total(lookups[u], window(first))
      BY <1>4, <3>2, <3>4, NoMore
    <3>7. Total(lookups[u], later(first)) = Total(lookups[u], window(first))
      BY <3>3, <3>5
    <3> QED
      BY <3>1, <3>7, AmongIsTotal
  <2>4. LookedUp'
    BY <1>1, <1>n, <2>3 DEF LookedUp
  <2> QED
    BY <2>2, <2>4
<1>7. Without({"crash"})' <=> Without({"crash"})
  BY <1>1 DEF Without
<1>8. /\ \A k \in Users \cup Clients : \A time \in 0..MaxTime : time > now' => attempts[k][time] = 0
      /\ \A u \in Users : \A time \in 0..MaxTime : time > now' => lookups[u][time] = 0
  BY <1>1 DEF RateInv
<1> QED
  BY <1>1, <1>5, <1>6, <1>7, <1>8 DEF RateInv, WithinRate, Remembered, LookedUp

LEMMA NeverIsNone ==
  ASSUME NEW n \in 0..MaxTime, NEW S \in SUBSET (0..n)
  PROVE  among(Never, S) = 0
<1>1. IsFiniteSet(S)
  <2>1. IsFiniteSet(0..n)
    BY FS_Interval, SecondsAreNumbers
  <2> QED
    BY <2>1, FS_Subset
<1>2. \A time \in S : Never[time] = 0
  BY SecondsAreNumbers DEF Never
<1> QED
  BY <1>1, <1>2, TotalOfZeros, AmongIsTotal

LEMMA RestartIsWithinRate ==
  ASSUME AccountsTypeOK, RateInv, restart
  PROVE  RateInv'
<1>1. /\ now \in 0..MaxTime /\ attempts' = [k \in Users \cup Clients |-> Never]
      /\ UNCHANGED <<now, lookups, scope>> /\ ~Without({"crash"})'
  BY DEF restart, AccountsTypeOK, Without
<1>2. \A time \in 0..MaxTime : Never[time] = 0
  BY DEF Never
<1>3. among(Never, 0..now) = 0
  BY <1>1, NeverIsNone
<1>4. \A client \in Clients : among(attempts'[client], 0..now) <= ClientLimit
  BY <1>1, <1>3, AccountsAssumption
<1>5. Remembered'
  BY <1>1, <1>4 DEF Remembered
<1>6. \A k \in Users \cup Clients : \A time \in 0..MaxTime : time > now' => attempts'[k][time] = 0
  BY <1>1, <1>2
<1>7. \A u \in Users : \A time \in 0..MaxTime : time > now' => lookups'[u][time] = 0
  BY <1>1 DEF RateInv
<1> QED
  BY <1>1, <1>5, <1>6, <1>7 DEF RateInv, WithinRate, Remembered

LEMMA RatesInitially == BrowserInit => RateInv
<1> SUFFICES ASSUME BrowserInit PROVE RateInv
  OBVIOUS
<1>1. /\ now = 0 /\ attempts = [k \in Users \cup Clients |-> Never] /\ lookups = [u \in Users |-> Never]
  BY DEF BrowserInit, AccountsInit
<1>2. \A time \in 0..MaxTime : Never[time] = 0
  BY DEF Never
<1>3. 0 \in 0..MaxTime /\ now \in 0..MaxTime
  BY <1>1, AccountsAssumption
<1>4. among(Never, 0..now) = 0
  BY <1>3, NeverIsNone
<1>5. Remembered
  BY <1>1, <1>4, AccountsAssumption DEF Remembered
<1>6. LookedUp
  <2> SUFFICES ASSUME NEW u \in Users, NEW first \in 0..MaxTime
               PROVE  among(lookups[u], {time \in 0..now : time - first \in 0..Window - 1}) <= EmailLimit
    BY DEF LookedUp
  <2> DEFINE window == {time \in 0..now : time - first \in 0..Window - 1}
  <2>1. window \in SUBSET (0..now)
    OBVIOUS
  <2> HIDE DEF window
  <2>2. among(lookups[u], window) = 0
    BY <1>1, <1>3, <2>1, NeverIsNone
  <2>3. among(lookups[u], window) <= EmailLimit
    BY <2>2, AccountsAssumption
  <2> QED
    BY <2>3 DEF window
<1>7. recent \subseteq 0..MaxTime
  BY <1>1, AccountsAssumption DEF recent
<1> QED
  BY <1>1, <1>2, <1>5, <1>6, <1>7 DEF RateInv, WithinRate, Remembered, LookedUp

-----------------------------------------------------------------------------
(* Accounts and sessions *)

LEMMA AccountsNextKeeps ==
  ASSUME AccountsInv, RateInv, AccountsNext
  PROVE  AccountsInv' /\ RateInv'
<1> USE DEF AccountsInv
<1>1. CASE tick
  BY <1>1, TickKeeps, TickIsWithinRate
<1>2. CASE restart
  BY <1>2, RestartKeeps, RestartIsWithinRate
<1>3. ASSUME UNCHANGED <<now, attempts, lookups, scope>> PROVE RateInv'
  BY <1>3 DEF RateInv, WithinRate, Without, recent
<1> SUFFICES ASSUME NEW r \in Requests, ~tick, ~restart,
                    \/ AccountsStep(r)
                    \/ \E u \in Users, c \in Clients : attempt(r, u, c)
                    \/ \E t \in ResetTokens, u \in Users : requestPasswordReset(r, t, u)
                    \/ \E t \in ResetTokens, password \in Passwords : confirmPasswordReset(r, t, password)
                    \/ \E s \in Sessions, current, password \in Passwords : changePassword(r, s, current, password)
                    \/ \E u \in Users, password \in Passwords :
                         \/ login(r, u, password)
                         \/ \E roles \in SUBSET Roles, status \in {"INVITED", "ACTIVE"} : createUser(r, u, status, password, roles)
                    \/ \E u \in Users, status \in Statuses, password \in Passwords \cup {"none"}, roles \in SUBSET Roles :
                         updateUser(r, u, status, password, roles)
             PROVE  AccountsInv' /\ RateInv'
  BY <1>1, <1>2 DEF AccountsNext
<1>4. CASE auditLogin(r) \/ comparePassword(r)
  BY <1>3, <1>4, AccountRequests DEF auditLogin, comparePassword, accountVars
<1>5. ASSUME NEW t \in ResetTokens, NEW password \in Passwords, confirmPasswordReset(r, t, password)
      PROVE  AccountsInv' /\ RateInv'
  BY <1>3, <1>5, AccountRequests DEF confirmPasswordReset
<1>6. ASSUME NEW s \in Sessions, NEW current \in Passwords, NEW password \in Passwords,
             changePassword(r, s, current, password)
      PROVE  AccountsInv' /\ RateInv'
  BY <1>3, <1>6, AccountRequests DEF changePassword, accountVars
<1>7. ASSUME NEW u \in Users, NEW password \in Passwords, login(r, u, password)
      PROVE  AccountsInv' /\ RateInv'
  BY <1>3, <1>7, AccountRequests DEF login, accountVars
<1>8. ASSUME NEW u \in Users, NEW status \in Statuses, NEW password \in Passwords \cup {"none"},
             NEW roles \in SUBSET Roles, updateUser(r, u, status, password, roles)
      PROVE  AccountsInv' /\ RateInv'
  BY <1>3, <1>8, AccountRequests DEF updateUser, accountVars
<1>9. CASE sign(r)
  BY <1>3, <1>9, SignKeeps DEF sign
<1>10. CASE setPassword(r)
  BY <1>3, <1>10, SetPasswordKeeps DEF setPassword
<1>11. CASE writeUser(r)
  BY <1>3, <1>11, WriteUserKeeps DEF writeUser
<1>12. ASSUME NEW u \in Users, NEW password \in Passwords, NEW roles \in SUBSET Roles,
              NEW status \in {"INVITED", "ACTIVE"}, createUser(r, u, status, password, roles)
       PROVE  AccountsInv' /\ RateInv'
  BY <1>3, <1>12, CreateUserKeeps DEF createUser
<1>13. ASSUME NEW t \in ResetTokens, NEW u \in Users, requestPasswordReset(r, t, u)
       PROVE  AccountsInv' /\ RateInv'
  BY <1>3, <1>13, ResetRequestedKeeps DEF requestPasswordReset
<1>14. ASSUME NEW u \in Users, NEW c \in Clients, attempt(r, u, c)
       PROVE  AccountsInv' /\ RateInv'
  BY <1>14, AttemptKeepsTypes, AttemptIsWithinRate DEF attempt
<1> QED
  BY <1>4, <1>5, <1>6, <1>7, <1>8, <1>9, <1>10, <1>11, <1>12, <1>13, <1>14 DEF AccountsStep

LEMMA AccountsStay ==
  ASSUME AccountsInv, RateInv, UNCHANGED <<accountVars, req, scope>>
  PROVE  AccountsInv' /\ RateInv'
<1> USE DEF accountVars
<1>1. AccountsTypeOK' /\ KnownInv' /\ PastInv'
  BY DEF AccountsInv, AccountsTypeOK, KnownInv, PastInv
<1>2. TokenInv' /\ PasswordInv' /\ RolesInv'
  BY DEF AccountsInv, TokenInv, Using, at, PasswordInv, Alone, RolesInv, Without
<1>3. RateInv'
  BY DEF RateInv, WithinRate, Without, recent
<1> QED
  BY <1>1, <1>2, <1>3 DEF AccountsInv

LEMMA AccountsAlways ==
  AccountsInv /\ RateInv /\ [BrowserNext]_<<browserVars, req, scope>> => (AccountsInv /\ RateInv)'
<1> SUFFICES ASSUME AccountsInv, RateInv, [BrowserNext]_<<browserVars, req, scope>>
             PROVE  AccountsInv' /\ RateInv'
  OBVIOUS
<1>1. AccountsNext \/ UNCHANGED <<accountVars, req, scope>>
  BY DEF BrowserNext, browserVars
<1> QED
  BY <1>1, AccountsNextKeeps, AccountsStay

\* What the invariants say of a session that is valid.
LEMMA AccountsAreSound == AccountsInv /\ RateInv => AccountsHold
<1> SUFFICES ASSUME AccountsInv, RateInv PROVE AccountsHold
  OBVIOUS
<1> USE DEF AccountsInv
<1>1. ResetOnce
  BY DEF TokenInv, ResetOnce
<1>2. SupersededSessionsEnd
  <2> SUFFICES ASSUME Without({"overlap"}), NEW s \in Sessions, validate(s)
               PROVE  \/ session[s].password = user[session[s].user].password
                      \/ session[s].iat = user[session[s].user].changed
    BY DEF SupersededSessionsEnd
  <2>1. session[s] # NoSession /\ session[s].iat >= user[session[s].user].changed
    BY DEF validate
  <2>2. session[s] \in Session /\ user[session[s].user] \in User
    BY <2>1 DEF AccountsTypeOK, KnownInv, Session
  <2>3. session[s].iat \in Int /\ user[session[s].user].changed \in Int
    BY <2>2 DEF Session, User
  <2> QED
    BY <2>1, <2>3 DEF PasswordInv
<1> QED
  BY <1>1, <1>2 DEF AccountsHold, RateInv

\* Reset tokens are used once, a session whose password was superseded is refused, and
\* nobody logs in more often than the buckets allow: for every number of accounts, sessions,
\* tokens and requests, and through restarts, which empty the buckets and lose the tokens.
THEOREM AccountsStaySound == BrowserSpec => []AccountsHold
<1>1. BrowserInit => AccountsInv /\ RateInv
  BY AccountsInitially, RatesInitially
<1> QED
  BY <1>1, AccountsAlways, AccountsAreSound, PTL DEF BrowserSpec
-----------------------------------------------------------------------------
(* The tab *)

\* Nothing of the pages is under way.
Still == page = Closed /\ operation = NoOperation /\ settled(Keys)

\* Nobody logs in before the check at the start is answered: it finds the storage as it
\* was asked about, and afterwards React shows what the storage keeps, or nothing is kept.
TabInv ==
  Without({"early"}) =>
    /\ pending.start # None => ~shown.ready /\ pending.login = None /\ pending.call = None /\ Still
    /\ pending.start = "mount" => header = None
    /\ pending.start \in Sessions => storage.token = pending.start /\ shown.token = storage.token
    /\ pending.start = None => shown.ready
    /\ shown.ready /\ shown.user = Nobody => storage.token = None /\ header = None
    /\ shown.ready /\ storage.token # None => shown.token = storage.token /\ shown.user = storage.user

holder(s) == [user |-> session[s].user, roles |-> session[s].roles]

\* The user that is stored is the one the token was signed for.
OwnerInv ==
  Without({"early", "roles"}) /\ storage.token # None =>
    session[storage.token] # NoSession /\ storage.user = holder(storage.token)

LEMMA ClosedIsNoPage == Closed \notin DOMAIN pages
  BY DEF Closed, pages

LEMMA KeysStay ==
  ASSUME scope' = scope
  PROVE  Keys' = Keys
  BY DEF Keys, paging, kind

LEMMA TabInitially == BrowserInit => TabTypeOK /\ TabInv /\ OwnerInv
<1> SUFFICES ASSUME BrowserInit PROVE TabTypeOK /\ TabInv /\ OwnerInv
  OBVIOUS
<1> USE DEF BrowserInit, WebSessionInit
<1>1. TabTypeOK
  BY WebSessionAssumption, AccountsAssumption DEF TabTypeOK, SignedOut, Signed, Fresh, Mounting, Nobody, Profile, Tokens, None
<1>2. Still
  BY DEF PagesInit, Still, settled
<1>3. TabInv
  BY <1>2, WebSessionAssumption DEF TabInv, Mounting, Fresh, None, SignedOut, Signed
<1>4. OwnerInv
  BY DEF OwnerInv, SignedOut, Signed
<1> QED
  BY <1>1, <1>3, <1>4

\* What the two sides make of a permission, except where the tables differ.
LEMMA WebNamesAreKnown ==
  ASSUME NEW roles, NEW permissions, NEW permission,
         permission \notin {"workflow:create", "workflow.manage"}, can(roles, permissions, permission)
  PROVE  canActivate(roles, permissions, {permission})
<1>1. CASE roles \cap superAdminRoles # {}
  BY <1>1 DEF canActivate
<1>2. CASE permission \in permissions
  BY <1>2 DEF canActivate, expandPermissions
<1>3. ASSUME NEW alias \in webAliases, alias[1] = permission, alias[2] \in permissions
      PROVE  canActivate(roles, permissions, {permission})
  <2>1. alias \in apiAliases
    BY <1>3 DEF webAliases, apiAliases
  <2> QED
    BY <1>3, <2>1 DEF canActivate, expandPermissions
<1>4. ASSUME NEW alias \in webAliases, alias[2] = permission, alias[1] \in permissions
      PROVE  canActivate(roles, permissions, {permission})
  <2>1. alias \in apiAliases
    BY <1>4 DEF webAliases, apiAliases
  <2> QED
    BY <1>4, <2>1 DEF canActivate, expandPermissions
<1> QED
  BY <1>1, <1>2, <1>3, <1>4 DEF can, hasPermission

LEMMA TabIsSound ==
  ASSUME AccountsInv, TabTypeOK, TabInv, OwnerInv
  PROVE  TabHolds
<1>1. SignedOutKeepsNothing
  BY DEF TabInv, SignedOutKeepsNothing
<1>2. OfferedIsAllowed
  <2> DEFINE u == user[session[storage.token].user]
             offered == permissionsOf(Roles)
  <2> SUFFICES ASSUME appShell, storage.token # None, validate(storage.token), Without({"roles", "early"})
               PROVE  \A permission \in offered \ {"workflow:create", "workflow.manage"} :
                        can(shown.user.roles, permissionsOf(shown.user.roles), permission)
                          => canActivate(u.roles, permissionsOf(u.roles), {permission})
    BY DEF OfferedIsAllowed
  <2> HIDE DEF offered
  <2> SUFFICES ASSUME NEW permission \in offered \ {"workflow:create", "workflow.manage"},
                      can(shown.user.roles, permissionsOf(shown.user.roles), permission)
               PROVE  canActivate(u.roles, permissionsOf(u.roles), {permission})
    OBVIOUS
  <2>1. Without({"early"}) /\ Without({"roles"}) /\ Without({"early", "roles"})
    BY DEF Without
  <2>2. shown.user = holder(storage.token) /\ session[storage.token] # NoSession
    BY <2>1 DEF TabInv, OwnerInv, appShell
  <2>3. storage.token \in Sessions
    BY DEF TabTypeOK, Tokens
  <2>4. shown.user.roles = u.roles
    BY <2>1, <2>2, <2>3 DEF AccountsInv, RolesInv, holder
  <2>5. permission \notin {"workflow:create", "workflow.manage"}
    OBVIOUS
  <2> DEFINE roles == shown.user.roles
  <2>6. can(roles, permissionsOf(roles), permission)
    OBVIOUS
  <2>7. roles = u.roles
    BY <2>4
  <2> HIDE DEF u, roles
  <2>8. canActivate(roles, permissionsOf(roles), {permission})
    BY <2>5, <2>6, WebNamesAreKnown
  <2> QED
    BY <2>7, <2>8
<1> QED
  BY <1>1, <1>2 DEF TabHolds

LEMMA TabTyped ==
  ASSUME TabTypeOK
  PROVE  /\ storage.token \in Tokens /\ storage.user \in Profile
         /\ storage = [token |-> storage.token, user |-> storage.user]
         /\ shown.token \in Tokens /\ shown.user \in Profile /\ shown.ready \in BOOLEAN
         /\ shown = [token |-> shown.token, user |-> shown.user, ready |-> shown.ready]
         /\ pending = [start |-> pending.start, login |-> pending.login, call |-> pending.call]
         /\ pending.start \in Tokens \cup {"mount"} /\ pending.login \in Users \cup {None}
         /\ pending.call \in Tokens \cup {"unauthorized"}
         /\ header \in Tokens /\ given \subseteq Sessions /\ reloads \in 0..MaxReloads
  BY DEF TabTypeOK

LEMMA HolderIsProfile ==
  ASSUME AccountsInv, NEW s \in Sessions, session[s] # NoSession
  PROVE  /\ holder(s) \in Profile /\ holder(s) # Nobody
         /\ [user |-> session[s].user, roles |-> user[session[s].user].roles] \in Profile
         /\ [user |-> session[s].user, roles |-> user[session[s].user].roles] # Nobody
         /\ Without({"roles"}) => [user |-> session[s].user, roles |-> user[session[s].user].roles] = holder(s)
<1>1. session[s] \in Session /\ user[session[s].user] \in User
  BY DEF AccountsInv, AccountsTypeOK, KnownInv, Session
<1>2. session[s].user \in Users /\ session[s].roles \in SUBSET Roles /\ user[session[s].user].roles \in SUBSET Roles
  BY <1>1 DEF Session, User
<1>3. session[s].user # None
  BY <1>2, AccountsAssumption
<1>4. Without({"roles"}) => session[s].roles = user[session[s].user].roles
  BY DEF AccountsInv, RolesInv
<1> QED
  BY <1>2, <1>3, <1>4 DEF holder, Profile, Nobody

LEMMA SignedOutTyped == SignedOut = [token |-> None, user |-> Nobody] /\ Nobody \in Profile /\ None \in Tokens
  BY DEF SignedOut, Signed, Profile, Tokens

\* The tab is as it was, while the accounts change.
LEMMA TabStays ==
  ASSUME TabTypeOK, TabInv, OwnerInv, UNCHANGED <<tabVars, pageVars, scope>>,
         \A s \in Sessions : session[s] # NoSession => session'[s] = session[s]
  PROVE  TabTypeOK' /\ TabInv' /\ OwnerInv'
<1> USE DEF tabVars
<1>1. TabTypeOK'
  BY DEF TabTypeOK
<1>2. Still' <=> Still
  BY KeysStay DEF pageVars, Still, settled
<1>3. TabInv'
  BY <1>2 DEF TabInv, Without
<1>4. OwnerInv'
  <2>1. storage.token \in Tokens
    BY TabTyped
  <2> QED
    BY <2>1 DEF OwnerInv, Without, holder, Tokens
<1> QED
  BY <1>1, <1>3, <1>4

LEMMA SessionsStay ==
  ASSUME AccountsInv, AccountsNext \/ UNCHANGED session, NEW s \in Sessions, session[s] # NoSession
  PROVE  session'[s] = session[s]
<1>1. session \in [Sessions -> {NoSession} \cup Session]
  BY DEF AccountsInv, AccountsTypeOK
<1>2. CASE UNCHANGED session
  BY <1>2
<1>3. CASE \E r \in Requests : sign(r)
  BY <1>1, <1>3 DEF sign
<1>4. CASE AccountsNext /\ ~(\E r \in Requests : sign(r))
  BY <1>4 DEF AccountsNext, AccountsStep, tick, restart, auditLogin, comparePassword, setPassword, writeUser,
     attempt, requestPasswordReset, confirmPasswordReset, changePassword, login, createUser, updateUser, accountVars
<1> QED
  BY <1>2, <1>3, <1>4

\* Whoever is signed out, by an answer of 401, is so everywhere the API is asked from.
LEMMA SignedOutKeeps ==
  ASSUME TabTypeOK, TabInv, storage' = SignedOut, header' = None, UNCHANGED <<shown, given, reloads, scope, session>>,
         pending' \in [start : Tokens \cup {"mount"}, login : Users \cup {None}, call : Tokens \cup {"unauthorized"}],
         pending'.start = pending.start, Without({"early"}) => pending.start = None
  PROVE  TabTypeOK' /\ TabInv' /\ OwnerInv'
<1>1. TabTypeOK'
  BY SignedOutTyped DEF TabTypeOK
<1>2. None \notin Sessions /\ None # "mount"
  BY AccountsAssumption DEF None
<1>3. TabInv'
  BY <1>2, SignedOutTyped DEF TabInv, Without
<1>4. OwnerInv'
  BY SignedOutTyped DEF OwnerInv
<1> QED
  BY <1>1, <1>3, <1>4

\* Whatever else the tab does leaves the pages as they were while nothing is under way.
LEMMA StillStays ==
  ASSUME Still, afterTab, UNCHANGED <<reloads, scope>>
  PROVE  Still'
<1>1. UNCHANGED pageVars
  BY DEF Still, afterTab
<1> QED
  BY <1>1, KeysStay DEF pageVars, Still, settled

LEMMA ReloadKeeps ==
  ASSUME TabTypeOK, OwnerInv, reload, afterTab, UNCHANGED <<session, scope>>
  PROVE  TabTypeOK' /\ TabInv' /\ OwnerInv'
<1> USE DEF reload
<1>1. Nobody \in Profile /\ None \in Tokens
  BY DEF Profile, Tokens
<1>2. TabTypeOK'
  BY <1>1, WebSessionAssumption DEF TabTypeOK, Fresh, Mounting
<1>3. reloads' # reloads
  BY WebSessionAssumption DEF TabTypeOK
<1>4. Still'
  <2>1. page' = Closed /\ operation' = NoOperation /\ fetch' = [key \in Keys |-> NoAnswer]
    BY <1>3 DEF afterTab
  <2> QED
    BY <2>1, KeysStay DEF Still, settled
<1>5. "mount" \notin Sessions /\ "mount" # None
  BY WebSessionAssumption DEF None
<1>6. TabInv'
  BY <1>4, <1>5 DEF TabInv, Fresh, Mounting
<1>7. OwnerInv'
  BY DEF OwnerInv, Without, holder
<1> QED
  BY <1>2, <1>6, <1>7

LEMMA StartKeeps ==
  ASSUME TabTypeOK, TabInv, OwnerInv, start, afterTab, UNCHANGED <<session, scope>>
  PROVE  TabTypeOK' /\ TabInv' /\ OwnerInv'
<1> USE DEF start
<1>1. TabTypeOK'
  BY TabTyped DEF TabTypeOK
<1>2. None \notin Sessions /\ "mount" # None /\ "mount" \notin Sessions
  BY WebSessionAssumption, AccountsAssumption DEF None
<1>3. storage.token \in Tokens /\ storage' = storage
  BY TabTyped
<1>4. /\ shown'.token = storage.token /\ shown'.user = storage.user /\ shown'.ready = (storage.token = None)
      /\ pending'.start = storage.token /\ pending'.login = pending.login /\ pending'.call = pending.call
  BY TabTyped
<1>5. ASSUME Without({"early"}) PROVE TabInv!2'
  <2>1. header = None /\ pending.login = None /\ pending.call = None /\ Still
    BY <1>2, <1>5 DEF TabInv
  <2>2. Still'
    BY <2>1, StillStays
  <2> QED
    BY <1>2, <1>3, <1>4, <2>1, <2>2 DEF Tokens
<1>6. TabInv'
  BY <1>5 DEF TabInv, Without
<1>7. OwnerInv'
  BY DEF OwnerInv, Without, holder
<1> QED
  BY <1>1, <1>6, <1>7

LEMMA StartAnsweredKeeps ==
  ASSUME AccountsInv, TabTypeOK, TabInv, startAnswered, UNCHANGED <<session, scope>>
  PROVE  TabTypeOK' /\ TabInv' /\ OwnerInv'
<1> USE DEF startAnswered
<1>1. None \notin Sessions /\ "mount" # None /\ "mount" \notin Sessions
  BY WebSessionAssumption, AccountsAssumption DEF None
<1>2. /\ pending' = [start |-> None, login |-> pending.login, call |-> pending.call]
      /\ pending' \in [start : Tokens \cup {"mount"}, login : Users \cup {None}, call : Tokens \cup {"unauthorized"}]
  BY TabTyped DEF Tokens
<1>3. UNCHANGED <<given, reloads>> /\ pending.start \in Sessions
  OBVIOUS
<1> HIDE DEF startAnswered
<1>4. CASE storage' = SignedOut /\ shown' = [Fresh EXCEPT !.ready = TRUE] /\ header' = None
  <2>1. shown' = [token |-> None, user |-> Nobody, ready |-> TRUE]
    BY <1>4 DEF Fresh
  <2>2. TabTypeOK'
    <3>1. shown' \in [token : Tokens, user : Profile, ready : BOOLEAN] /\ storage' \in [token : Tokens, user : Profile]
      <4>1. shown' \in [token : Tokens, user : Profile, ready : BOOLEAN]
        BY <2>1, SignedOutTyped
      <4>2. storage' \in [token : Tokens, user : Profile]
        BY <1>4, SignedOutTyped
      <4> QED
        BY <4>1, <4>2
    <3>2. header' \in Tokens
      BY <1>4, SignedOutTyped
    <3> QED
      BY <1>2, <1>3, <3>2, <3>1 DEF TabTypeOK
  <2>3. TabInv'
    BY <1>1, <1>2, <1>4, <2>1, SignedOutTyped DEF TabInv
  <2>4. OwnerInv'
    BY <1>4, SignedOutTyped DEF OwnerInv
  <2> QED
    BY <2>2, <2>3, <2>4
<1>5. ASSUME validate(pending.start), UNCHANGED header,
             LET owner == [user |-> session[pending.start].user, roles |-> user[session[pending.start].user].roles]
             IN /\ storage' = [storage EXCEPT !.user = owner]
                /\ shown' = [shown EXCEPT !.user = owner, !.ready = TRUE]
      PROVE  TabTypeOK' /\ TabInv' /\ OwnerInv'
  <2> DEFINE s == pending.start
             owner == [user |-> session[s].user, roles |-> user[session[s].user].roles]
  <2>1. s \in Sessions /\ session[s] # NoSession
    BY <1>3, <1>5 DEF validate
  <2>2. owner \in Profile /\ owner # Nobody /\ (Without({"roles"}) => owner = holder(s))
    BY <2>1, HolderIsProfile
  <2>3. storage' = [storage EXCEPT !.user = owner] /\ shown' = [shown EXCEPT !.user = owner, !.ready = TRUE]
    BY <1>5
  <2> HIDE DEF owner
  <2>4. /\ storage' = [token |-> storage.token, user |-> owner]
        /\ shown' = [token |-> shown.token, user |-> owner, ready |-> TRUE]
    BY <2>3, TabTyped
  <2>5. TabTypeOK'
    <3>1. shown' \in [token : Tokens, user : Profile, ready : BOOLEAN] /\ storage' \in [token : Tokens, user : Profile]
      BY <2>2, <2>4, TabTyped
    <3> QED
      BY <1>2, <1>3, <1>5, <3>1 DEF TabTypeOK
  <2>6. Without({"early"}) => storage.token = s /\ shown.token = s
    BY <2>1 DEF TabInv
  <2>7. TabInv'
    BY <1>1, <1>2, <2>2, <2>4, <2>6 DEF TabInv, Without
  <2>8. Without({"early", "roles"}) => Without({"early"}) /\ Without({"roles"})
    BY DEF Without
  <2>9. OwnerInv'
    BY <2>1, <2>2, <2>4, <2>6, <2>8 DEF OwnerInv, holder, Without
  <2> QED
    BY <2>5, <2>7, <2>9
<1> QED
  BY <1>4, <1>5 DEF startAnswered

LEMMA SubmitLoginKeeps ==
  ASSUME TabTypeOK, TabInv, OwnerInv, NEW u \in Users, submitLogin(u), UNCHANGED <<session, scope>>
  PROVE  TabTypeOK' /\ TabInv' /\ OwnerInv'
<1> USE DEF submitLogin
<1>1. pending' = [start |-> pending.start, login |-> u, call |-> pending.call]
  BY TabTyped
<1>2. TabTypeOK'
  BY <1>1, TabTyped DEF TabTypeOK
<1>3. Without({"early"}) => pending.start = None
  BY DEF Without
<1>4. None \notin Sessions /\ None # "mount"
  BY AccountsAssumption DEF None
<1>5. TabInv'
  BY <1>1, <1>3, <1>4 DEF TabInv, Without
<1>6. OwnerInv'
  BY DEF OwnerInv, Without, holder
<1> QED
  BY <1>2, <1>5, <1>6

LEMMA LoginAnsweredKeeps ==
  ASSUME AccountsInv, TabTypeOK, TabInv, NEW s \in Sessions, loginAnswered(s), UNCHANGED <<session, scope>>
  PROVE  TabTypeOK' /\ TabInv' /\ OwnerInv'
<1> USE DEF loginAnswered
<1>1. None \notin Sessions /\ None # "mount" /\ s # None
  BY AccountsAssumption DEF None
<1>2. holder(s) \in Profile /\ holder(s) # Nobody
  BY HolderIsProfile
<1>3. /\ pending' = [start |-> pending.start, login |-> None, call |-> pending.call]
      /\ storage' = [token |-> s, user |-> holder(s)]
      /\ shown' = [token |-> s, user |-> holder(s), ready |-> shown.ready]
  BY TabTyped DEF Signed, holder
<1>4. TabTypeOK'
  BY <1>2, <1>3, TabTyped DEF TabTypeOK, Tokens
<1>5. Without({"early"}) => pending.start = None /\ shown.ready
  BY DEF TabInv
<1>6. TabInv'
  BY <1>1, <1>2, <1>3, <1>5 DEF TabInv, Without
<1>7. OwnerInv'
  BY <1>3 DEF OwnerInv, holder
<1> QED
  BY <1>4, <1>6, <1>7

LEMMA LoginRefusedKeeps ==
  ASSUME TabTypeOK, TabInv, loginRefused, UNCHANGED <<session, scope>>
  PROVE  TabTypeOK' /\ TabInv' /\ OwnerInv'
<1> USE DEF loginRefused
<1>1. pending' = [start |-> pending.start, login |-> None, call |-> pending.call]
  BY TabTyped
<1>2. Without({"early"}) => pending.start = None
  BY DEF TabInv
<1> QED
  BY <1>1, <1>2, TabTyped, SignedOutKeeps

LEMMA LogoutKeeps ==
  ASSUME TabTypeOK, TabInv, logout, UNCHANGED <<session, scope>>
  PROVE  TabTypeOK' /\ TabInv' /\ OwnerInv'
<1> USE DEF logout
<1>1. shown' = [token |-> None, user |-> Nobody, ready |-> TRUE]
  BY TabTyped
<1>2. TabTypeOK'
  BY <1>1, SignedOutTyped DEF TabTypeOK
<1>3. Without({"early"}) => pending.start = None
  BY DEF TabInv
<1>4. None \notin Sessions /\ None # "mount"
  BY AccountsAssumption DEF None
<1>5. TabInv'
  BY <1>1, <1>3, <1>4, SignedOutTyped DEF TabInv, Without
<1>6. OwnerInv'
  BY SignedOutTyped DEF OwnerInv
<1> QED
  BY <1>2, <1>5, <1>6

LEMMA CallKeeps ==
  ASSUME TabTypeOK, TabInv, OwnerInv, callApi, UNCHANGED <<session, scope>>
  PROVE  TabTypeOK' /\ TabInv' /\ OwnerInv'
<1> USE DEF callApi
<1>1. tokenSent \in Tokens
  BY TabTyped DEF tokenSent
<1>2. PICK carried \in Tokens \cup {"unauthorized"} : pending' = [pending EXCEPT !.call = carried]
  BY <1>1
<1>3. pending' = [start |-> pending.start, login |-> pending.login, call |-> carried]
  BY <1>2, TabTyped
<1>4. TabTypeOK'
  BY <1>3, TabTyped DEF TabTypeOK
<1>5. Without({"early"}) => pending.start = None
  BY DEF TabInv, appShell
<1>6. None \notin Sessions /\ None # "mount"
  BY AccountsAssumption DEF None
<1>7. TabInv'
  BY <1>3, <1>5, <1>6 DEF TabInv, Without
<1>8. OwnerInv'
  BY DEF OwnerInv, Without, holder
<1> QED
  BY <1>4, <1>7, <1>8

LEMMA CallAnsweredKeeps ==
  ASSUME TabTypeOK, TabInv, OwnerInv, callAnswered, UNCHANGED <<session, scope>>
  PROVE  TabTypeOK' /\ TabInv' /\ OwnerInv'
<1> USE DEF callAnswered
<1>1. pending' = [start |-> pending.start, login |-> pending.login, call |-> None]
  BY TabTyped
<1>2. pending' \in [start : Tokens \cup {"mount"}, login : Users \cup {None}, call : Tokens \cup {"unauthorized"}]
  BY <1>1, TabTyped DEF Tokens
<1>3. Without({"early"}) => pending.start = None
  BY DEF TabInv
<1>4. CASE storage' = SignedOut /\ header' = None
  BY <1>1, <1>2, <1>3, <1>4, SignedOutKeeps
<1>5. CASE UNCHANGED <<storage, header>>
  <2>1. TabTypeOK'
    BY <1>2, <1>5 DEF TabTypeOK
  <2>2. None \notin Sessions /\ None # "mount"
    BY AccountsAssumption DEF None
  <2>3. TabInv'
    BY <1>1, <1>3, <1>5, <2>2 DEF TabInv, Without
  <2>4. OwnerInv'
    BY <1>5 DEF OwnerInv, Without, holder
  <2> QED
    BY <2>1, <2>3, <2>4
<1> QED
  BY <1>4, <1>5
-----------------------------------------------------------------------------
(* The pages, as far as the tab is concerned *)

LEMMA PagesSignOut ==
  ASSUME PagesNext
  PROVE  UNCHANGED tabVars \/ (storage' = SignedOut /\ header' = None /\ UNCHANGED <<shown, pending, given, reloads>>)
<1> USE DEF signOutIf
<1>1. ASSUME NEW p \in Concerned, openPage(p) PROVE UNCHANGED tabVars
  BY <1>1 DEF openPage, tabVars
<1>2. ASSUME NEW key \in Keys, arrive(key) \/ age(key) \/ fillFromRow(key)
      PROVE  UNCHANGED tabVars \/ (storage' = SignedOut /\ header' = None /\ UNCHANGED <<shown, pending, given, reloads>>)
  BY <1>2 DEF arrive, age, fillFromRow, tabVars
<1>3. ASSUME NEW o, press(o) PROVE UNCHANGED tabVars
  BY <1>3 DEF press, tabVars
<1>4. CASE refresh \/ failed \/ succeeded \/ push \/ changedElsewhere
  BY <1>4 DEF refresh, failed, succeeded, push, changedElsewhere, tabVars
<1>5. CASE serve
  <2>1. (UNCHANGED tabVars) \/ signOutIf(refusal(operation.of.needs) = Unauthorized)
    BY <1>5 DEF serve
  <2> QED
    BY <2>1
<1> QED
  BY <1>1, <1>2, <1>3, <1>4, <1>5 DEF PagesNext

\* While nothing is under way and nobody is shown the pages, they stay as they are but for
\* changes of the record by others.
LEMMA PagesStayStill ==
  ASSUME Still, ~appShell, PagesNext, UNCHANGED scope
  PROVE  Still' /\ UNCHANGED tabVars
<1>1. Keys' = Keys
  BY KeysStay
<1>2. keysOf(Closed) = {} /\ operationsOf(Closed) = {}
  BY ClosedIsNoPage DEF keysOf, operationsOf
<1>3. \A key \in Keys : fetch[key] = NoAnswer
  BY DEF Still, settled
<1>4. operation = NoOperation /\ page = Closed
  BY DEF Still
<1>5. operation.stage = "none"
  BY <1>4 DEF NoOperation
<1>6. ASSUME NEW p \in Concerned, openPage(p) PROVE FALSE
  BY <1>6 DEF openPage
<1>7. ASSUME NEW key \in Keys, arrive(key) \/ fillFromRow(key) PROVE FALSE
  BY <1>2, <1>3, <1>4, <1>7 DEF arrive, fillFromRow
<1>8. ASSUME NEW key \in Keys, age(key) PROVE UNCHANGED <<page, fetch, operation, tabVars>>
  BY <1>8 DEF age
<1>9. ~refresh
  BY <1>4 DEF refresh, Closed
<1>10. ~(\E o \in operationsOf(page) : press(o))
  BY <1>2, <1>4
<1>11. ~serve /\ ~failed /\ ~succeeded /\ ~push
  BY <1>5 DEF serve, failed, succeeded, push
<1>12. changedElsewhere => UNCHANGED <<page, fetch, operation, tabVars>>
  BY DEF changedElsewhere
<1>13. UNCHANGED <<page, fetch, operation, tabVars>>
  BY <1>6, <1>7, <1>8, <1>9, <1>10, <1>11, <1>12 DEF PagesNext
<1> QED
  BY <1>1, <1>13 DEF Still, settled

LEMMA PagesKeepTab ==
  ASSUME TabTypeOK, TabInv, OwnerInv, PagesNext, UNCHANGED <<session, scope>>
  PROVE  TabTypeOK' /\ TabInv' /\ OwnerInv'
<1>1. ASSUME Without({"early"}), pending.start # None PROVE Still' /\ UNCHANGED tabVars
  <2>1. Still /\ ~appShell
    BY <1>1 DEF TabInv, appShell
  <2> QED
    BY <2>1, PagesStayStill
<1>2. CASE UNCHANGED tabVars
  <2> USE <1>2 DEF tabVars
  <2>1. TabTypeOK'
    BY DEF TabTypeOK
  <2>2. TabInv'
    BY <1>1 DEF TabInv, Without
  <2>3. OwnerInv'
    BY DEF OwnerInv, Without, holder
  <2> QED
    BY <2>1, <2>2, <2>3
<1>3. CASE storage' = SignedOut /\ header' = None /\ UNCHANGED <<shown, pending, given, reloads>> /\ ~UNCHANGED tabVars
  <2>1. Without({"early"}) => pending.start = None
    BY <1>1, <1>3
  <2>2. pending' \in [start : Tokens \cup {"mount"}, login : Users \cup {None}, call : Tokens \cup {"unauthorized"}]
    BY <1>3 DEF TabTypeOK
  <2> QED
    BY <1>3, <2>1, <2>2, SignedOutKeeps
<1> QED
  BY <1>2, <1>3, PagesSignOut
-----------------------------------------------------------------------------
LEMMA TabNextKeeps ==
  ASSUME AccountsInv, TabTypeOK, TabInv, OwnerInv, WebSessionNext, afterTab, UNCHANGED <<accountVars, req, scope>>
  PROVE  TabTypeOK' /\ TabInv' /\ OwnerInv'
<1>1. UNCHANGED <<session, scope>>
  BY DEF accountVars
<1>2. CASE reload \/ start \/ startAnswered
  BY <1>1, <1>2, ReloadKeeps, StartKeeps, StartAnsweredKeeps
<1>3. CASE loginRefused \/ logout \/ callApi \/ callAnswered
  BY <1>1, <1>3, LoginRefusedKeeps, LogoutKeeps, CallKeeps, CallAnsweredKeeps
<1>4. CASE \E u \in Users : submitLogin(u)
  BY <1>1, <1>4, SubmitLoginKeeps
<1>5. CASE \E s \in Sessions : loginAnswered(s)
  BY <1>1, <1>5, LoginAnsweredKeeps
<1> QED
  BY <1>2, <1>3, <1>4, <1>5 DEF WebSessionNext

LEMMA TabAlways ==
  AccountsInv /\ TabTypeOK /\ TabInv /\ OwnerInv /\ [BrowserNext]_<<browserVars, req, scope>>
    => (TabTypeOK /\ TabInv /\ OwnerInv)'
<1> SUFFICES ASSUME AccountsInv, TabTypeOK, TabInv, OwnerInv, [BrowserNext]_<<browserVars, req, scope>>
             PROVE  TabTypeOK' /\ TabInv' /\ OwnerInv'
  OBVIOUS
<1>1. CASE AccountsNext /\ UNCHANGED <<tabVars, pageVars>>
  <2>1. scope' = scope
    BY <1>1 DEF AccountsNext, AccountsStep, tick, restart, auditLogin, sign, comparePassword, setPassword, writeUser,
       attempt, requestPasswordReset, confirmPasswordReset, changePassword, login, createUser, updateUser
  <2>2. \A s \in Sessions : session[s] # NoSession => session'[s] = session[s]
    BY <1>1, SessionsStay
  <2> QED
    BY <1>1, <2>1, <2>2, TabStays
<1>2. CASE WebSessionNext /\ afterTab /\ UNCHANGED <<accountVars, req, scope>>
  BY <1>2, TabNextKeeps
<1>3. CASE PagesNext /\ UNCHANGED <<accountVars, req, scope>>
  BY <1>3, PagesKeepTab DEF accountVars
<1>4. CASE UNCHANGED <<browserVars, req, scope>>
  BY <1>4, TabStays DEF browserVars, accountVars
<1> QED
  BY <1>1, <1>2, <1>3, <1>4 DEF BrowserNext

\* What the shell of a tab offers, the API lets the holder of its token do, and a tab that
\* shows nobody keeps no token: through logins, reloads, logouts and answers of 401, in
\* every order, for every number of accounts and sessions and all permissions of roles.
THEOREM TabStaysSound == BrowserSpec => []TabHolds
<1>1. BrowserInit => AccountsInv /\ RateInv /\ TabTypeOK /\ TabInv /\ OwnerInv
  BY AccountsInitially, RatesInitially, TabInitially
<1>2. AccountsInv /\ RateInv /\ TabTypeOK /\ TabInv /\ OwnerInv => TabHolds
  BY TabIsSound
<1> QED
  BY <1>1, <1>2, AccountsAlways, TabAlways, PTL DEF BrowserSpec
-----------------------------------------------------------------------------
(* The pages of the web application *)

\* The pages whose forms are filled from a record.
Editors ==
  {"UserManagement", "EditCounterparty", "EditProgramme", "EditInvoice", "EditFinancing", "OperationsControl",
   "ProductResource"}

\* Where an operation leads.
Landings ==
  {Stay, "Counterparties", "CounterpartyDetail", "Programmes", "ProgrammeDetail", "Invoices", "InvoiceDetail",
   "Financing", "FinancingDetail", "InvoiceImportBatchDetail", "Documents", "WebhookEndpoints"}

\* What was changed is fetched again, unless it is gone.
Refetches(P, o) ==
  \A k \in o.about : o.shape # "remove" \/ o.next = Stay => P.reads \cap kinds[k].keys \subseteq o.invalidates

\* A gate names the permission the endpoint requires, or stands for it.
Gated(P, o) ==
  \/ o.gate = Ungated
  \/ o.gate = o.needs /\ o.gate \notin {"workflow:create", "workflow.manage"}
  \/ o.gate = "compliance:run_checks" /\ o.needs = "kyc.screen"
  \/ o.needs = "report.read" /\ <<"products", "resource">> \in P.reads

Tame(P) == \A o \in P.operations : Refetches(P, o) /\ o.next \in Landings /\ Gated(P, o)
Plainly(P) == \A o \in P.operations : o.shape \notin {"edit", "row"}
Orderly(P) == Tame(P) /\ Plainly(P)

LEMMA KeysOfKinds ==
  /\ kinds["counterparty"].keys = {<<"counterparties">>, <<"counterparty", "id">>}
  /\ kinds["programme"].keys = {<<"programmes">>, <<"programme", "id">>}
  /\ kinds["invoice"].keys = {<<"invoices">>, <<"invoice", "id">>}
  /\ kinds["financing"].keys = {<<"financing">>, <<"financing", "id">>}
  /\ kinds["approval"].keys = {<<"approvals", "pending">>, <<"approvals", "all">>, <<"approval", "id">>}
  /\ kinds["user"].keys = {<<"users">>}
  /\ kinds["payment"].keys = {<<"payments">>, <<"payments", "id">>}
  /\ kinds["product"].keys = {<<"products-dashboard">>, <<"products", "resource">>, <<"products", "resource", "id">>}
  /\ kinds["operation"].keys = {<<"operations", "resource">>, <<"operations-dashboard">>}
  /\ kinds["document"].keys = {<<"documents">>, <<"documents", "id">>}
  /\ kinds["notification"].keys = {<<"notifications">>, <<"notifications", "id">>}
  /\ kinds["connection"].keys = {<<"integration-connections">>, <<"integration-connections", "id">>}
  /\ kinds["endpoint"].keys = {<<"webhook-endpoints">>, <<"webhook-endpoints", "id">>}
  /\ kinds["delivery"].keys = {<<"webhook-deliveries">>, <<"webhook-deliveries", "id">>}
  /\ kinds["check"].keys = {<<"compliance", "summary">>, <<"compliance", "review-queue">>, <<"compliance", "checks">>, <<"compliance", "checks", "id">>}
  /\ kinds["batch"].keys = {<<"invoice-import-batches">>, <<"invoice-import-batch", "id">>}
  /\ kinds["row"].keys = {<<"invoice-import-rows", "id">>}
  /\ kinds["event"].keys = {<<"provider-webhook-events">>, <<"provider-webhook-event", "id">>}
  BY DEF kinds, Kind

LEMMA KindNames ==
  Kinds = {"counterparty", "programme", "invoice", "financing", "approval", "user", "payment", "product",
           "operation", "document", "notification", "connection", "endpoint", "delivery", "check",
           "batch", "row", "event"}
  BY DEF Kinds, kinds

\* The pages of workflow-pages.tsx.
LEMMA WorkflowPagesAreTame ==
  /\ Orderly(DashboardPage)
  /\ Tame(UserManagementPage)
  /\ Orderly(RolesPage)
  /\ Orderly(ApprovalsPage)
  /\ Orderly(PendingApprovalsPage)
  /\ Orderly(ApprovalDetailPage)
  /\ Orderly(CounterpartiesPage)
  /\ Orderly(NewCounterpartyPage)
  /\ Orderly(CounterpartyDetailPage)
  /\ Tame(EditCounterpartyPage)
  /\ Orderly(ProgrammesPage)
  /\ Orderly(NewProgrammePage)
  /\ Orderly(ProgrammeDetailPage)
  /\ Tame(EditProgrammePage)
  /\ Orderly(InvoicesPage)
  /\ Orderly(NewInvoicePage)
  /\ Orderly(InvoiceDetailPage)
  /\ Tame(EditInvoicePage)
  /\ Orderly(FinancingPage)
  /\ Orderly(FinancingDetailPage)
  /\ Tame(EditFinancingPage)
  /\ Orderly(ReportsPage)
  /\ Tame(OperationsControlPage)
<1> USE DEF Page, Operation, Orderly, Plainly, Tame, Refetches, Landings, Gated, Stay, Ungated
<1>1. /\ Orderly(DashboardPage)
      /\ Orderly(RolesPage)
      /\ Orderly(ApprovalsPage)
      /\ Orderly(PendingApprovalsPage)
      /\ Orderly(CounterpartiesPage)
      /\ Orderly(ProgrammesPage)
      /\ Orderly(FinancingPage)
  BY DEF DashboardPage, RolesPage, ApprovalsPage, PendingApprovalsPage, CounterpartiesPage, ProgrammesPage,
     FinancingPage, useCoreData
<1>2. Tame(UserManagementPage)
  BY KeysOfKinds DEF UserManagementPage, EditableUserRow, Form, Edit, UsersController
<1>3. Orderly(ApprovalDetailPage)
  BY KeysOfKinds DEF ApprovalDetailPage, Button, ApprovalsController
<1>4. Orderly(NewCounterpartyPage)
  BY KeysOfKinds DEF NewCounterpartyPage, Form, To, CounterpartiesController
<1>5. Orderly(CounterpartyDetailPage)
  BY KeysOfKinds DEF CounterpartyDetailPage, CounterpartyRelatedTables, Button, CounterpartiesController,
     UboRecordsController
<1>6. Tame(EditCounterpartyPage)
  BY KeysOfKinds DEF EditCounterpartyPage, CounterpartyEditForm, Edit, CounterpartiesController
<1>7. Orderly(NewProgrammePage)
  BY KeysOfKinds DEF NewProgrammePage, Form, To, ProgrammesController
<1>8. Orderly(ProgrammeDetailPage)
  BY KeysOfKinds DEF ProgrammeDetailPage, Form, Button, ProgrammesController
<1>9. Tame(EditProgrammePage)
  BY KeysOfKinds DEF EditProgrammePage, ProgrammeEditForm, Edit, ProgrammesController
<1>10. Orderly(InvoicesPage)
  BY KeysOfKinds DEF InvoicesPage, Button, FinancingController, InvoicesController
<1>11. Orderly(NewInvoicePage)
  BY KeysOfKinds DEF NewInvoicePage, Form, To, InvoicesController
<1>12. Orderly(InvoiceDetailPage)
  BY KeysOfKinds DEF InvoiceDetailPage, Button, Removal, To, FinancingController, InvoicesController
<1>13. Tame(EditInvoicePage)
  BY KeysOfKinds DEF EditInvoicePage, InvoiceEditForm, Edit, InvoicesController
<1>14. Orderly(FinancingDetailPage)
  BY KeysOfKinds DEF FinancingDetailPage, Button, Removal, FinancingController
<1>15. Tame(EditFinancingPage)
  BY KeysOfKinds DEF EditFinancingPage, FinancingEditForm, Edit, FinancingController
<1>16. Orderly(ReportsPage)
  BY KeysOfKinds DEF ReportsPage, useCoreData, Form, ProductsController
<1>17. Tame(OperationsControlPage)
  BY KeysOfKinds DEF OperationsControlPage, Form, RowEdit, OperationsController
<1> QED
  BY <1>1, <1>2, <1>3, <1>4, <1>5, <1>6, <1>7, <1>8, <1>9, <1>10, <1>11, <1>12, <1>13, <1>14, <1>15, <1>16,
     <1>17

\* The pages of payment-pages.tsx and product-pages.tsx.
LEMMA PaymentAndProductPagesAreTame ==
  /\ Orderly(PaymentsPage)
  /\ Orderly(PaymentDetailPage)
  /\ Orderly(PaymentWebhookEventsPage)
  /\ Orderly(PaymentWebhookEventDetailPage)
  /\ Orderly(ProductOverviewPage)
  /\ Tame(ProductResourcePage)
  /\ Orderly(ProductRecordDetailPage)
<1> USE DEF Page, Operation, Orderly, Plainly, Tame, Refetches, Landings, Gated, Stay, Ungated
<1>1. /\ Orderly(PaymentWebhookEventsPage)
      /\ Orderly(PaymentWebhookEventDetailPage)
      /\ Orderly(ProductOverviewPage)
  BY DEF PaymentWebhookEventsPage, PaymentWebhookEventDetailPage, ProductOverviewPage
<1>2. Orderly(PaymentsPage)
  BY KeysOfKinds DEF PaymentsPage, Form, PaymentsController
<1>3. Orderly(PaymentDetailPage)
  BY KeysOfKinds DEF PaymentDetailPage, Button, PaymentsController
<1>4. Tame(ProductResourcePage)
  BY KeysOfKinds DEF ProductResourcePage, Form, Removal, RowEdit, ProductsController
<1>5. Orderly(ProductRecordDetailPage)
  BY KeysOfKinds DEF ProductRecordDetailPage, Button, ProductsController
<1> QED
  BY <1>1, <1>2, <1>3, <1>4, <1>5

\* The pages of compliance-pages.tsx, invoice-import-pages.tsx and provider-webhook-pages.tsx.
LEMMA CompliancePagesAreTame ==
  /\ Orderly(ComplianceHomePage)
  /\ Orderly(ComplianceChecksPage)
  /\ Orderly(ComplianceReviewQueuePage)
  /\ Orderly(ComplianceCheckDetailPage)
  /\ Orderly(InvoiceImportPage)
  /\ Orderly(InvoiceImportBatchesPage)
  /\ Orderly(InvoiceImportBatchDetailPage)
  /\ Orderly(InvoiceExceptionsPage)
  /\ Orderly(ProviderWebhookEventsPage)
  /\ Orderly(ProviderWebhookEventDetailPage)
<1> USE DEF Page, Operation, Orderly, Plainly, Tame, Refetches, Landings, Gated, Stay, Ungated
<1>1. /\ Orderly(ComplianceHomePage)
      /\ Orderly(ComplianceChecksPage)
      /\ Orderly(ComplianceReviewQueuePage)
      /\ Orderly(InvoiceImportBatchesPage)
      /\ Orderly(InvoiceExceptionsPage)
      /\ Orderly(ProviderWebhookEventsPage)
  BY DEF ComplianceHomePage, ComplianceChecksPage, ComplianceReviewQueuePage, InvoiceImportBatchesPage,
     InvoiceExceptionsPage, ProviderWebhookEventsPage
<1>2. Orderly(ComplianceCheckDetailPage)
  BY KeysOfKinds DEF ComplianceCheckDetailPage, Button, ComplianceController
<1>3. Orderly(InvoiceImportPage)
  BY KeysOfKinds DEF InvoiceImportPage, Form, To, InvoiceImports
<1>4. Orderly(InvoiceImportBatchDetailPage)
  BY KeysOfKinds DEF InvoiceImportBatchDetailPage, Button, InvoiceImports
<1>5. Orderly(ProviderWebhookEventDetailPage)
  BY KeysOfKinds DEF ProviderWebhookEventDetailPage, Button, InvoiceImports
<1> QED
  BY <1>1, <1>2, <1>3, <1>4, <1>5

\* The pages of integration-readiness-pages.tsx and platform-operations-pages.tsx.
LEMMA PlatformPagesAreTame ==
  /\ Orderly(DocumentsPage)
  /\ Orderly(DocumentDetailPage)
  /\ Orderly(NotificationsPage)
  /\ Orderly(NotificationDetailPage)
  /\ Orderly(IntegrationConnectionsPage)
  /\ Orderly(IntegrationConnectionDetailPage)
  /\ Orderly(IntegrationLogsPage)
  /\ Orderly(WebhookEndpointsPage)
  /\ Orderly(WebhookEndpointDetailPage)
  /\ Orderly(WebhookDeliveriesPage)
  /\ Orderly(WebhookDeliveryDetailPage)
  /\ Orderly(OnboardingWorkspacePage)
  /\ Orderly(AuditTrailPage)
<1> USE DEF Page, Operation, Orderly, Plainly, Tame, Refetches, Landings, Gated, Stay, Ungated
<1>1. /\ Orderly(IntegrationLogsPage)
      /\ Orderly(WebhookDeliveriesPage)
      /\ Orderly(AuditTrailPage)
  BY DEF IntegrationLogsPage, WebhookDeliveriesPage, AuditTrailPage
<1>2. Orderly(DocumentsPage)
  BY KeysOfKinds DEF DocumentsPage, Form, DocumentsController
<1>3. Orderly(DocumentDetailPage)
  BY KeysOfKinds DEF DocumentDetailPage, Button, Removal, DocumentsController
<1>4. Orderly(NotificationsPage)
  BY KeysOfKinds DEF NotificationsPage, Form, NotificationsController
<1>5. Orderly(NotificationDetailPage)
  BY KeysOfKinds DEF NotificationDetailPage, Button, NotificationsController
<1>6. Orderly(IntegrationConnectionsPage)
  BY KeysOfKinds DEF IntegrationConnectionsPage, Form, IntegrationsController
<1>7. Orderly(IntegrationConnectionDetailPage)
  BY KeysOfKinds DEF IntegrationConnectionDetailPage, Button, IntegrationsController
<1>8. Orderly(WebhookEndpointsPage)
  BY KeysOfKinds DEF WebhookEndpointsPage, Form, WebhooksController
<1>9. Orderly(WebhookEndpointDetailPage)
  BY KeysOfKinds DEF WebhookEndpointDetailPage, Removal, WebhooksController
<1>10. Orderly(WebhookDeliveryDetailPage)
  BY KeysOfKinds DEF WebhookDeliveryDetailPage, Button, WebhooksController
<1>11. Orderly(OnboardingWorkspacePage)
  BY KeysOfKinds DEF OnboardingWorkspacePage, Form, CounterpartiesController
<1> QED
  BY <1>1, <1>2, <1>3, <1>4, <1>5, <1>6, <1>7, <1>8, <1>9, <1>10, <1>11

LEMMA PageNames ==
  DOMAIN pages =
    {"Dashboard", "UserManagement", "Roles", "Approvals", "PendingApprovals", "ApprovalDetail",
     "Counterparties", "NewCounterparty", "CounterpartyDetail", "EditCounterparty", "Programmes",
     "NewProgramme", "ProgrammeDetail", "EditProgramme", "Invoices", "NewInvoice", "InvoiceDetail",
     "EditInvoice", "Financing", "FinancingDetail", "EditFinancing", "Reports", "OperationsControl",
     "Payments", "PaymentDetail", "PaymentWebhookEvents", "PaymentWebhookEventDetail", "ProductOverview",
     "ProductResource", "ProductRecordDetail", "ComplianceHome", "ComplianceChecks", "ComplianceReviewQueue",
     "ComplianceCheckDetail", "InvoiceImport", "InvoiceImportBatches", "InvoiceImportBatchDetail",
     "InvoiceExceptions", "ProviderWebhookEvents", "ProviderWebhookEventDetail", "Documents",
     "DocumentDetail", "Notifications", "NotificationDetail", "IntegrationConnections",
     "IntegrationConnectionDetail", "IntegrationLogs", "WebhookEndpoints", "WebhookEndpointDetail",
     "WebhookDeliveries", "WebhookDeliveryDetail", "OnboardingWorkspace", "AuditTrail"}
  BY DEF pages

LEMMA PagesAreTame ==
  \A p \in DOMAIN pages : Tame(pages[p]) /\ (p \in Editors \/ Plainly(pages[p]))
<1>1. /\ pages["Dashboard"] = DashboardPage /\ pages["UserManagement"] = UserManagementPage
      /\ pages["Roles"] = RolesPage /\ pages["Approvals"] = ApprovalsPage
      /\ pages["PendingApprovals"] = PendingApprovalsPage /\ pages["ApprovalDetail"] = ApprovalDetailPage
      /\ pages["Counterparties"] = CounterpartiesPage /\ pages["NewCounterparty"] = NewCounterpartyPage
      /\ pages["CounterpartyDetail"] = CounterpartyDetailPage /\ pages["EditCounterparty"] = EditCounterpartyPage
      /\ pages["Programmes"] = ProgrammesPage /\ pages["NewProgramme"] = NewProgrammePage
      /\ pages["ProgrammeDetail"] = ProgrammeDetailPage /\ pages["EditProgramme"] = EditProgrammePage
      /\ pages["Invoices"] = InvoicesPage /\ pages["NewInvoice"] = NewInvoicePage
      /\ pages["InvoiceDetail"] = InvoiceDetailPage /\ pages["EditInvoice"] = EditInvoicePage
      /\ pages["Financing"] = FinancingPage /\ pages["FinancingDetail"] = FinancingDetailPage
      /\ pages["EditFinancing"] = EditFinancingPage /\ pages["Reports"] = ReportsPage
      /\ pages["OperationsControl"] = OperationsControlPage /\ pages["Payments"] = PaymentsPage
      /\ pages["PaymentDetail"] = PaymentDetailPage /\ pages["PaymentWebhookEvents"] = PaymentWebhookEventsPage
      /\ pages["PaymentWebhookEventDetail"] = PaymentWebhookEventDetailPage
      /\ pages["ProductOverview"] = ProductOverviewPage /\ pages["ProductResource"] = ProductResourcePage
      /\ pages["ProductRecordDetail"] = ProductRecordDetailPage /\ pages["ComplianceHome"] = ComplianceHomePage
      /\ pages["ComplianceChecks"] = ComplianceChecksPage
      /\ pages["ComplianceReviewQueue"] = ComplianceReviewQueuePage
      /\ pages["ComplianceCheckDetail"] = ComplianceCheckDetailPage /\ pages["InvoiceImport"] = InvoiceImportPage
      /\ pages["InvoiceImportBatches"] = InvoiceImportBatchesPage
      /\ pages["InvoiceImportBatchDetail"] = InvoiceImportBatchDetailPage
      /\ pages["InvoiceExceptions"] = InvoiceExceptionsPage
      /\ pages["ProviderWebhookEvents"] = ProviderWebhookEventsPage
      /\ pages["ProviderWebhookEventDetail"] = ProviderWebhookEventDetailPage
      /\ pages["Documents"] = DocumentsPage /\ pages["DocumentDetail"] = DocumentDetailPage
      /\ pages["Notifications"] = NotificationsPage /\ pages["NotificationDetail"] = NotificationDetailPage
      /\ pages["IntegrationConnections"] = IntegrationConnectionsPage
      /\ pages["IntegrationConnectionDetail"] = IntegrationConnectionDetailPage
      /\ pages["IntegrationLogs"] = IntegrationLogsPage /\ pages["WebhookEndpoints"] = WebhookEndpointsPage
      /\ pages["WebhookEndpointDetail"] = WebhookEndpointDetailPage
      /\ pages["WebhookDeliveries"] = WebhookDeliveriesPage
      /\ pages["WebhookDeliveryDetail"] = WebhookDeliveryDetailPage
      /\ pages["OnboardingWorkspace"] = OnboardingWorkspacePage /\ pages["AuditTrail"] = AuditTrailPage
  BY DEF pages
<1> QED
  BY <1>1, PageNames, WorkflowPagesAreTame, PaymentAndProductPagesAreTame, CompliancePagesAreTame, PlatformPagesAreTame
     DEF Editors, Orderly

LEMMA EditorsEdit ==
  /\ \A o \in pages["UserManagement"].operations : o.about = {"user"}
  /\ \A o \in pages["EditCounterparty"].operations : o.shape = "edit" /\ o.about = {"counterparty"}
  /\ \A o \in pages["EditProgramme"].operations : o.shape = "edit" /\ o.about = {"programme"}
  /\ \A o \in pages["EditInvoice"].operations : o.shape = "edit" /\ o.about = {"invoice"}
  /\ \A o \in pages["EditFinancing"].operations : o.shape = "edit" /\ o.about = {"financing"}
  /\ \A o \in pages["OperationsControl"].operations : o.about = {"operation"}
  /\ \A o \in pages["ProductResource"].operations : o.about \subseteq {"product"}
  BY DEF pages, Page, Operation, Form, Edit, RowEdit, Removal, UserManagementPage, EditableUserRow,
     EditCounterpartyPage, CounterpartyEditForm, EditProgrammePage, ProgrammeEditForm, EditInvoicePage, InvoiceEditForm,
     EditFinancingPage, FinancingEditForm, OperationsControlPage, ProductResourcePage
-----------------------------------------------------------------------------
\* Who sees what a gate lets see is served, for any permissions the page is read with.
LEMMA GatesAreKept == GatesAdmit
<1> SUFFICES ASSUME NEW p \in DOMAIN pages, NEW o \in pages[p].operations, o.gate # Ungated, NEW permission,
                    NEW held, held = {permission} \cup {kinds[k].needs : k \in {j \in Kinds : pages[p].reads \cap kinds[j].keys # {}}},
                    can({}, held, o.gate)
             PROVE  mayCall({}, held, o.needs)
  BY DEF GatesAdmit
<1>1. Gated(pages[p], o)
  BY PagesAreTame DEF Tame
<1>2. CASE o.gate = o.needs /\ o.gate \notin {"workflow:create", "workflow.manage"}
  BY <1>2, WebNamesAreKnown DEF mayCall
<1>3. CASE o.gate = "compliance:run_checks" /\ o.needs = "kyc.screen"
  <2>1. <<"kyc.screen", "compliance:run_checks">> \in apiAliases
    BY DEF apiAliases, commonAliases
  <2>2. "compliance:run_checks" \in held \/ "kyc.screen" \in held
    BY <1>3 DEF can, hasPermission, webAliases, commonAliases
  <2> QED
    BY <1>3, <2>1, <2>2 DEF mayCall, canActivate, expandPermissions
<1>4. CASE o.needs = "report.read" /\ <<"products", "resource">> \in pages[p].reads
  <2>1. kinds["product"].needs = "report.read" /\ "product" \in Kinds
    BY KindNames DEF kinds, Kind, ProductsController
  <2>2. <<"products", "resource">> \in pages[p].reads \cap kinds["product"].keys
    BY <1>4, KeysOfKinds
  <2>3. "report.read" \in held
    BY <2>1, <2>2
  <2> QED
    BY <1>4, <2>3 DEF mayCall, canActivate, expandPermissions
<1> QED
  BY <1>1, <1>2, <1>3, <1>4 DEF Gated
-----------------------------------------------------------------------------
(* Keys *)

LEMMA ThisKind ==
  ASSUME paging
  PROVE  kind \in Kinds /\ kind \in scope /\ Keys = kinds[kind].keys
  BY DEF paging, kind, Keys

LEMMA KeysOfPages ==
  ASSUME paging, NEW p
  PROVE  keysOf(p) \subseteq Keys
  BY ThisKind DEF keysOf

LEMMA OperationsAreTame ==
  ASSUME NEW p, NEW o \in operationsOf(p)
  PROVE  /\ p \in DOMAIN pages /\ p # Closed /\ p # Elsewhere
         /\ o \in PageOperations /\ kind \in o.about /\ o.next \in Landings
         /\ o.shape # "remove" \/ o.next = Stay => keysOf(p) \subseteq o.invalidates
<1>1. p \in DOMAIN pages /\ o \in pages[p].operations /\ kind \in o.about
  BY DEF operationsOf
<1>2. p # Closed /\ p # Elsewhere
  BY <1>1, PageNames DEF Closed, Elsewhere
<1>3. Refetches(pages[p], o) /\ o.next \in Landings
  BY <1>1, PagesAreTame DEF Tame
<1> QED
  BY <1>1, <1>2, <1>3 DEF Refetches, keysOf, PageOperations

\* An invalidation by a key is one of the key.
LEMMA KeysMatch ==
  ASSUME paging, NEW invalidated, NEW key \in Keys, key \in invalidated
  PROVE  key \in matching(invalidated)
<1>1. Len(key) \in Nat /\ isPrefixOf(key, key)
  <2>1. \A k \in Kinds : \A x \in kinds[k].keys : Len(x) \in Nat
    BY KindNames, KeysOfKinds
  <2> QED
    BY <2>1, ThisKind DEF isPrefixOf
<1> QED
  BY <1>1 DEF matching

LEMMA LandingsAreNoEditors ==
  ASSUME NEW p \in DOMAIN pages, p \in Landings
  PROVE  Plainly(pages[p])
  BY PagesAreTame DEF Landings, Editors, Stay

Edited == kind \in {"counterparty", "programme", "invoice", "financing"}
idKey == <<kind, "id">>

\* What is edited on a page that is filled from a record.
LEMMA EditorsAreOfTheirKind ==
  ASSUME paging, NEW p, NEW o \in operationsOf(p), o.shape \in {"edit", "row"}
  PROVE  /\ kind = "user" \/ kind = "operation" \/ kind = "product" \/ Edited
         /\ Edited => keysOf(p) = {idKey} /\ \A q \in operationsOf(p) : q.shape = "edit"
<1>1. p \in DOMAIN pages /\ o \in pages[p].operations /\ kind \in o.about
  BY DEF operationsOf
<1>2. p \in Editors
  BY <1>1, PagesAreTame DEF Plainly
<1>3. /\ p = "UserManagement" => kind = "user"
      /\ p = "EditCounterparty" => kind = "counterparty"
      /\ p = "EditProgramme" => kind = "programme"
      /\ p = "EditInvoice" => kind = "invoice"
      /\ p = "EditFinancing" => kind = "financing"
      /\ p = "OperationsControl" => kind = "operation"
      /\ p = "ProductResource" => kind = "product"
  BY <1>1, EditorsEdit
<1>4. /\ p = "EditCounterparty" => keysOf(p) = {<<"counterparty", "id">>}
      /\ p = "EditProgramme" => keysOf(p) = {<<"programme", "id">>}
      /\ p = "EditInvoice" => keysOf(p) = {<<"invoice", "id">>}
      /\ p = "EditFinancing" => keysOf(p) = {<<"financing", "id">>}
  <2>1. /\ pages["EditCounterparty"].reads = {<<"counterparty", "id">>}
        /\ pages["EditProgramme"].reads = {<<"programme", "id">>, <<"counterparties">>}
        /\ pages["EditInvoice"].reads = {<<"invoice", "id">>}
        /\ pages["EditFinancing"].reads = {<<"financing", "id">>}
    BY DEF pages, Page, EditCounterpartyPage, EditProgrammePage, EditInvoicePage, EditFinancingPage
  <2> QED
    BY <1>1, <1>3, <2>1, KeysOfKinds DEF keysOf
<1>5. Edited => p \in {"EditCounterparty", "EditProgramme", "EditInvoice", "EditFinancing"}
  BY <1>2, <1>3 DEF Edited, Editors
<1>6. \A q \in operationsOf(p) : q \in pages[p].operations
  BY DEF operationsOf
<1> QED
  BY <1>2, <1>3, <1>4, <1>5, <1>6, EditorsEdit DEF Edited, Editors, idKey

\* A record with a page of its own.
LEMMA OwnPagesShowIt ==
  ASSUME paging, NEW p, ownPage(p)
  PROVE  kind \notin {"user", "operation"} /\ (Edited => idKey \in keysOf(p))
<1>1. PICK key \in keysOf(p) : key[Len(key)] = "id"
  BY DEF ownPage
<1>2. key \in kinds[kind].keys
  BY <1>1, ThisKind, KeysOfPages
<1>3. <<"users">>[Len(<<"users">>)] # "id" /\ <<"operations", "resource">>[Len(<<"operations", "resource">>)] # "id"
      /\ <<"operations-dashboard">>[Len(<<"operations-dashboard">>)] # "id"
  OBVIOUS
<1>4. kind \notin {"user", "operation"}
  BY <1>1, <1>2, <1>3, KeysOfKinds
<1>5. Edited => key = idKey
  BY <1>1, <1>2, KeysOfKinds DEF Edited, idKey
<1> QED
  BY <1>1, <1>4, <1>5
-----------------------------------------------------------------------------
(* Invariants of the pages *)

\* The pages are for somebody who is signed in; what they have changed is theirs.
OpenInv ==
  /\ page # Closed => appShell /\ paging
  /\ pending.start # None => ~shown.ready
  /\ storage.token # None => session[storage.token] # NoSession
  /\ mine.here > 0 => page # Closed

\* The cache has a version of at least v, or is about to; nothing older is on its way.
Shows(key, v) ==
  /\ fetch[key] >= 0 => fetch[key] >= v
  /\ \/ cache[key] # Absent /\ cache[key].version >= v
     \/ fetch[key] >= v
     \/ fetch[key] = Unauthorized

\* An operation is one on what was loaded; what it did is shown, or fetched, until the
\* page is left.
HereInv ==
  Without({"eager", "roles"}) =>
    /\ operation.stage \in {"sent", "done"} => \A key \in keysOf(operation.on) : cache[key] # Absent
    /\ mine.here > 0 /\ mayRead /\ operation.stage # "awaiting" =>
         \A key \in keysOf(page) : Shows(key, mine.here)

\* Without haste a page waits for its operation, and what was done on the own page of a
\* record reaches every form that is filled from the record.
RecordInv ==
  Without({"hasty", "eager", "roles", "logout", "product"}) =>
    /\ operation # NoOperation => page = operation.on
    /\ mine.record > 0 => page # Closed /\ kind \notin {"user", "operation"}
    /\ filled # NotFilled => \E o \in operationsOf(page) : o.shape \in {"edit", "row"}
    /\ operation.stage = "done" => operation.made >= mine.record
    /\ mine.record > 0 /\ mayRead =>
         /\ Edited => Shows(idKey, mine.record)
         /\ filled = NotFilled \/ filled >= mine.record
         /\ operation.stage = "sent" => operation.base = NotFilled \/ operation.base >= mine.record

PagesInv == PagesTypeOK /\ OpenInv /\ HereInv /\ RecordInv
-----------------------------------------------------------------------------
LEMMA KindStays ==
  ASSUME scope' = scope
  PROVE  kind' = kind /\ paging' = paging /\ Keys' = Keys /\ Edited' = Edited /\ idKey' = idKey
<1>1. kind' = kind /\ paging' = paging
  BY DEF kind, paging
<1> QED
  BY <1>1 DEF Keys, Edited, idKey

LEMMA PageBecomes ==
  ASSUME scope' = scope, NEW p, page' = p
  PROVE  keysOf(page)' = keysOf(p) /\ operationsOf(page)' = operationsOf(p)
  BY KindStays DEF keysOf, operationsOf

LEMMA OperationBecomes ==
  ASSUME scope' = scope, NEW o, operation' = o
  PROVE  keysOf(operation.on)' = keysOf(o.on) /\ operationsOf(operation.on)' = operationsOf(o.on)
  BY KindStays DEF keysOf, operationsOf

\* What a fetch brings.
LEMMA AskedIs ==
  ASSUME PagesTypeOK, paging
  PROVE  /\ asked \in {version, Unauthorized, Forbidden} /\ asked \in Forbidden..version
         /\ mayRead => asked \in {version, Unauthorized}
<1>1. version \in Nat
  BY PagesAssumption DEF PagesTypeOK
<1>2. asked \in {version, Unauthorized, Forbidden}
  BY DEF asked, refusal, NoAnswer, Unauthorized, Forbidden
<1>3. mayRead => asked \in {version, Unauthorized}
  <2> SUFFICES ASSUME mayRead PROVE refusal(kinds[kind].needs) \in {NoAnswer, Unauthorized}
    BY DEF asked, NoAnswer, Unauthorized
  <2>1. tokenSent = storage.token /\ served(tokenSent, kinds[kind].needs)
    BY DEF mayRead, tokenSent
  <2> QED
    BY <2>1 DEF refusal
<1> QED
  BY <1>1, <1>2, <1>3 DEF Unauthorized, Forbidden

\* What is on its way and what is cached, by key.
LEMMA CacheTyped ==
  ASSUME PagesTypeOK
  PROVE  /\ version \in Nat /\ version <= MaxChanges /\ MaxChanges \in Nat
         /\ cache = [key \in Keys |-> cache[key]] /\ fetch = [key \in Keys |-> fetch[key]]
         /\ \A key \in Keys : fetch[key] \in Int /\ fetch[key] <= version
         /\ \A key \in Keys : cache[key] # Absent =>
              /\ cache[key] \in [version : 0..version, stale : BOOLEAN]
              /\ cache[key].version \in Nat /\ cache[key].version <= version
         /\ mine = [record |-> mine.record, here |-> mine.here]
         /\ mine.record \in Nat /\ mine.record <= version /\ mine.here \in Nat /\ mine.here <= version
  BY PagesAssumption DEF PagesTypeOK, Forbidden

LEMMA OutdatedTyped ==
  ASSUME NEW n \in Nat, NEW e \in [version : 0..n, stale : BOOLEAN]
  PROVE  /\ outdated(e) \in [version : 0..n, stale : BOOLEAN]
         /\ outdated(e).version = e.version /\ outdated(e) # Absent
<1>1. outdated(e) \in [version : 0..n, stale : BOOLEAN] /\ outdated(e).version = e.version
  BY DEF outdated
<1>2. outdated(e).version # Absent.version
  BY DEF outdated, Absent
<1> QED
  BY <1>1, <1>2

LEMMA InvalidateDoes ==
  ASSUME PagesTypeOK, paging, NEW invalidated, invalidate(invalidated), version' = version, scope' = scope
  PROVE  /\ cache' \in [Keys -> {Absent} \cup [version : 0..version, stale : BOOLEAN]]
         /\ fetch' \in [Keys -> Forbidden..version]
         /\ \A key \in Keys : /\ cache'[key] = Absent <=> cache[key] = Absent
                              /\ cache[key] # Absent => cache'[key].version = cache[key].version
                              /\ fetch'[key] = fetch[key] \/ fetch'[key] = asked
                              /\ key \in matching(invalidated) /\ key \in keysOf(page) /\ cache[key] # Absent
                                   => fetch'[key] = asked
<1> DEFINE stale == matching(invalidated)
<1>1. cache' = [key \in Keys |-> IF key \in stale /\ cache[key] # Absent THEN outdated(cache[key])
                                         ELSE cache[key]]
  BY DEF invalidate
<1>2. fetch' = [key \in Keys |-> IF key \in stale \cap keysOf(page) /\ (cache[key] # Absent \/ fetch[key] = NoAnswer)
                                   THEN asked ELSE fetch[key]]
  BY DEF invalidate
<1> HIDE DEF stale
<1>3. ASSUME NEW key \in Keys
      PROVE  /\ cache'[key] \in {Absent} \cup [version : 0..version, stale : BOOLEAN]
             /\ cache'[key] = Absent <=> cache[key] = Absent
             /\ cache[key] # Absent => cache'[key].version = cache[key].version
  <2>1. CASE cache[key] = Absent
    BY <1>1, <2>1
  <2>2. CASE cache[key] # Absent
    <3>1. cache[key] \in [version : 0..version, stale : BOOLEAN] /\ version \in Nat
      BY <2>2, CacheTyped
    <3>2. cache'[key] = outdated(cache[key]) \/ cache'[key] = cache[key]
      BY <1>1
    <3> QED
      BY <2>2, <3>1, <3>2, OutdatedTyped
  <2> QED
    BY <2>1, <2>2
<1>4. fetch' \in [Keys -> Forbidden..version]
  BY <1>2, AskedIs DEF PagesTypeOK
<1>5. cache' \in [Keys -> {Absent} \cup [version : 0..version, stale : BOOLEAN]]
  BY <1>1, <1>3
<1> QED
  BY <1>2, <1>3, <1>4, <1>5 DEF stale
-----------------------------------------------------------------------------
(* Steps *)

\* What a step of the pages keeps, besides what it leaves to the tab.
Kept ==
  /\ PagesTypeOK' /\ HereInv' /\ RecordInv'
  /\ page' # Closed => appShell
  /\ mine'.here > 0 => page' # Closed

LEMMA OperationTyped ==
  ASSUME PagesTypeOK
  PROVE  /\ operation = NoOperation <=> operation.stage = "none"
         /\ operation # NoOperation =>
              /\ operation \in UnderWay
              /\ operation = [stage |-> operation.stage, of |-> operation.of, on |-> operation.on,
                              base |-> operation.base, made |-> operation.made]
              /\ operation.stage \in {"sent", "failed", "done", "awaiting"}
              /\ operation.of \in operationsOf(operation.on) /\ operation.of \in PageOperations
              /\ operation.on \in DOMAIN pages
              /\ operation.base \in Int /\ NotFilled <= operation.base /\ operation.base <= version
              /\ operation.made \in Nat /\ operation.made <= version
<1>1. CASE operation = NoOperation
  BY <1>1 DEF NoOperation
<1>2. CASE operation # NoOperation
  <2>1. operation \in UnderWay /\ operation.of \in operationsOf(operation.on)
        /\ operation.base <= version /\ operation.made <= version
    BY <1>2 DEF PagesTypeOK
  <2>2. /\ operation = [stage |-> operation.stage, of |-> operation.of, on |-> operation.on,
                        base |-> operation.base, made |-> operation.made]
        /\ operation.stage \in {"sent", "failed", "done", "awaiting"} /\ operation.of \in PageOperations
        /\ operation.on \in DOMAIN pages /\ operation.base \in NotFilled..MaxChanges /\ operation.made \in 0..MaxChanges
    BY <2>1 DEF UnderWay
  <2>3. operation.stage # "none"
    BY <2>2
  <2>4. operation.base \in Int /\ NotFilled <= operation.base /\ operation.made \in Nat
    BY <2>2, PagesAssumption DEF NotFilled
  <2> QED
    BY <1>2, <2>1, <2>2, <2>3, <2>4
<1> QED
  BY <1>1, <1>2

\* The types of an operation that is put in its place.
LEMMA OperationPut ==
  ASSUME PagesTypeOK, scope' = scope, version' \in Nat, version' <= MaxChanges, NEW st \in UnderWay, operation' = st,
         st.of \in operationsOf(st.on), st.base <= version', st.made <= version'
  PROVE  /\ operation' \in {NoOperation} \cup UnderWay
         /\ (operation # NoOperation =>
              operation.of \in operationsOf(operation.on) /\ operation.base <= version /\ operation.made <= version)'
<1>1. operationsOf(operation.on)' = operationsOf(st.on)
  BY OperationBecomes
<1> QED
  BY <1>1

\* As the record changes, everything shown of it stays of its type.
LEMMA TypesGrow ==
  ASSUME PagesTypeOK, version' \in {version, version + 1}, version' <= MaxChanges, UNCHANGED <<page, cache, fetch, filled, mine, scope>>
  PROVE  /\ page' \in DOMAIN pages \cup {Closed, Elsewhere} /\ version' \in 0..MaxChanges
         /\ cache' \in [Keys' -> {Absent} \cup [version : 0..version', stale : BOOLEAN]]
         /\ fetch' \in [Keys' -> Forbidden..version']
         /\ filled' \in NotFilled..version'
         /\ mine' \in [record : 0..version', here : 0..version']
<1>1. version \in Nat /\ MaxChanges \in Nat /\ version' \in Nat /\ version <= version'
  BY CacheTyped
<1>2. 0..version \subseteq 0..version' /\ Forbidden..version \subseteq Forbidden..version'
      /\ NotFilled..version \subseteq NotFilled..version'
  BY <1>1 DEF Forbidden, NotFilled
<1>3. [version : 0..version, stale : BOOLEAN] \subseteq [version : 0..version', stale : BOOLEAN]
  BY <1>2
<1>4. Keys' = Keys
  BY KindStays
<1>5. cache' \in [Keys' -> {Absent} \cup [version : 0..version', stale : BOOLEAN]]
  BY <1>3, <1>4 DEF PagesTypeOK
<1>6. fetch' \in [Keys' -> Forbidden..version']
  BY <1>2, <1>4 DEF PagesTypeOK
<1>7. mine' \in [record : 0..version', here : 0..version']
  BY <1>2 DEF PagesTypeOK
<1>8. version' \in 0..MaxChanges
  BY <1>1
<1>9. filled' \in NotFilled..version'
  BY <1>2 DEF PagesTypeOK
<1>10. page' \in DOMAIN pages \cup {Closed, Elsewhere}
  BY DEF PagesTypeOK
<1> QED
  BY <1>5, <1>6, <1>7, <1>8, <1>9, <1>10

LEMMA ShowsStays ==
  ASSUME PagesTypeOK, NEW key \in Keys, NEW v \in Nat, v <= version, Shows(key, v),
         cache[key] # Absent => cache'[key] # Absent /\ cache'[key].version = cache[key].version,
         fetch'[key] = fetch[key] \/ fetch'[key] \in {version, Unauthorized}
  PROVE  Shows(key, v)'
<1>1. version \in Nat /\ fetch[key] \in Int
  BY CacheTyped
<1>2. fetch'[key] >= 0 => fetch'[key] >= v
  BY <1>1 DEF Shows, Unauthorized
<1>3. \/ cache'[key] # Absent /\ cache'[key].version >= v
      \/ fetch'[key] >= v
      \/ fetch'[key] = Unauthorized
  <2>1. CASE cache[key] # Absent /\ cache[key].version >= v
    BY <2>1
  <2>2. CASE fetch[key] >= v
    BY <1>1, <2>2 DEF Unauthorized
  <2>3. CASE fetch[key] = Unauthorized
    BY <1>1, <2>3 DEF Unauthorized
  <2> QED
    BY <2>1, <2>2, <2>3 DEF Shows
<1> QED
  BY <1>2, <1>3 DEF Shows

\* A step that leaves the page, its form and what was done alone.
LEMMA SamePage ==
  ASSUME PagesInv, paging, UNCHANGED <<page, filled, mine, scope>>, mayRead' => mayRead, PagesTypeOK',
         \A key \in Keys :
           /\ cache[key] # Absent => cache'[key] # Absent /\ cache'[key].version = cache[key].version
           /\ fetch'[key] = fetch[key] \/ (mayRead => fetch'[key] \in {version, Unauthorized}),
         NEW st, operation' = st,
         operation.stage = "awaiting" => st.stage = "awaiting",
         \/ st = operation
         \/ /\ st # NoOperation => page = st.on
            /\ st.stage \in {"sent", "done"} /\ Without({"eager", "roles"}) => \A key \in keysOf(st.on) : cache[key] # Absent
            /\ st.stage = "done" => st.made >= mine.record
            /\ st.stage = "sent" => st.base = filled \/ st.base = NotFilled
         \/ /\ operation # NoOperation /\ st.stage # "sent" /\ (st # NoOperation => st.on = operation.on)
            /\ st.stage \in {"sent", "done"} => operation.stage \in {"sent", "done"}
            /\ st.stage = "done" => st.made >= mine.record
  PROVE  Kept
<1>1. kind' = kind /\ Keys' = Keys /\ Edited' = Edited /\ idKey' = idKey
  BY KindStays
<1>2. PICK p : p = page
  OBVIOUS
<1>3. keysOf(page)' = keysOf(page) /\ operationsOf(page)' = operationsOf(page) /\ keysOf(page) \subseteq Keys
  BY <1>2, PageBecomes, KeysOfPages
<1>4. keysOf(operation.on)' = keysOf(st.on) /\ keysOf(st.on) \subseteq Keys
  BY OperationBecomes, KeysOfPages
<1>5. Edited => idKey \in Keys
  BY ThisKind, KeysOfKinds DEF Edited, idKey
<1>6. mine.record \in Nat /\ mine.here \in Nat /\ mine.record <= version /\ mine.here <= version
  BY CacheTyped DEF PagesInv
<1>7. ASSUME NEW key \in Keys, NEW v \in Nat, v <= version, mayRead, Shows(key, v) PROVE Shows(key, v)'
  BY <1>7, ShowsStays DEF PagesInv
<1>8. NoOperation.stage = "none" /\ (operation # NoOperation => operation.stage # "none")
  BY OperationTyped DEF PagesInv, NoOperation
<1>9. HereInv'
  <2> SUFFICES ASSUME Without({"eager", "roles"})
               PROVE  /\ st.stage \in {"sent", "done"} => \A key \in keysOf(st.on) : cache'[key] # Absent
                      /\ mine.here > 0 /\ mayRead' /\ st.stage # "awaiting" =>
                           \A key \in keysOf(page) : Shows(key, mine.here)'
    BY <1>3, <1>4 DEF HereInv, Without, Shows
  <2>1. st.stage \in {"sent", "done"} => \A key \in keysOf(st.on) : cache[key] # Absent
    BY <1>8 DEF PagesInv, HereInv
  <2>2. mine.here > 0 /\ mayRead' /\ st.stage # "awaiting" => \A key \in keysOf(page) : Shows(key, mine.here)
    BY DEF PagesInv, HereInv
  <2> QED
    BY <1>3, <1>4, <1>6, <1>7, <2>1, <2>2
<1>10. RecordInv'
  <2> SUFFICES ASSUME Without({"hasty", "eager", "roles", "logout", "product"})
               PROVE  /\ st # NoOperation => page = st.on
                      /\ mine.record > 0 => page # Closed /\ kind \notin {"user", "operation"}
                      /\ filled # NotFilled => \E o \in operationsOf(page) : o.shape \in {"edit", "row"}
                      /\ st.stage = "done" => st.made >= mine.record
                      /\ mine.record > 0 /\ mayRead' =>
                           /\ Edited => Shows(idKey, mine.record)'
                           /\ filled = NotFilled \/ filled >= mine.record
                           /\ st.stage = "sent" => st.base = NotFilled \/ st.base >= mine.record
    BY <1>1, <1>3 DEF RecordInv, Without, Shows
  <2> USE DEF PagesInv, RecordInv
  <2>1. st # NoOperation => page = st.on
    OBVIOUS
  <2>2. st.stage = "done" => st.made >= mine.record
    OBVIOUS
  <2>3. mine.record > 0 /\ mayRead' => filled = NotFilled \/ filled >= mine.record
    OBVIOUS
  <2>4. mine.record > 0 /\ mayRead' /\ st.stage = "sent" => st.base = NotFilled \/ st.base >= mine.record
    BY <2>3
  <2>5. mine.record > 0 /\ mayRead' /\ Edited => Shows(idKey, mine.record)'
    <3>1. mine.record > 0 /\ mayRead /\ Edited => Shows(idKey, mine.record)
      OBVIOUS
    <3> QED
      BY <1>1, <1>5, <1>6, <1>7, <3>1 DEF Shows
  <2> QED
    BY <2>1, <2>2, <2>3, <2>4, <2>5
<1> QED
  BY <1>9, <1>10 DEF Kept, PagesInv, OpenInv

LEMMA TypesPut ==
  ASSUME scope' = scope, page' \in DOMAIN pages \cup {Closed, Elsewhere}, version' \in 0..MaxChanges,
         cache' \in [Keys -> {Absent} \cup [version : 0..version', stale : BOOLEAN]],
         fetch' \in [Keys -> Forbidden..version'], filled' \in NotFilled..version',
         mine' \in [record : 0..version', here : 0..version'],
         NEW st, operation' = st,
         \/ st = NoOperation
         \/ st \in UnderWay /\ st.of \in operationsOf(st.on) /\ st.base <= version' /\ st.made <= version'
  PROVE  PagesTypeOK'
<1>1. Keys' = Keys
  BY KindStays
<1>2. operationsOf(operation.on)' = operationsOf(st.on)
  BY OperationBecomes
<1>3. operation' \in {NoOperation} \cup UnderWay
  OBVIOUS
<1>4. (operation # NoOperation =>
         operation.of \in operationsOf(operation.on) /\ operation.base <= version /\ operation.made <= version)'
  BY <1>2
<1> QED
  BY <1>1, <1>3, <1>4 DEF PagesTypeOK

LEMMA AgeKeeps ==
  ASSUME PagesInv, paging, NEW key \in Keys, age(key), scope' = scope, mayRead' => mayRead
  PROVE  Kept
<1>1. PICK st : st = operation
  OBVIOUS
<1>2. cache' = [cache EXCEPT ![key] = outdated(@)] /\ cache[key] # Absent
      /\ UNCHANGED <<page, version, fetch, filled, operation, mine>>
  BY DEF age
<1>3. cache[key] \in [version : 0..version, stale : BOOLEAN] /\ version \in Nat
  BY <1>2, CacheTyped DEF PagesInv
<1>4. outdated(cache[key]) \in [version : 0..version, stale : BOOLEAN]
      /\ outdated(cache[key]).version = cache[key].version /\ outdated(cache[key]) # Absent
  BY <1>3, OutdatedTyped
<1>5. cache \in [Keys -> {Absent} \cup [version : 0..version, stale : BOOLEAN]]
  BY DEF PagesInv, PagesTypeOK
<1>6. cache' \in [Keys -> {Absent} \cup [version : 0..version, stale : BOOLEAN]]
  BY <1>2, <1>4, <1>5
<1>7. PagesTypeOK'
  BY <1>1, <1>2, <1>6, TypesPut, OperationTyped DEF PagesInv, PagesTypeOK
<1>8. \A k \in Keys : cache[k] # Absent => cache'[k] # Absent /\ cache'[k].version = cache[k].version
  BY <1>2, <1>4, <1>5
<1> QED
  BY <1>1, <1>2, <1>7, <1>8, SamePage

LEMMA RefreshKeeps ==
  ASSUME PagesInv, paging, refresh, scope' = scope, mayRead' => mayRead
  PROVE  Kept
<1>1. PICK st : st = operation
  OBVIOUS
<1>2. PICK prefixes : prefixes = DashboardPage.reads \ {<<"health">>}
  OBVIOUS
<1>3. invalidate(prefixes) /\ UNCHANGED <<page, version, filled, operation, mine>>
  BY <1>2 DEF refresh
<1>4. /\ cache' \in [Keys -> {Absent} \cup [version : 0..version, stale : BOOLEAN]]
      /\ fetch' \in [Keys -> Forbidden..version]
      /\ \A key \in Keys : /\ cache'[key] = Absent <=> cache[key] = Absent
                           /\ cache[key] # Absent => cache'[key].version = cache[key].version
                           /\ fetch'[key] = fetch[key] \/ fetch'[key] = asked
  BY <1>3, InvalidateDoes DEF PagesInv
<1>5. PagesTypeOK'
  BY <1>1, <1>3, <1>4, TypesPut, OperationTyped DEF PagesInv, PagesTypeOK
<1>6. mayRead => asked \in {version, Unauthorized}
  BY AskedIs DEF PagesInv
<1> QED
  BY <1>1, <1>3, <1>4, <1>5, <1>6, SamePage

LEMMA ChangedElsewhereKeeps ==
  ASSUME PagesInv, paging, changedElsewhere, scope' = scope, mayRead' => mayRead
  PROVE  Kept
<1>1. PICK st : st = operation
  OBVIOUS
<1>2. version' = version + 1 /\ version < MaxChanges /\ UNCHANGED <<page, cache, fetch, filled, operation, mine>>
  BY DEF changedElsewhere
<1>3. version \in Nat /\ MaxChanges \in Nat
  BY CacheTyped DEF PagesInv
<1>4. Keys' = Keys
  BY KindStays
<1>5. operation # NoOperation => st \in UnderWay /\ st.of \in operationsOf(st.on) /\ st.base <= version' /\ st.made <= version'
  BY <1>1, <1>2, <1>3, OperationTyped DEF PagesInv
<1>6. PagesTypeOK'
  BY <1>1, <1>2, <1>3, <1>4, <1>5, TypesPut, TypesGrow DEF PagesInv
<1> QED
  BY <1>1, <1>2, <1>6, SamePage

LEMMA FailedKeeps ==
  ASSUME PagesInv, paging, failed, scope' = scope, mayRead' => mayRead
  PROVE  Kept
<1>1. operation.stage = "failed" /\ operation' = NoOperation /\ UNCHANGED <<page, version, cache, fetch, filled, mine>>
  BY DEF failed
<1>2. PagesTypeOK'
  BY <1>1, TypesPut DEF PagesInv, PagesTypeOK
<1>3. PICK st : st = NoOperation
  OBVIOUS
<1>4. st.stage = "none" /\ operation # NoOperation
  BY <1>1, <1>3 DEF NoOperation
<1> QED
  BY <1>1, <1>2, <1>3, <1>4, SamePage

LEMMA PressKeeps ==
  ASSUME PagesInv, paging, NEW o \in operationsOf(page), press(o), scope' = scope, mayRead' => mayRead
  PROVE  Kept
<1>1. PICK st : st = [stage |-> "sent", of |-> o, on |-> page,
                      base |-> IF o.shape \in {"edit", "row"} THEN filled ELSE NotFilled, made |-> 0]
  OBVIOUS
<1>2. /\ operation' = st /\ UNCHANGED <<page, version, cache, fetch, filled, mine>>
      /\ operation = NoOperation
      /\ "eager" \notin scope => \A key \in keysOf(page) : cache[key] # Absent
  BY <1>1 DEF press
<1>3. st.stage = "sent" /\ st.of = o /\ st.on = page /\ st.made = 0 /\ (st.base = filled \/ st.base = NotFilled)
  BY <1>1
<1>4. version \in Nat /\ MaxChanges \in Nat /\ version <= MaxChanges /\ filled \in NotFilled..version
  BY CacheTyped DEF PagesInv, PagesTypeOK
<1>5. o \in PageOperations /\ page \in DOMAIN pages
  BY OperationsAreTame
<1>6. st.base \in NotFilled..MaxChanges /\ st.made \in 0..MaxChanges /\ st.base <= version /\ st.made <= version
  BY <1>3, <1>4 DEF NotFilled
<1>7. st \in UnderWay
  BY <1>1, <1>3, <1>5, <1>6 DEF UnderWay
<1>8. PagesTypeOK'
  BY <1>2, <1>3, <1>6, <1>7, TypesPut DEF PagesInv, PagesTypeOK
<1>9. operation.stage = "none"
  BY <1>2 DEF NoOperation
<1>10. Without({"eager", "roles"}) => "eager" \notin scope
  BY DEF Without
<1> QED
  BY <1>2, <1>3, <1>8, <1>9, <1>10, SamePage

LEMMA ServeKeeps ==
  ASSUME PagesInv, paging, serve, scope' = scope, mayRead' => mayRead
  PROVE  Kept
<1>1. operation.stage = "sent" /\ UNCHANGED <<page, cache, fetch, filled, mine>>
  BY DEF serve
<1>2. version \in Nat /\ MaxChanges \in Nat /\ version <= MaxChanges /\ mine.record \in Nat /\ mine.record <= version
  BY CacheTyped DEF PagesInv
<1>3. operation # NoOperation
  BY <1>1, OperationTyped DEF PagesInv
<1>4. Keys' = Keys
  BY KindStays
<1>5. CASE version < MaxChanges /\ version' = version + 1 /\ operation' = [operation EXCEPT !.stage = "done", !.made = version']
  <2>1. PICK st : st = [stage |-> "done", of |-> operation.of, on |-> operation.on, base |-> operation.base, made |-> version']
    OBVIOUS
  <2>2. operation' = st
    <3>1. PICK of, on, base, made, n : /\ of = operation.of /\ on = operation.on /\ base = operation.base
                                       /\ made = operation.made /\ n = version'
      OBVIOUS
    <3>2. operation = [stage |-> "sent", of |-> of, on |-> on, base |-> base, made |-> made]
      BY <1>1, <1>3, <3>1, OperationTyped DEF PagesInv
    <3>3. [[operation EXCEPT !.stage = "done"] EXCEPT !.made = n] = [stage |-> "done", of |-> of, on |-> on, base |-> base, made |-> n]
      <4>1. [operation EXCEPT !.stage = "done"] = [stage |-> "done", of |-> of, on |-> on, base |-> base, made |-> made]
        BY <3>2
      <4>2. [[stage |-> "done", of |-> of, on |-> on, base |-> base, made |-> made] EXCEPT !.made = n]
              = [stage |-> "done", of |-> of, on |-> on, base |-> base, made |-> n]
        OBVIOUS
      <4> QED
        BY <4>1, <4>2
    <3>4. operation' = [operation EXCEPT !.stage = "done", !.made = n]
      BY <1>5, <3>1
    <3>5. st = [stage |-> "done", of |-> of, on |-> on, base |-> base, made |-> n]
      BY <2>1, <3>1
    <3> QED
      BY <3>3, <3>4, <3>5
  <2>3. st.stage = "done" /\ st.of = operation.of /\ st.on = operation.on /\ st.base = operation.base /\ st.made = version'
    BY <2>1
  <2>4. st \in UnderWay
    <3>1. operation.base \in NotFilled..MaxChanges /\ version' \in 0..MaxChanges
      BY <1>2, <1>3, <1>5, OperationTyped DEF PagesInv, NotFilled
    <3>2. operation.of \in PageOperations /\ operation.on \in DOMAIN pages
      BY <1>3, OperationTyped DEF PagesInv
    <3> QED
      BY <2>1, <3>1, <3>2 DEF UnderWay
  <2>5. st.of \in operationsOf(st.on) /\ st.base <= version' /\ st.made <= version'
    BY <1>2, <1>3, <1>5, <2>3, OperationTyped DEF PagesInv
  <2>6. PagesTypeOK'
    BY <1>1, <1>2, <1>4, <1>5, <2>2, <2>4, <2>5, TypesPut, TypesGrow DEF PagesInv
  <2>7. st.made >= mine.record
    BY <1>2, <1>5, <2>3
  <2> QED
    BY <1>1, <1>3, <2>2, <2>3, <2>6, <2>7, SamePage
<1>6. CASE version' = version /\ operation' = [operation EXCEPT !.stage = "failed"]
  <2>1. PICK st : st = [stage |-> "failed", of |-> operation.of, on |-> operation.on, base |-> operation.base,
                        made |-> operation.made]
    OBVIOUS
  <2>2. operation' = st
    BY <1>3, <1>6, <2>1, OperationTyped DEF PagesInv
  <2>3. st.stage = "failed" /\ st.of = operation.of /\ st.on = operation.on /\ st.base = operation.base /\ st.made = operation.made
    BY <2>1
  <2>4. st \in UnderWay
    BY <1>3, <2>1, OperationTyped DEF PagesInv, UnderWay
  <2>5. st.of \in operationsOf(st.on) /\ st.base <= version' /\ st.made <= version'
    BY <1>3, <1>6, <2>3, OperationTyped DEF PagesInv
  <2>6. PagesTypeOK'
    BY <1>1, <1>2, <1>6, <2>2, <2>4, <2>5, TypesPut DEF PagesInv, PagesTypeOK
  <2> QED
    BY <1>1, <1>3, <2>2, <2>3, <2>6, SamePage
<1> QED
  BY <1>5, <1>6 DEF serve

\* What is on display of a key after an answer has arrived.
LEMMA ArriveDoes ==
  ASSUME PagesTypeOK, paging, NEW key \in Keys, arrive(key), scope' = scope
  PROVE  /\ fetch[key] # NoAnswer
         /\ cache' \in [Keys -> {Absent} \cup [version : 0..version, stale : BOOLEAN]]
         /\ fetch' \in [Keys -> Forbidden..version]
         /\ filled' \in NotFilled..version
         /\ fetch[key] = Unauthorized => storage' = SignedOut
         /\ \A k \in Keys : cache[k] # Absent => cache'[k] # Absent
         /\ \A k \in Keys : \A v \in Nat : Shows(k, v) => Shows(k, v)' \/ storage' = SignedOut
         /\ \/ filled' = filled
            \/ /\ filled' = fetch[key] /\ fetch[key] >= 0 /\ key \in keysOf(page)
               /\ \E o \in operationsOf(page) : o.shape = "edit"
<1>1. /\ fetch[key] # NoAnswer /\ fetch' = [fetch EXCEPT ![key] = NoAnswer]
      /\ fetch[key] = Unauthorized => storage' = SignedOut
  BY DEF arrive, signOutIf
<1>2. /\ version \in Nat /\ fetch[key] \in Int /\ fetch[key] \in Forbidden..version
      /\ fetch \in [Keys -> Forbidden..version] /\ filled \in NotFilled..version
      /\ cache \in [Keys -> {Absent} \cup [version : 0..version, stale : BOOLEAN]]
  BY CacheTyped DEF PagesTypeOK
<1>3. fetch' \in [Keys -> Forbidden..version] /\ fetch'[key] = -1
  BY <1>1, <1>2 DEF NoAnswer, Forbidden
<1>4. \A k \in Keys \ {key} : fetch'[k] = fetch[k]
  BY <1>1, <1>2
<1>5. CASE fetch[key] < 0
  <2>1. UNCHANGED <<cache, filled>>
    BY <1>5 DEF arrive
  <2>2. ASSUME NEW k \in Keys, NEW v \in Nat, Shows(k, v), storage' # SignedOut PROVE Shows(k, v)'
    <3>1. CASE k = key
      BY <1>1, <1>2, <1>3, <1>5, <2>1, <2>2, <3>1 DEF Shows
    <3>2. CASE k # key
      BY <1>4, <2>1, <2>2, <3>2 DEF Shows
    <3> QED
      BY <3>1, <3>2
  <2> QED
    BY <1>1, <1>2, <1>3, <2>1, <2>2
<1>6. CASE fetch[key] >= 0
  <2>1. PICK e : e = [version |-> fetch[key], stale |-> FALSE]
    OBVIOUS
  <2>2. e \in [version : 0..version, stale : BOOLEAN] /\ e.version = fetch[key] /\ e # Absent
    <3>1. e \in [version : 0..version, stale : BOOLEAN] /\ e.version = fetch[key] /\ e.stale = FALSE
      BY <1>2, <1>6, <2>1
    <3>2. e.version # Absent.version
      BY <1>6, <3>1 DEF Absent
    <3> QED
      BY <3>1, <3>2
  <2>3. cache' = [cache EXCEPT ![key] = e]
    BY <1>2, <1>6, <2>1 DEF arrive
  <2>4. cache' \in [Keys -> {Absent} \cup [version : 0..version, stale : BOOLEAN]] /\ cache'[key] = e
        /\ \A k \in Keys \ {key} : cache'[k] = cache[k]
    BY <1>2, <2>2, <2>3
  <2>5. filled' = IF filled = NotFilled /\ key \in keysOf(page) /\ \E o \in operationsOf(page) : o.shape = "edit"
                    THEN fetch[key] ELSE filled
    BY <1>2, <1>6 DEF arrive
  <2>6. filled' \in NotFilled..version
    BY <1>2, <1>6, <2>5 DEF NotFilled
  <2>7. ASSUME NEW k \in Keys, NEW v \in Nat, Shows(k, v) PROVE Shows(k, v)'
    <3>1. CASE k = key
      BY <1>2, <1>3, <1>6, <2>2, <2>4, <2>7, <3>1 DEF Shows, Unauthorized
    <3>2. CASE k # key
      BY <1>4, <2>4, <2>7, <3>2 DEF Shows
    <3> QED
      BY <3>1, <3>2
  <2> QED
    BY <1>1, <1>3, <1>6, <2>2, <2>4, <2>5, <2>6, <2>7
<1> QED
  BY <1>2, <1>5, <1>6

LEMMA EditsAreEdited ==
  ASSUME paging, NEW p, NEW o \in operationsOf(p), o.shape \in {"edit", "row"}, kind \notin {"user", "operation"},
         Without({"hasty", "eager", "roles", "logout", "product"})
  PROVE  Edited /\ idKey \in Keys /\ keysOf(p) = {idKey} /\ \A q \in operationsOf(p) : q.shape = "edit"
<1>1. kind # "product"
  BY ThisKind DEF Without
<1>2. Edited => idKey \in Keys
  BY ThisKind, KeysOfKinds DEF Edited, idKey
<1> QED
  BY <1>1, <1>2, EditorsAreOfTheirKind

LEMMA ArriveKeeps ==
  ASSUME PagesInv, paging, NEW key \in Keys, arrive(key), scope' = scope, mayRead' => mayRead
  PROVE  Kept
<1>1. PICK st : st = operation
  OBVIOUS
<1>2. PICK p : p = page
  OBVIOUS
<1>3. UNCHANGED <<page, version, operation, mine>>
  BY DEF arrive
<1>4. /\ fetch[key] # NoAnswer
      /\ cache' \in [Keys -> {Absent} \cup [version : 0..version, stale : BOOLEAN]]
      /\ fetch' \in [Keys -> Forbidden..version]
      /\ filled' \in NotFilled..version
      /\ \A k \in Keys : cache[k] # Absent => cache'[k] # Absent
      /\ \A k \in Keys : \A v \in Nat : Shows(k, v) => Shows(k, v)' \/ storage' = SignedOut
      /\ \/ filled' = filled
         \/ /\ filled' = fetch[key] /\ fetch[key] >= 0 /\ key \in keysOf(page)
            /\ \E o \in operationsOf(page) : o.shape = "edit"
  BY ArriveDoes DEF PagesInv
<1>5. PagesTypeOK'
  BY <1>1, <1>3, <1>4, TypesPut, OperationTyped DEF PagesInv, PagesTypeOK
<1>6. kind' = kind /\ Keys' = Keys /\ Edited' = Edited /\ idKey' = idKey
  BY KindStays
<1>7. keysOf(page)' = keysOf(page) /\ operationsOf(page)' = operationsOf(page) /\ keysOf(page) \subseteq Keys
  BY <1>2, <1>3, PageBecomes, KeysOfPages
<1>8. keysOf(operation.on)' = keysOf(operation.on) /\ keysOf(operation.on) \subseteq Keys
  BY <1>1, <1>3, OperationBecomes, KeysOfPages
<1>9. mayRead' => storage' # SignedOut
  BY SignedOutTyped DEF mayRead
<1>10. mine.record \in Nat /\ mine.here \in Nat
  BY CacheTyped DEF PagesInv
<1>11. HereInv'
  <2> SUFFICES ASSUME Without({"eager", "roles"})
               PROVE  /\ operation.stage \in {"sent", "done"} => \A k \in keysOf(operation.on) : cache'[k] # Absent
                      /\ mine.here > 0 /\ mayRead' /\ operation.stage # "awaiting" =>
                           \A k \in keysOf(page) : Shows(k, mine.here)'
    BY <1>3, <1>7, <1>8 DEF HereInv, Without, Shows
  <2>1. operation.stage \in {"sent", "done"} => \A k \in keysOf(operation.on) : cache[k] # Absent
    BY DEF PagesInv, HereInv
  <2>2. mine.here > 0 /\ mayRead' /\ operation.stage # "awaiting" => \A k \in keysOf(page) : Shows(k, mine.here)
    BY DEF PagesInv, HereInv
  <2> QED
    BY <1>3, <1>4, <1>7, <1>8, <1>9, <1>10, <2>1, <2>2 DEF Shows
<1>12. RecordInv'
  <2> SUFFICES ASSUME Without({"hasty", "eager", "roles", "logout", "product"})
               PROVE  /\ operation # NoOperation => page = operation.on
                      /\ mine.record > 0 => page # Closed /\ kind \notin {"user", "operation"}
                      /\ filled' # NotFilled => \E o \in operationsOf(page) : o.shape \in {"edit", "row"}
                      /\ operation.stage = "done" => operation.made >= mine.record
                      /\ mine.record > 0 /\ mayRead' =>
                           /\ Edited => Shows(idKey, mine.record)'
                           /\ filled' = NotFilled \/ filled' >= mine.record
                           /\ operation.stage = "sent" => operation.base = NotFilled \/ operation.base >= mine.record
    BY <1>3, <1>6, <1>7 DEF RecordInv, Without, Shows
  <2>0. /\ operation # NoOperation => page = operation.on
        /\ mine.record > 0 => page # Closed /\ kind \notin {"user", "operation"}
        /\ filled # NotFilled => \E o \in operationsOf(page) : o.shape \in {"edit", "row"}
        /\ operation.stage = "done" => operation.made >= mine.record
        /\ mine.record > 0 /\ mayRead =>
             /\ Edited => Shows(idKey, mine.record)
             /\ filled = NotFilled \/ filled >= mine.record
             /\ operation.stage = "sent" => operation.base = NotFilled \/ operation.base >= mine.record
    BY DEF PagesInv, RecordInv
  <2>1. filled' # NotFilled => \E o \in operationsOf(page) : o.shape \in {"edit", "row"}
    BY <1>4, <2>0
  <2>2. ASSUME mine.record > 0, mayRead', Edited PROVE Shows(idKey, mine.record)'
    <3>1. idKey \in Keys
      BY <2>2, ThisKind, KeysOfKinds DEF Edited, idKey
    <3> QED
      BY <1>3, <1>4, <1>6, <1>9, <1>10, <2>0, <2>2, <3>1 DEF Shows
  <2>3. ASSUME mine.record > 0, mayRead' PROVE filled' = NotFilled \/ filled' >= mine.record
    <3>1. CASE filled' = filled
      BY <2>0, <2>3, <3>1
    <3>2. CASE filled' # filled
      <4>1. filled' = fetch[key] /\ fetch[key] >= 0 /\ key \in keysOf(page)
        BY <1>4, <3>2
      <4>2. PICK o \in operationsOf(page) : o.shape = "edit"
        BY <1>4, <3>2
      <4>3. Edited /\ keysOf(page) = {idKey}
        BY <2>0, <2>3, <4>2, EditsAreEdited
      <4>4. Shows(key, mine.record)
        BY <2>0, <2>3, <4>1, <4>3
      <4> QED
        BY <4>1, <4>4 DEF Shows
    <3> QED
      BY <3>1, <3>2
  <2> QED
    BY <2>0, <2>1, <2>2, <2>3
<1> QED
  BY <1>3, <1>5, <1>11, <1>12 DEF Kept, PagesInv, OpenInv

LEMMA FillFromRowKeeps ==
  ASSUME PagesInv, paging, NEW key \in Keys, fillFromRow(key), scope' = scope, mayRead' => mayRead
  PROVE  Kept
<1>1. PICK st : st = NoOperation
  OBVIOUS
<1>2. PICK p : p = page
  OBVIOUS
<1>3. /\ key \in keysOf(page) /\ cache[key] # Absent /\ operation = NoOperation /\ filled' = cache[key].version
      /\ UNCHANGED <<page, version, cache, fetch, operation, mine>>
  BY DEF fillFromRow
<1>4. PICK o \in operationsOf(page) : o.shape = "row"
  BY DEF fillFromRow
<1>5. kind' = kind /\ Keys' = Keys /\ Edited' = Edited /\ idKey' = idKey
  BY KindStays
<1>6. keysOf(page)' = keysOf(page) /\ operationsOf(page)' = operationsOf(page) /\ keysOf(page) \subseteq Keys
  BY <1>2, <1>3, PageBecomes, KeysOfPages
<1>7. keysOf(operation.on)' = keysOf(operation.on)
  BY <1>1, <1>3, OperationBecomes
<1>8. NoOperation.stage = "none"
  BY DEF NoOperation
<1>9. version \in Nat /\ cache[key].version \in Nat /\ cache[key].version <= version
  BY <1>3, CacheTyped DEF PagesInv
<1>10. filled' \in NotFilled..version
  BY <1>3, <1>9 DEF NotFilled
<1>11. PagesTypeOK'
  BY <1>1, <1>3, <1>10, TypesPut DEF PagesInv, PagesTypeOK
<1>12. HereInv'
  BY <1>3, <1>6, <1>7 DEF PagesInv, HereInv, Shows, Without
<1>13. RecordInv'
  <2> SUFFICES ASSUME Without({"hasty", "eager", "roles", "logout", "product"})
               PROVE  /\ mine.record > 0 => page # Closed /\ kind \notin {"user", "operation"}
                      /\ filled' # NotFilled => \E q \in operationsOf(page) : q.shape \in {"edit", "row"}
                      /\ ~(mine.record > 0)
    BY <1>3, <1>5, <1>6, <1>8 DEF RecordInv, Without
  <2>1. mine.record > 0 => page # Closed /\ kind \notin {"user", "operation"}
    BY DEF PagesInv, RecordInv
  <2>2. ASSUME mine.record > 0 PROVE FALSE
    <3>1. \A q \in operationsOf(page) : q.shape = "edit"
      BY <1>4, <2>1, <2>2, EditsAreEdited
    <3> QED
      BY <1>4, <3>1
  <2> QED
    BY <1>4, <2>1, <2>2
<1> QED
  BY <1>3, <1>11, <1>12, <1>13 DEF Kept, PagesInv, OpenInv

\* A page that is mounted shows what is cached, and fetches it or waits for a fetch.
LEMMA MountDoes ==
  ASSUME PagesTypeOK, paging, NEW p, mount(p, cache), scope' = scope
  PROVE  /\ page' = p /\ keysOf(page)' = keysOf(p) /\ operationsOf(page)' = operationsOf(p)
         /\ fetch' \in [Keys -> Forbidden..version]
         /\ \A key \in Keys : fetch'[key] = fetch[key] \/ fetch'[key] = asked
         /\ filled' \in NotFilled..version
         /\ filled' # NotFilled => /\ \E o \in operationsOf(p) : o.shape = "edit"
                                 /\ \E key \in keysOf(p) : cache[key] # Absent /\ filled' = cache[key].version
<1>1. /\ page' = p
      /\ fetch' = [key \in Keys |-> IF key \in keysOf(p) /\ fetch[key] = NoAnswer /\ (cache[key] = Absent \/ cache[key].stale)
                                    THEN asked ELSE fetch[key]]
  BY DEF mount
<1>2. keysOf(page)' = keysOf(p) /\ operationsOf(page)' = operationsOf(p)
  BY <1>1, PageBecomes
<1>3. asked \in Forbidden..version /\ fetch \in [Keys -> Forbidden..version]
  BY AskedIs DEF PagesTypeOK
<1>4. fetch' \in [Keys -> Forbidden..version] /\ \A key \in Keys : fetch'[key] = fetch[key] \/ fetch'[key] = asked
  BY <1>1, <1>3
<1>5. version \in Nat
  BY CacheTyped
<1> DEFINE shownOnes == {key \in keysOf(p) : cache[key] # Absent}
<1>6. CASE (\E o \in operationsOf(p) : o.shape = "edit") /\ shownOnes # {}
  <2>1. PICK key : key = CHOOSE k \in shownOnes : TRUE
    OBVIOUS
  <2>2. key \in shownOnes
    BY <1>6, <2>1
  <2>3. filled' = cache[key].version
    BY <1>6, <2>1 DEF mount
  <2>4. key \in Keys
    BY <2>2, KeysOfPages
  <2>5. cache[key] # Absent /\ cache[key].version \in Nat /\ cache[key].version <= version
    BY <2>2, <2>4, CacheTyped
  <2>6. filled' \in NotFilled..version
    BY <1>5, <2>3, <2>5 DEF NotFilled
  <2> QED
    BY <1>1, <1>2, <1>4, <1>6, <2>2, <2>3, <2>5, <2>6
<1>7. CASE ~((\E o \in operationsOf(p) : o.shape = "edit") /\ shownOnes # {})
  <2>1. filled' = NotFilled
    BY <1>7 DEF mount
  <2>2. filled' \in NotFilled..version
    BY <1>5, <2>1 DEF NotFilled
  <2> QED
    BY <1>1, <1>2, <1>4, <2>1, <2>2
<1> QED
  BY <1>6, <1>7

LEMMA HereReset ==
  ASSUME PagesTypeOK, mine' = [mine EXCEPT !.here = 0]
  PROVE  mine' \in [record : 0..version, here : 0..version] /\ mine'.record = mine.record /\ mine'.here = 0
<1>1. mine \in [record : 0..version, here : 0..version] /\ version \in Nat
  BY CacheTyped DEF PagesTypeOK
<1> QED
  BY <1>1

LEMMA RecordStaysShown ==
  ASSUME PagesInv, paging, scope' = scope, mayRead, idKey \in Keys, Shows(idKey, mine.record), mine'.record = mine.record,
         cache[idKey] # Absent => cache'[idKey] # Absent /\ cache'[idKey].version = cache[idKey].version,
         fetch'[idKey] = fetch[idKey] \/ fetch'[idKey] = asked
  PROVE  Shows(idKey, mine.record)'
<1>1. PICK key \in Keys : key = idKey
  OBVIOUS
<1>2. PICK v \in Nat : v = mine.record
  BY CacheTyped DEF PagesInv
<1>3. v <= version /\ asked \in {version, Unauthorized}
  BY <1>2, AskedIs, CacheTyped DEF PagesInv
<1>4. Shows(key, v)
  BY <1>1, <1>2
<1>5. Shows(key, v)'
  BY <1>1, <1>3, <1>4, ShowsStays DEF PagesInv
<1>6. idKey' = key
  BY <1>1, KindStays
<1> QED
  BY <1>2, <1>5, <1>6 DEF Shows

LEMMA OpenPageKeeps ==
  ASSUME PagesInv, paging, NEW p \in Concerned, openPage(p), scope' = scope, mayRead' => mayRead
  PROVE  Kept
<1>1. PICK st : st = operation
  OBVIOUS
<1>2. /\ appShell /\ UNCHANGED <<version, cache, operation>> /\ mount(p, cache) /\ mine' = [mine EXCEPT !.here = 0]
      /\ "hasty" \in scope \/ (operation = NoOperation /\ settled(Keys))
  BY DEF openPage
<1>3. /\ page' = p /\ keysOf(page)' = keysOf(p) /\ operationsOf(page)' = operationsOf(p)
      /\ fetch' \in [Keys -> Forbidden..version]
      /\ \A key \in Keys : fetch'[key] = fetch[key] \/ fetch'[key] = asked
      /\ filled' \in NotFilled..version
      /\ filled' # NotFilled => /\ \E o \in operationsOf(p) : o.shape = "edit"
                              /\ \E key \in keysOf(p) : cache[key] # Absent /\ filled' = cache[key].version
  BY <1>2, MountDoes DEF PagesInv
<1>4. mine' \in [record : 0..version, here : 0..version] /\ mine'.record = mine.record /\ mine'.here = 0
  BY <1>2, HereReset DEF PagesInv
<1>5. p \in DOMAIN pages /\ p # Closed
  BY ClosedIsNoPage DEF Concerned
<1>6. PagesTypeOK'
  BY <1>1, <1>2, <1>3, <1>4, <1>5, TypesPut, OperationTyped DEF PagesInv, PagesTypeOK
<1>7. kind' = kind /\ Keys' = Keys /\ Edited' = Edited /\ idKey' = idKey
  BY KindStays
<1>8. keysOf(operation.on)' = keysOf(operation.on)
  BY <1>1, <1>2, OperationBecomes
<1>9. HereInv'
  BY <1>2, <1>4, <1>8 DEF PagesInv, HereInv, Without
<1>10. RecordInv'
  <2> SUFFICES ASSUME Without({"hasty", "eager", "roles", "logout", "product"})
               PROVE  /\ operation = NoOperation
                      /\ mine.record > 0 => kind \notin {"user", "operation"}
                      /\ mine.record > 0 /\ mayRead' =>
                           /\ Edited => Shows(idKey, mine.record)'
                           /\ filled' = NotFilled \/ filled' >= mine.record
    BY <1>2, <1>3, <1>4, <1>5, <1>7 DEF RecordInv, Without, NoOperation, Shows
  <2>1. operation = NoOperation /\ settled(Keys)
    BY <1>2 DEF Without
  <2>2. mine.record > 0 => kind \notin {"user", "operation"}
    BY DEF PagesInv, RecordInv
  <2>3. mine.record > 0 /\ mayRead' /\ Edited => Shows(idKey, mine.record)
    BY DEF PagesInv, RecordInv
  <2>4. ASSUME mine.record > 0, mayRead', Edited PROVE Shows(idKey, mine.record)'
    <3>1. idKey \in Keys
      BY <2>4, ThisKind, KeysOfKinds DEF Edited, idKey
    <3> QED
      BY <1>2, <1>3, <1>4, <2>3, <2>4, <3>1, RecordStaysShown
  <2>5. ASSUME mine.record > 0, mayRead', filled' # NotFilled PROVE filled' >= mine.record
    <3>1. PICK key \in keysOf(p) : cache[key] # Absent /\ filled' = cache[key].version
      BY <1>3, <2>5
    <3>2. PICK o \in operationsOf(p) : o.shape = "edit"
      BY <1>3, <2>5
    <3>3. Edited /\ idKey \in Keys /\ keysOf(p) = {idKey}
      BY <2>2, <2>5, <3>2, EditsAreEdited
    <3>4. key = idKey /\ fetch[idKey] = NoAnswer /\ Shows(idKey, mine.record)
      BY <2>1, <2>3, <2>5, <3>1, <3>3 DEF settled
    <3>5. mine.record \in Nat
      BY CacheTyped DEF PagesInv
    <3> QED
      BY <3>1, <3>4, <3>5 DEF Shows, NoAnswer, Unauthorized
  <2> QED
    BY <2>1, <2>2, <2>4, <2>5
<1> QED
  BY <1>2, <1>4, <1>6, <1>9, <1>10 DEF Kept

LEMMA PushKeeps ==
  ASSUME PagesInv, paging, push, scope' = scope, mayRead' => mayRead
  PROVE  Kept
<1>1. PICK p : p = IF ~appShell THEN Closed ELSE IF operation.of.next \in Concerned THEN operation.of.next ELSE Elsewhere
  OBVIOUS
<1>2. /\ operation.stage = "awaiting" /\ UNCHANGED <<version, cache>> /\ mount(p, cache)
      /\ operation' = NoOperation /\ mine' = [mine EXCEPT !.here = 0]
  BY <1>1 DEF push
<1>3. /\ page' = p
      /\ fetch' \in [Keys -> Forbidden..version]
      /\ \A key \in Keys : fetch'[key] = fetch[key] \/ fetch'[key] = asked
      /\ filled' \in NotFilled..version
      /\ filled' # NotFilled => \E o \in operationsOf(p) : o.shape = "edit"
  BY <1>2, MountDoes DEF PagesInv
<1>4. mine' \in [record : 0..version, here : 0..version] /\ mine'.record = mine.record /\ mine'.here = 0
  BY <1>2, HereReset DEF PagesInv
<1>5. operation # NoOperation /\ operation.of \in operationsOf(operation.on)
  BY <1>2, OperationTyped DEF PagesInv, NoOperation
<1>6. operation.of.next \in Landings
  BY <1>5, OperationsAreTame
<1>7. p \in DOMAIN pages => p \in Landings
  BY <1>1, <1>6, ClosedIsNoPage, PageNames DEF Elsewhere
<1>8. p \in DOMAIN pages \cup {Closed, Elsewhere}
  BY <1>1 DEF Concerned
<1>9. \A o \in operationsOf(p) : o.shape \notin {"edit", "row"}
  BY <1>7, LandingsAreNoEditors, OperationsAreTame DEF Plainly, operationsOf
<1>10. filled' = NotFilled
  BY <1>3, <1>9
<1>11. PagesTypeOK'
  BY <1>2, <1>3, <1>4, <1>8, TypesPut DEF PagesInv, PagesTypeOK
<1>12. kind' = kind /\ Keys' = Keys /\ Edited' = Edited /\ idKey' = idKey
  BY KindStays
<1>13. HereInv'
  BY <1>2, <1>4 DEF HereInv, NoOperation
<1>14. RecordInv'
  <2> SUFFICES ASSUME Without({"hasty", "eager", "roles", "logout", "product"})
               PROVE  /\ mine.record > 0 => p # Closed /\ kind \notin {"user", "operation"}
                      /\ mine.record > 0 /\ mayRead' /\ Edited => Shows(idKey, mine.record)'
    BY <1>2, <1>3, <1>4, <1>10, <1>12 DEF RecordInv, Without, NoOperation, Shows
  <2>1. mine.record > 0 => page # Closed /\ kind \notin {"user", "operation"}
    BY DEF PagesInv, RecordInv
  <2>2. mine.record > 0 => p # Closed
    BY <1>1, <2>1, ClosedIsNoPage DEF PagesInv, OpenInv, Concerned, Closed, Elsewhere
  <2>3. mine.record > 0 /\ mayRead' /\ Edited => Shows(idKey, mine.record)
    BY DEF PagesInv, RecordInv
  <2>4. ASSUME mine.record > 0, mayRead', Edited PROVE Shows(idKey, mine.record)'
    <3>1. idKey \in Keys
      BY <2>4, ThisKind, KeysOfKinds DEF Edited, idKey
    <3> QED
      BY <1>2, <1>3, <1>4, <2>3, <2>4, <3>1, RecordStaysShown
  <2> QED
    BY <2>1, <2>2, <2>4
<1>15. page' # Closed => appShell
  BY <1>1, <1>3
<1> QED
  BY <1>4, <1>11, <1>13, <1>14, <1>15 DEF Kept

LEMMA SucceededKeeps ==
  ASSUME PagesInv, paging, succeeded, scope' = scope, mayRead' => mayRead
  PROVE  Kept
<1>1. PICK o, on, made : o = operation.of /\ on = operation.on /\ made = operation.made
  OBVIOUS
<1>2. PICK st : st = IF o.next = Stay THEN NoOperation ELSE [operation EXCEPT !.stage = "awaiting"]
  OBVIOUS
<1>3. PICK p : p = page
  OBVIOUS
<1>4. PICK record, here : /\ record = IF o.shape # "remove" /\ ownPage(on) THEN made ELSE mine.record
                          /\ here = IF page = on THEN made ELSE mine.here
  OBVIOUS
<1>5. /\ operation.stage = "done" /\ invalidate(o.invalidates)
      /\ mine' = [record |-> record, here |-> here]
      /\ filled' = IF page # on THEN filled
                   ELSE IF o.shape = "edit" THEN made ELSE IF o.shape \in {"row", "form"} THEN NotFilled ELSE filled
      /\ operation' = st /\ page' = p /\ page' = page /\ version' = version /\ UNCHANGED tabVars
  BY <1>1, <1>2, <1>3, <1>4 DEF succeeded
<1>6. mine'.record = record /\ mine'.here = here
  BY <1>5
<1>7. /\ version \in Nat /\ mine.record \in Nat /\ mine.record <= version /\ mine.here \in Nat /\ mine.here <= version
      /\ filled \in NotFilled..version
  BY CacheTyped DEF PagesInv, PagesTypeOK
<1>8. /\ operation # NoOperation /\ o \in operationsOf(on) /\ made \in Nat /\ made <= version
      /\ operation \in UnderWay /\ operation.base <= version
      /\ operation = [stage |-> "done", of |-> o, on |-> on, base |-> operation.base, made |-> made]
  BY <1>1, <1>5, OperationTyped DEF PagesInv
<1>9. /\ on \in DOMAIN pages /\ on # Closed
      /\ o.shape # "remove" \/ o.next = Stay => keysOf(on) \subseteq o.invalidates
  BY <1>8, OperationsAreTame
<1>10. /\ cache' \in [Keys -> {Absent} \cup [version : 0..version, stale : BOOLEAN]]
       /\ fetch' \in [Keys -> Forbidden..version]
       /\ \A key \in Keys : /\ cache'[key] = Absent <=> cache[key] = Absent
                            /\ cache[key] # Absent => cache'[key].version = cache[key].version
                            /\ fetch'[key] = fetch[key] \/ fetch'[key] = asked
                            /\ key \in matching(o.invalidates) /\ key \in keysOf(page) /\ cache[key] # Absent
                                 => fetch'[key] = asked
  BY <1>5, InvalidateDoes DEF PagesInv
<1>11. record \in Nat /\ record <= version /\ here \in Nat /\ here <= version
  BY <1>4, <1>7, <1>8
<1>12. \/ st = NoOperation /\ o.next = Stay
       \/ st = [stage |-> "awaiting", of |-> o, on |-> on, base |-> operation.base, made |-> made]
  BY <1>2, <1>8
<1>13. st.stage \in {"none", "awaiting"} /\ (st # NoOperation => st.on = on)
       /\ (st.stage = "none" => o.next = Stay)
  BY <1>12 DEF NoOperation
<1>14. filled' \in NotFilled..version
  BY <1>5, <1>7, <1>8 DEF NotFilled
<1>15. PagesTypeOK'
  <2>1. st = NoOperation \/ (st \in UnderWay /\ st.of \in operationsOf(st.on) /\ st.base <= version /\ st.made <= version)
    BY <1>8, <1>12 DEF UnderWay
  <2>2. mine' \in [record : 0..version, here : 0..version]
    BY <1>5, <1>7, <1>11
  <2> QED
    BY <1>5, <1>10, <1>14, <2>1, <2>2, TypesPut DEF PagesInv, PagesTypeOK
<1>16. kind' = kind /\ Keys' = Keys /\ Edited' = Edited /\ idKey' = idKey
  BY KindStays
<1>17. keysOf(page)' = keysOf(page) /\ operationsOf(page)' = operationsOf(page) /\ keysOf(page) \subseteq Keys
  BY <1>3, <1>5, PageBecomes, KeysOfPages
<1>18. mayRead => asked = version \/ asked = Unauthorized
  BY AskedIs DEF PagesInv
\* What is fetched again shows what was done.
<1>19. ASSUME NEW key \in keysOf(page), key \in o.invalidates, cache[key] # Absent, mayRead, NEW v \in Nat, v <= version
       PROVE  Shows(key, v)'
  <2>1. key \in Keys /\ fetch'[key] = asked
    BY <1>10, <1>17, <1>19, KeysMatch
  <2> QED
    BY <1>7, <1>18, <1>19, <2>1 DEF Shows, Unauthorized
<1>20. HereInv'
  <2> SUFFICES ASSUME Without({"eager", "roles"}), here > 0, mayRead', st.stage # "awaiting", NEW key \in keysOf(page)
               PROVE  Shows(key, here)'
    BY <1>5, <1>6, <1>13, <1>17 DEF HereInv, Without, Shows
  <2>1. o.next = Stay /\ \A k \in keysOf(on) : cache[k] # Absent
    BY <1>1, <1>5, <1>13 DEF PagesInv, HereInv
  <2>2. CASE page = on
    BY <1>9, <1>11, <1>19, <2>1, <2>2
  <2>3. CASE page # on
    <3>1. here = mine.here
      BY <1>4, <2>3
    <3>2. Shows(key, here) /\ key \in Keys
      BY <1>5, <1>17, <3>1 DEF PagesInv, HereInv
    <3> QED
      BY <1>10, <1>11, <1>18, <3>2, ShowsStays DEF PagesInv
  <2> QED
    BY <2>2, <2>3
<1>21. RecordInv'
  <2> SUFFICES ASSUME Without({"hasty", "eager", "roles", "logout", "product"})
               PROVE  /\ st # NoOperation => page = st.on
                      /\ record > 0 => page # Closed /\ kind \notin {"user", "operation"}
                      /\ filled' # NotFilled => \E q \in operationsOf(page) : q.shape \in {"edit", "row"}
                      /\ record > 0 /\ mayRead' /\ Edited => Shows(idKey, mine.record)'
                      /\ record > 0 /\ mayRead' => filled' = NotFilled \/ filled' >= record
    BY <1>5, <1>6, <1>13, <1>16, <1>17 DEF RecordInv, Without, Shows
  <2>0. /\ page = on
        /\ mine.record > 0 => page # Closed /\ kind \notin {"user", "operation"}
        /\ filled # NotFilled => \E q \in operationsOf(page) : q.shape \in {"edit", "row"}
        /\ made >= mine.record
        /\ mine.record > 0 /\ mayRead =>
             /\ Edited => Shows(idKey, mine.record)
             /\ filled = NotFilled \/ filled >= mine.record
    BY <1>1, <1>5, <1>8 DEF PagesInv, RecordInv
  <2>1. st # NoOperation => page = st.on
    BY <1>13, <2>0
  <2>2. ASSUME record > 0 PROVE page # Closed /\ kind \notin {"user", "operation"}
    <3>1. CASE ownPage(on)
      BY <1>9, <2>0, <3>1, OwnPagesShowIt
    <3>2. CASE ~ownPage(on)
      BY <1>4, <2>0, <2>2, <3>2
    <3> QED
      BY <3>1, <3>2
  <2>3. filled' # NotFilled => \E q \in operationsOf(page) : q.shape \in {"edit", "row"}
    BY <1>5, <1>8, <2>0
  <2>4. ASSUME record > 0, mayRead', Edited PROVE Shows(idKey, mine.record)'
    <3>1. idKey \in Keys
      BY <2>4, ThisKind, KeysOfKinds DEF Edited, idKey
    <3>2. PICK key : key = idKey
      OBVIOUS
    <3>3. CASE o.shape # "remove" /\ ownPage(on)
      <4>1. key \in keysOf(page) /\ key \in o.invalidates
        BY <1>9, <2>0, <2>4, <3>2, <3>3, OwnPagesShowIt
      <4>2. Without({"eager", "roles"})
        BY DEF Without
      <4>3. cache[key] # Absent
        BY <1>1, <1>5, <2>0, <4>1, <4>2 DEF PagesInv, HereInv
      <4>4. Shows(key, record)'
        BY <1>11, <1>19, <2>4, <4>1, <4>3
      <4> QED
        BY <1>6, <1>16, <3>2, <4>4 DEF Shows
    <3>4. CASE ~(o.shape # "remove" /\ ownPage(on))
      <4>1. record = mine.record
        BY <1>4, <3>4
      <4> QED
        BY <1>6, <1>10, <2>0, <2>4, <3>1, <4>1, RecordStaysShown
    <3> QED
      BY <3>3, <3>4
  <2>5. ASSUME record > 0, mayRead', filled' # NotFilled PROVE filled' >= record
    <3>1. CASE o.shape = "edit"
      BY <1>4, <1>5, <1>7, <1>8, <2>0, <3>1
    <3>2. CASE o.shape # "edit"
      <4>1. filled' = filled
        BY <1>5, <2>5, <3>2
      <4>2. PICK q \in operationsOf(page) : q.shape \in {"edit", "row"}
        BY <2>0, <2>5, <4>1
      <4>3. o.shape = "edit"
        BY <1>8, <2>0, <2>2, <2>5, <4>2, EditsAreEdited
      <4> QED
        BY <3>2, <4>3
    <3> QED
      BY <3>1, <3>2
  <2> QED
    BY <2>1, <2>2, <2>3, <2>4, <2>5
<1> QED
  BY <1>5, <1>6, <1>7, <1>9, <1>15, <1>20, <1>21, <1>4 DEF Kept, PagesInv, OpenInv
-----------------------------------------------------------------------------
(* The pages go on *)

LEMMA PagesNextKeeps ==
  ASSUME PagesInv, paging, PagesNext, UNCHANGED <<accountVars, scope>>
  PROVE  PagesInv'
<1>1. UNCHANGED tabVars \/ (storage' = SignedOut /\ header' = None /\ UNCHANGED <<shown, pending, given, reloads>>)
  BY PagesSignOut
<1>2. (storage' = storage \/ storage' = SignedOut) /\ shown' = shown /\ pending' = pending /\ UNCHANGED <<user, session>>
      /\ scope' = scope
  BY <1>1 DEF tabVars, accountVars
<1>3. kind' = kind /\ paging' = paging
  BY KindStays
<1>4. mayRead' => mayRead
  <2>1. mayRead' => storage' = storage
    BY <1>2, SignedOutTyped DEF mayRead
  <2>2. PICK s, needs : s = storage.token /\ needs = kinds[kind].needs
    OBVIOUS
  <2>3. mayRead' => s # None /\ served(s, needs)'
    BY <1>2, <1>3, <2>1, <2>2 DEF mayRead, served
  <2>4. served(s, needs)' => served(s, needs)
    BY <1>2 DEF served
  <2> QED
    BY <2>2, <2>3, <2>4 DEF mayRead
<1>5. ASSUME \E p \in Concerned : openPage(p) PROVE Kept
  BY <1>2, <1>4, <1>5, OpenPageKeeps
<1>6. ASSUME \E key \in Keys : arrive(key) \/ age(key) \/ fillFromRow(key) PROVE Kept
  BY <1>2, <1>4, <1>6, ArriveKeeps, AgeKeeps, FillFromRowKeeps
<1>7. ASSUME \E o \in operationsOf(page) : press(o) PROVE Kept
  BY <1>2, <1>4, <1>7, PressKeeps
<1>8. ASSUME refresh \/ serve \/ failed \/ succeeded \/ push \/ changedElsewhere PROVE Kept
  BY <1>2, <1>4, <1>8, RefreshKeeps, ServeKeeps, FailedKeeps, SucceededKeeps, PushKeeps, ChangedElsewhereKeeps
<1>9. Kept
  BY <1>5, <1>6, <1>7, <1>8 DEF PagesNext
<1>10. OpenInv'
  <2>1. appShell' = appShell
    BY <1>2 DEF appShell
  <2>2. storage'.token # None => storage.token # None /\ storage'.token = storage.token
    BY <1>2, SignedOutTyped
  <2> QED
    BY <1>2, <1>3, <1>9, <2>1, <2>2 DEF Kept, PagesInv, OpenInv
<1> QED
  BY <1>9, <1>10 DEF Kept, PagesInv
-----------------------------------------------------------------------------
(* The tab *)

\* While no page is open, nothing of the pages depends on who is signed in.
LEMMA NoPageOpen ==
  ASSUME PagesInv, page = Closed, UNCHANGED <<pageVars, scope>>
  PROVE  PagesTypeOK' /\ HereInv' /\ RecordInv'
<1>1. PICK st, p : st = operation /\ p = page
  OBVIOUS
<1>2. UNCHANGED <<page, version, cache, fetch, filled, operation, mine>>
  BY DEF pageVars
<1>3. keysOf(operation.on)' = keysOf(operation.on) /\ operationsOf(operation.on)' = operationsOf(operation.on)
      /\ operationsOf(page)' = operationsOf(page)
  BY <1>1, <1>2, OperationBecomes, PageBecomes
<1>4. kind' = kind /\ Keys' = Keys
  BY KindStays
<1>5. PagesTypeOK'
  BY <1>2, <1>3, <1>4 DEF PagesInv, PagesTypeOK
<1>6. ~(mine.here > 0)
  BY DEF PagesInv, OpenInv
<1>7. HereInv'
  BY <1>2, <1>3, <1>6 DEF PagesInv, HereInv, Without
<1>8. RecordInv'
  BY <1>2, <1>3, <1>4 DEF PagesInv, RecordInv, Without
<1> QED
  BY <1>5, <1>7, <1>8

LEMMA ReloadForgets ==
  ASSUME PagesInv, scope' = scope, page' = Closed, filled' = NotFilled, operation' = NoOperation,
         mine' = [record |-> 0, here |-> 0], cache' = [key \in Keys |-> Absent], fetch' = [key \in Keys |-> NoAnswer],
         version' = version
  PROVE  PagesTypeOK' /\ HereInv' /\ RecordInv'
<1>1. version \in 0..MaxChanges /\ MaxChanges \in Nat /\ version \in Nat
  BY CacheTyped DEF PagesInv
<1>2. /\ cache' \in [Keys -> {Absent} \cup [version : 0..version, stale : BOOLEAN]]
      /\ fetch' \in [Keys -> Forbidden..version] /\ filled' \in NotFilled..version
      /\ mine' \in [record : 0..version, here : 0..version]
  BY <1>1 DEF NoAnswer, Forbidden, NotFilled
<1>3. PagesTypeOK'
  BY <1>1, <1>2, TypesPut
<1>4. HereInv' /\ RecordInv'
  BY DEF HereInv, RecordInv, NoOperation
<1> QED
  BY <1>3, <1>4

\* A page that stays open while the tab keeps its token or loses it.
LEMMA PageStaysOpen ==
  ASSUME PagesInv, paging, UNCHANGED <<pageVars, scope>>, mayRead' => mayRead
  PROVE  PagesTypeOK' /\ HereInv' /\ RecordInv'
<1>1. PICK st : st = operation
  OBVIOUS
<1>2. UNCHANGED <<page, version, cache, fetch, filled, operation, mine>>
  BY DEF pageVars
<1>3. PagesTypeOK'
  BY <1>1, <1>2, TypesPut, OperationTyped DEF PagesInv, PagesTypeOK
<1>4. Kept
  BY <1>1, <1>2, <1>3, SamePage
<1> QED
  BY <1>4 DEF Kept

LEMMA LogoutCloses ==
  ASSUME PagesInv, "logout" \in scope, closed, UNCHANGED <<version, cache, fetch, operation, scope>>, ~mayRead'
  PROVE  PagesTypeOK' /\ HereInv' /\ RecordInv'
<1>1. PICK st : st = operation
  OBVIOUS
<1>2. page' = Closed /\ filled' = NotFilled /\ mine' = [mine EXCEPT !.here = 0]
  BY DEF closed
<1>3. mine' \in [record : 0..version, here : 0..version] /\ mine'.here = 0 /\ version \in Nat
  BY <1>2, HereReset, CacheTyped DEF PagesInv
<1>4. filled' \in NotFilled..version
  BY <1>2, <1>3 DEF NotFilled
<1>5. PagesTypeOK'
  BY <1>1, <1>2, <1>3, <1>4, TypesPut, OperationTyped DEF PagesInv, PagesTypeOK
<1>6. keysOf(operation.on)' = keysOf(operation.on)
  BY <1>1, OperationBecomes
<1>7. HereInv'
  BY <1>3, <1>6 DEF PagesInv, HereInv, Without
<1>8. RecordInv'
  BY DEF RecordInv, Without
<1> QED
  BY <1>5, <1>7, <1>8

\* What the tab keeps of what the pages stand on.
LEMMA TabKeepsSessions ==
  ASSUME PagesInv, TabTypeOK, WebSessionNext, UNCHANGED session
  PROVE  /\ pending'.start # None => ~shown'.ready
         /\ storage'.token # None => session'[storage'.token] # NoSession
<1> USE DEF PagesInv, OpenInv
<1>1. None \notin Sessions /\ None \notin Users /\ "mount" # None
  BY AccountsAssumption DEF None
<1>2. CASE reload
  BY <1>2 DEF reload, Fresh
<1>3. CASE start
  <2>1. pending'.start = storage.token /\ shown'.ready = (storage.token = None) /\ storage' = storage
    BY <1>3, TabTyped DEF start
  <2> QED
    BY <2>1
<1>4. CASE startAnswered
  <2>1. pending'.start = None
    BY <1>4, TabTyped DEF startAnswered
  <2>2. storage'.token = storage.token \/ storage'.token = None
    BY <1>4, TabTyped, SignedOutTyped DEF startAnswered
  <2> QED
    BY <2>1, <2>2
<1>5. CASE \E u \in Users : submitLogin(u)
  <2>1. pending'.start = pending.start /\ shown' = shown /\ storage' = storage
    BY <1>5, TabTyped DEF submitLogin
  <2> QED
    BY <2>1
<1>6. ASSUME NEW s \in Sessions, loginAnswered(s)
      PROVE  /\ pending'.start # None => ~shown'.ready
             /\ storage'.token # None => session'[storage'.token] # NoSession
  <2>1. pending'.start = pending.start
    BY <1>6, TabTyped DEF loginAnswered
  <2>2. shown'.ready = shown.ready
    BY <1>6, TabTyped DEF loginAnswered
  <2>3. storage'.token = s /\ session[s] # NoSession
    BY <1>6 DEF loginAnswered, Signed
  <2> QED
    BY <2>1, <2>2, <2>3
<1>7. CASE loginRefused
  <2>1. pending'.start = pending.start /\ shown' = shown /\ storage'.token = None
    BY <1>7, TabTyped, SignedOutTyped DEF loginRefused
  <2> QED
    BY <2>1
<1>8. CASE logout
  <2>1. pending' = pending /\ shown'.ready = shown.ready /\ storage'.token = None
    BY <1>8, TabTyped, SignedOutTyped DEF logout
  <2> QED
    BY <2>1
<1>9. CASE callApi \/ callAnswered
  <2>1. pending'.start = pending.start /\ shown' = shown
    BY <1>9, TabTyped DEF callApi, callAnswered
  <2>2. storage' = storage \/ storage'.token = None
    BY <1>9, SignedOutTyped DEF callApi, callAnswered
  <2> QED
    BY <2>1, <2>2
<1> QED
  BY <1>2, <1>3, <1>4, <1>5, <1>6, <1>7, <1>8, <1>9 DEF WebSessionNext

\* Whoever sees a page can only call the API, log out or reload.
LEMMA TabUnderPages ==
  ASSUME PagesInv, TabTypeOK, WebSessionNext, afterTab, page # Closed, UNCHANGED <<accountVars, scope>>
  PROVE  \/ reload
         \/ logout /\ UNCHANGED reloads /\ ~appShell'
         \/ (callApi \/ callAnswered) /\ UNCHANGED <<shown, reloads>> /\ (storage' = storage \/ storage' = SignedOut)
<1>1. None \notin Sessions /\ None \notin Users /\ "mount" # None
  BY AccountsAssumption DEF None
<1>2. appShell /\ pending.start = None
  BY DEF PagesInv, OpenInv, appShell
<1>3. pending'.login = pending.login
  BY DEF afterTab
<1>4. ~start /\ ~startAnswered
  BY <1>1, <1>2 DEF start, startAnswered
<1>5. ASSUME NEW u \in Users, submitLogin(u) PROVE FALSE
  <2>1. pending'.login = u /\ pending.login = None
    BY <1>5, TabTyped DEF submitLogin, loginPage
  <2> QED
    BY <1>1, <1>3, <2>1
<1>6. ASSUME NEW s \in Sessions, loginAnswered(s) PROVE FALSE
  <2>1. pending'.login = None /\ pending.login # None
    BY <1>6, TabTyped DEF loginAnswered
  <2> QED
    BY <1>3, <2>1
<1>7. ~loginRefused
  <2>1. loginRefused => pending'.login = None /\ pending.login # None
    BY TabTyped DEF loginRefused
  <2> QED
    BY <1>3, <2>1
<1>8. ASSUME logout PROVE UNCHANGED reloads /\ ~appShell'
  <2>1. shown'.token = None /\ UNCHANGED reloads
    BY <1>8, TabTyped DEF logout
  <2> QED
    BY <2>1 DEF appShell
<1>9. callApi \/ callAnswered => UNCHANGED <<shown, reloads>> /\ (storage' = storage \/ storage' = SignedOut)
  BY DEF callApi, callAnswered
<1> QED
  BY <1>4, <1>5, <1>6, <1>7, <1>8, <1>9 DEF WebSessionNext

LEMMA TabKeepsPages ==
  ASSUME PagesInv, TabTypeOK, WebSessionNext, afterTab, UNCHANGED <<accountVars, scope>>
  PROVE  PagesInv'
<1>1. UNCHANGED <<user, session>>
  BY DEF accountVars
<1>2. paging' = paging /\ kind' = kind
  BY KindStays
<1>3. /\ pending'.start # None => ~shown'.ready
      /\ storage'.token # None => session'[storage'.token] # NoSession
  BY <1>1, TabKeepsSessions
<1>4. CASE reload
  <2>1. reloads \in Nat /\ reloads' # reloads
    BY <1>4, WebSessionAssumption DEF reload, TabTypeOK
  <2>2. page' = Closed /\ filled' = NotFilled /\ operation' = NoOperation /\ mine' = [record |-> 0, here |-> 0]
        /\ cache' = [key \in Keys |-> Absent] /\ fetch' = [key \in Keys |-> NoAnswer] /\ version' = version
    BY <2>1 DEF afterTab
  <2>3. PagesTypeOK' /\ HereInv' /\ RecordInv'
    BY <2>2, ReloadForgets
  <2> QED
    BY <1>3, <2>2, <2>3 DEF PagesInv, OpenInv
<1>5. CASE page = Closed /\ ~reload
  <2>1. UNCHANGED reloads
    BY <1>5 DEF WebSessionNext, start, startAnswered, submitLogin, loginAnswered, loginRefused, logout, callApi, callAnswered
  <2>2. UNCHANGED pageVars
    BY <1>5, <2>1 DEF afterTab
  <2>3. PagesTypeOK' /\ HereInv' /\ RecordInv'
    BY <1>5, <2>2, NoPageOpen
  <2> QED
    BY <1>3, <1>5, <2>2, <2>3 DEF PagesInv, OpenInv, pageVars
<1>6. CASE page # Closed /\ logout /\ UNCHANGED reloads /\ ~appShell'
  <2>1. closed /\ UNCHANGED <<version, cache, fetch, operation>> /\ "logout" \in scope /\ ~mayRead'
    BY <1>6, SignedOutTyped DEF afterTab, logout, mayRead
  <2>2. PagesTypeOK' /\ HereInv' /\ RecordInv'
    BY <2>1, LogoutCloses
  <2>3. page' = Closed /\ mine'.here = 0
    BY <2>1, HereReset DEF closed, PagesInv
  <2> QED
    BY <1>3, <2>2, <2>3 DEF PagesInv, OpenInv
<1>7. CASE page # Closed /\ UNCHANGED <<shown, reloads>> /\ (storage' = storage \/ storage' = SignedOut)
  <2>1. appShell' /\ paging
    BY <1>7 DEF PagesInv, OpenInv, appShell
  <2>2. UNCHANGED pageVars
    BY <1>7, <2>1 DEF afterTab
  <2>3. mayRead' => mayRead
    BY <1>1, <1>2, <1>7, SignedOutTyped DEF mayRead, served
  <2>4. PagesTypeOK' /\ HereInv' /\ RecordInv'
    BY <2>1, <2>2, <2>3, PageStaysOpen
  <2> QED
    BY <1>2, <1>3, <2>1, <2>2, <2>4 DEF PagesInv, OpenInv, pageVars
<1> QED
  BY <1>4, <1>5, <1>6, <1>7, TabUnderPages
-----------------------------------------------------------------------------
(* The accounts *)

LEMMA AccountsKeepPages ==
  ASSUME PagesInv, TabTypeOK, AccountsInv, AccountsInv', UNCHANGED <<tabVars, pageVars, scope>>,
         \A s \in Sessions : session[s] # NoSession => session'[s] = session[s]
  PROVE  PagesInv'
<1>1. UNCHANGED <<storage, shown, pending, page, mine>>
  BY DEF tabVars, pageVars
<1>2. paging' = paging /\ kind' = kind
  BY KindStays
<1>3. storage.token # None => storage.token \in Sessions /\ session[storage.token] # NoSession
  BY TabTyped DEF PagesInv, OpenInv, Tokens
<1>4. OpenInv'
  BY <1>1, <1>2, <1>3 DEF PagesInv, OpenInv, appShell
<1>5. CASE page = Closed
  BY <1>4, <1>5, NoPageOpen DEF PagesInv
<1>6. CASE page # Closed /\ Without({"roles"})
  <2>1. mayRead' => mayRead
    <3> SUFFICES ASSUME mayRead' PROVE mayRead
      OBVIOUS
    <3>1. PICK s : s = storage.token
      OBVIOUS
    <3>2. s \in Sessions /\ s # None /\ session[s] # NoSession /\ session'[s] = session[s] /\ session'[s] # NoSession
      BY <1>1, <1>3, <3>1 DEF mayRead
    <3>3. session[s].roles = user[session[s].user].roles
      BY <1>6, <3>2 DEF AccountsInv, RolesInv
    <3>4. session'[s].roles = user'[session'[s].user].roles
      BY <1>6, <3>2 DEF AccountsInv, RolesInv, Without
    <3>5. served(s, kinds[kind].needs)'
      BY <1>1, <3>1 DEF mayRead, served
    <3>6. served(s, kinds[kind].needs)
      BY <1>2, <3>2, <3>3, <3>4, <3>5 DEF served
    <3> QED
      BY <1>2, <3>1, <3>2, <3>6 DEF mayRead
  <2> QED
    BY <1>4, <1>6, <2>1, PageStaysOpen DEF PagesInv, OpenInv
<1>7. CASE ~Without({"roles"})
  <2>1. PICK st : st = operation
    OBVIOUS
  <2>2. PagesTypeOK'
    BY <2>1, TypesPut, OperationTyped DEF pageVars, PagesInv, PagesTypeOK
  <2>3. HereInv' /\ RecordInv'
    BY <1>7 DEF HereInv, RecordInv, Without
  <2> QED
    BY <1>4, <2>2, <2>3 DEF PagesInv
<1> QED
  BY <1>5, <1>6, <1>7
-----------------------------------------------------------------------------
LEMMA PagesInitially == BrowserInit => PagesInv
<1> SUFFICES ASSUME BrowserInit PROVE PagesInv
  OBVIOUS
<1>1. page = Closed /\ version = 0 /\ filled = NotFilled /\ operation = NoOperation
      /\ cache = [key \in Keys |-> Absent] /\ fetch = [key \in Keys |-> NoAnswer] /\ mine = [record |-> 0, here |-> 0]
  BY DEF BrowserInit, PagesInit
<1>2. PagesTypeOK
  BY <1>1, PagesAssumption DEF PagesTypeOK, NoAnswer, Forbidden, NotFilled
<1>3. OpenInv
  BY <1>1 DEF OpenInv, BrowserInit, WebSessionInit, Fresh, SignedOut, Signed
<1>4. HereInv /\ RecordInv
  BY <1>1 DEF HereInv, RecordInv, NoOperation
<1> QED
  BY <1>2, <1>3, <1>4 DEF PagesInv

LEMMA PagesAlways ==
  AccountsInv /\ RateInv /\ TabTypeOK /\ PagesInv /\ [BrowserNext]_<<browserVars, req, scope>> => PagesInv'
<1> SUFFICES ASSUME AccountsInv, RateInv, TabTypeOK, PagesInv, [BrowserNext]_<<browserVars, req, scope>>
             PROVE  PagesInv'
  OBVIOUS
<1>1. AccountsInv'
  BY AccountsAlways
<1>2. CASE AccountsNext /\ UNCHANGED <<tabVars, pageVars>>
  <2>1. scope' = scope
    BY <1>2 DEF AccountsNext, AccountsStep, tick, restart, auditLogin, sign, comparePassword, setPassword, writeUser,
       attempt, requestPasswordReset, confirmPasswordReset, changePassword, login, createUser, updateUser
  <2> QED
    BY <1>1, <1>2, <2>1, SessionsStay, AccountsKeepPages
<1>3. CASE WebSessionNext /\ afterTab /\ UNCHANGED <<accountVars, req, scope>>
  BY <1>3, TabKeepsPages
<1>4. CASE paging /\ PagesNext /\ UNCHANGED <<accountVars, req, scope>>
  BY <1>4, PagesNextKeeps
<1>5. CASE UNCHANGED <<browserVars, req, scope>>
  BY <1>1, <1>5, AccountsKeepPages DEF browserVars, accountVars
<1> QED
  BY <1>2, <1>3, <1>4, <1>5 DEF BrowserNext

LEMMA PagesAreSound == PagesInv => PagesHold
<1> SUFFICES ASSUME PagesInv PROVE OwnChangeIsShown /\ SavesBuildOnOwnChanges
  BY GatesAreKept DEF PagesHold, PagesInv
<1>1. OwnChangeIsShown
  <2> SUFFICES ASSUME Without({"eager", "roles"}), mayRead, operation = NoOperation, settled(keysOf(page)),
                      NEW key \in keysOf(page), cache[key] # Absent
               PROVE  cache[key].version >= mine.here
    BY DEF OwnChangeIsShown
  <2>1. paging /\ key \in Keys
    BY KeysOfPages DEF mayRead
  <2>2. mine.here \in Nat /\ cache[key].version \in Nat /\ fetch[key] = -1
    BY <2>1, CacheTyped DEF PagesInv, settled, NoAnswer
  <2>3. mine.here > 0 => Shows(key, mine.here)
    BY DEF PagesInv, HereInv, NoOperation
  <2> QED
    BY <2>2, <2>3 DEF Shows, Unauthorized
<1>2. SavesBuildOnOwnChanges
  <2> SUFFICES ASSUME Without({"hasty", "eager", "roles", "logout", "product"}), mayRead, operation.stage = "sent"
               PROVE  operation.base = NotFilled \/ operation.base >= mine.record
    BY DEF SavesBuildOnOwnChanges
  <2>1. mine.record \in Nat /\ operation # NoOperation
    BY CacheTyped, OperationTyped DEF PagesInv
  <2>2. CASE mine.record > 0
    BY <2>2 DEF PagesInv, RecordInv
  <2>3. CASE mine.record = 0
    BY <2>1, <2>3, OperationTyped DEF PagesInv, NotFilled
  <2> QED
    BY <2>1, <2>2, <2>3
<1> QED
  BY <1>1, <1>2

\* A page that changed a record shows it with that change once it has loaded, no form
\* takes back what was done on the record's own page, and a gate lets nobody see what
\* the endpoint refuses: for every page of the web application and any changes by
\* others, while react-query fetches, invalidates and forgets.
THEOREM PagesStaySound == BrowserSpec => []PagesHold
<1>1. BrowserInit => AccountsInv /\ RateInv /\ TabTypeOK /\ TabInv /\ OwnerInv /\ PagesInv
  BY AccountsInitially, RatesInitially, TabInitially, PagesInitially
<1> QED
  BY <1>1, PagesAreSound, AccountsAlways, TabAlways, PagesAlways, PTL DEF BrowserSpec
===============================================================================
