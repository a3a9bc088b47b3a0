-------------------------------- MODULE Webhooks --------------------------------
(***************************************************************************)
(* Deliveries to the endpoints of subscribers: webhooks/webhooks.service.ts. *)
(*                                                                         *)
(* emit starts a delivery for every subscribed endpoint and does not wait    *)
(* for it.  deliver reads the delivery, calls the endpoint, and stores what   *)
(* came of it; whatever throws before its end, the log included, is stored   *)
(* as a failed attempt.  Nothing but retryDelivery calls an endpoint again.  *)
(***************************************************************************)
EXTENDS Service

CONSTANTS
  Endpoints, EventTypes,
  Subscriptions, \* the sets of events asked for
  Deliveries,    \* the deliveries there may be
  MaxRetries,    \* WEBHOOK_MAX_RETRIES
  MaxCalls       \* bound: calls of an endpoint for one delivery

ASSUME WebhooksAssumption ==
  /\ Subscriptions \subseteq SUBSET (EventTypes \cup {"*"})
  /\ Deliveries \subseteq Background /\ Requests \cap Background = {}
  /\ MaxRetries \in Nat \ {0} /\ MaxCalls \in Nat

VARIABLES
  endpoint,     \* of each endpoint: its status and the events it subscribed to
  delivery,     \* of each delivery: its endpoint, status, attempts and next attempt
  calls,        \* history: of each delivery, how often its endpoint was called
  received      \* history: how often the endpoint accepted it

webhookVars == <<endpoint, delivery, calls, received>>

NoEndpoint == [status |-> "NONE"]
Endpoint == [status : {"ACTIVE", "DISABLED"}, events : Subscriptions]
NoDelivery == [status |-> "NONE"]
Delivery == [endpoint : Endpoints, status : {"PENDING", "RETRYING", "DELIVERED", "FAILED", "CANCELLED"},
             attempts : Nat, due : BOOLEAN]

Emitting == [phase : {"emit"}, todo : SUBSET Endpoints]
Delivering == [phase : {"deliver", "call", "update", "log", "catch"}, delivery : Deliveries,
               attempts : Nat, ok : BOOLEAN]

WebhooksTypeOK ==
  /\ endpoint \in [Endpoints -> {NoEndpoint} \cup Endpoint]
  /\ delivery \in [Deliveries -> {NoDelivery} \cup Delivery]
  /\ calls \in [Deliveries -> Nat] /\ received \in [Deliveries -> Nat]
  /\ \A r \in Requests : at(r, "emit") => req[r] \in Emitting
  /\ \A r \in Processes : "delivery" \in DOMAIN req[r] => req[r] \in Delivering

WebhooksInit ==
  /\ endpoint = [e \in Endpoints |-> NoEndpoint]
  /\ delivery = [d \in Deliveries |-> NoDelivery]
  /\ calls = [d \in Deliveries |-> 0] /\ received = [d \in Deliveries |-> 0]
-----------------------------------------------------------------------------
(* Endpoints *)

createEndpoint(r, e, events) ==
  /\ mayBegin(r, "endpoint") /\ e \in scope /\ endpoint[e] = NoEndpoint
  /\ endpoint' = [endpoint EXCEPT ![e] = [status |-> "ACTIVE", events |-> events]]
  /\ UNCHANGED <<delivery, calls, received, req, scope>>

\* Any of the two may be sent.
updateEndpoint(r, e, status, events) ==
  /\ mayBegin(r, "edit") /\ endpoint[e] # NoEndpoint
  /\ endpoint' = [endpoint EXCEPT ![e] = [status |-> status, events |-> events]]
  /\ UNCHANGED <<delivery, calls, received, req, scope>>

deleteEndpoint(r, e) ==
  /\ mayBegin(r, "edit") /\ endpoint[e] # NoEndpoint
  /\ endpoint' = [endpoint EXCEPT ![e].status = "DISABLED"]
  /\ UNCHANGED <<delivery, calls, received, req, scope>>
-----------------------------------------------------------------------------
(* Deliveries *)

subscribed(e, eventType) ==
  endpoint[e] # NoEndpoint /\ endpoint[e].status = "ACTIVE" /\ {eventType, "*"} \cap endpoint[e].events # {}

\* Bound: as many deliveries as there are left.
emit(r, eventType) ==
  LET todo == {e \in Endpoints : subscribed(e, eventType)}
  IN /\ mayBegin(r, "emit")
     /\ Cardinality(todo) + MapThenSumSet(LAMBDA p : IF at(p, "emit") THEN Cardinality(req[p].todo) ELSE 0,
                                           Requests)
          <= Cardinality({d \in Deliveries : delivery[d] = NoDelivery})
     /\ become(r, [phase |-> "emit", todo |-> todo])
     /\ UNCHANGED <<webhookVars, scope>>

delivering(d, phase) == [phase |-> phase, delivery |-> d, attempts |-> 0, ok |-> FALSE]

\* Mutation: the loop ends with the first delivery.
startFirstDelivery(r, d) ==
  /\ at(r, "emit") /\ delivery[d] = NoDelivery
  /\ \E e \in req[r].todo :
       /\ delivery' = [delivery EXCEPT ![d] = [endpoint |-> e, status |-> "PENDING", attempts |-> 0,
                                               due |-> FALSE]]
       /\ req' = [req EXCEPT ![r].todo = {}, ![d] = delivering(d, "deliver")]
  /\ UNCHANGED <<endpoint, calls, received, scope>>

\* One turn of the loop of emit.
startDelivery(r, d) ==
  /\ at(r, "emit") /\ delivery[d] = NoDelivery
  /\ \E e \in req[r].todo :
       /\ delivery' = [delivery EXCEPT ![d] = [endpoint |-> e, status |-> "PENDING", attempts |-> 0,
                                               due |-> FALSE]]
       /\ req' = [req EXCEPT ![r].todo = @ \ {e}, ![d] = delivering(d, "deliver")]
  /\ UNCHANGED <<endpoint, calls, received, scope>>

emitted(r) == at(r, "emit") /\ req[r].todo = {} /\ become(r, Idle) /\ UNCHANGED <<webhookVars, scope>>

\* Mutation: a retry starts counting again.
retryFromZero(r, d) ==
  /\ mayBegin(r, "retry") /\ delivery[d] # NoDelivery /\ calls[d] < MaxCalls
  /\ delivery' = [delivery EXCEPT ![d].status = "RETRYING", ![d].due = FALSE, ![d].attempts = 0]
  /\ become(r, delivering(d, "deliver"))
  /\ UNCHANGED <<endpoint, calls, received, scope>>

retryDelivery(r, d) ==
  /\ mayBegin(r, "retry") /\ delivery[d] # NoDelivery /\ calls[d] < MaxCalls
  /\ delivery' = [delivery EXCEPT ![d].status = "RETRYING", ![d].due = FALSE]
  /\ become(r, delivering(d, "deliver"))
  /\ UNCHANGED <<endpoint, calls, received, scope>>

cancelDelivery(r, d) ==
  /\ mayBegin(r, "cancel") /\ delivery[d] # NoDelivery
  /\ delivery' = [delivery EXCEPT ![d].status = "CANCELLED"]
  /\ UNCHANGED <<endpoint, calls, received, req, scope>>

\* The delivery is read once; what it says of the endpoint is not looked at.
deliver(r) ==
  /\ at(r, "deliver")
  /\ become(r, [req[r] EXCEPT !.phase = "call", !.attempts = delivery[req[r].delivery].attempts + 1])
  /\ UNCHANGED <<webhookVars, scope>>

\* The endpoint accepts, or answers with an error; or there is no answer, the
\* endpoint having accepted or not.
call(r) ==
  LET d == req[r].delivery
  IN /\ at(r, "call") /\ calls[d] < MaxCalls
     /\ calls' = [calls EXCEPT ![d] = @ + 1]
     /\ \E accepted, answered \in BOOLEAN :
          /\ accepted /\ ~answered => "lost" \in scope
          /\ received' = [received EXCEPT ![d] = @ + IF accepted THEN 1 ELSE 0]
          /\ become(r, [req[r] EXCEPT !.phase = IF answered THEN "update" ELSE "catch",
                                      !.ok = accepted /\ answered])
     /\ UNCHANGED <<endpoint, delivery, scope>>

\* Mutation: one attempt too many.
attemptedOnceMore(q, delivered) ==
  LET status == IF delivered THEN "DELIVERED" ELSE IF q.attempts > MaxRetries THEN "FAILED" ELSE "RETRYING"
  IN [delivery EXCEPT ![q.delivery].attempts = q.attempts, ![q.delivery].status = status,
                      ![q.delivery].due = status = "RETRYING"]

attempted(q, delivered) ==
  LET status == IF delivered THEN "DELIVERED" ELSE IF q.attempts >= MaxRetries THEN "FAILED" ELSE "RETRYING"
  IN [delivery EXCEPT ![q.delivery].attempts = q.attempts, ![q.delivery].status = status,
                      ![q.delivery].due = status = "RETRYING"]

storeAnswer(r) ==
  /\ at(r, "update")
  /\ delivery' = attempted(req[r], req[r].ok)
  /\ become(r, [req[r] EXCEPT !.phase = "log"])
  /\ UNCHANGED <<endpoint, calls, received, scope>>

\* The log is written inside the same try.
logDelivery(r) ==
  /\ at(r, "log")
  /\ \/ become(r, Idle)
     \/ "logFails" \in scope /\ become(r, [req[r] EXCEPT !.phase = "catch"])
  /\ UNCHANGED <<webhookVars, scope>>

\* Mutation: no answer is taken for an empty one.
storeNoAnswer(r) ==
  /\ at(r, "catch")
  /\ delivery' = attempted(req[r], TRUE)
  /\ become(r, Idle)
  /\ UNCHANGED <<endpoint, calls, received, scope>>

storeFailure(r) ==
  /\ at(r, "catch")
  /\ delivery' = attempted(req[r], FALSE)
  /\ become(r, Idle)
  /\ UNCHANGED <<endpoint, calls, received, scope>>

WebhooksStep(r) ==
  \/ emitted(r) \/ deliver(r) \/ call(r) \/ storeAnswer(r) \/ logDelivery(r) \/ storeFailure(r)
  \/ \E d \in Deliveries : startDelivery(r, d)

WebhooksNext ==
  \/ \E r \in Processes : WebhooksStep(r)
  \/ \E r \in Requests :
    \/ \E e \in Endpoints, events \in Subscriptions :
         \/ createEndpoint(r, e, events)
         \/ \E status \in {"ACTIVE", "DISABLED"} : updateEndpoint(r, e, status, events)
    \/ \E e \in Endpoints : deleteEndpoint(r, e)
    \/ \E eventType \in EventTypes : emit(r, eventType)
    \/ \E d \in Deliveries : retryDelivery(r, d) \/ cancelDelivery(r, d)

WebhooksFairness ==
  \A r \in Processes : WF_<<webhookVars, req>>(WebhooksStep(r) /\ UNCHANGED scope)
-----------------------------------------------------------------------------
(* Properties *)

resting(d) == \A r \in Processes : "delivery" \in DOMAIN req[r] => req[r].delivery # d

\* What is shown as delivered has been accepted by its endpoint, whatever failed
\* before or after, in however many attempts.
DeliveredWasReceived ==
  \A d \in Deliveries : delivery[d].status = "DELIVERED" => received[d] > 0

\* The attempts shown are the calls made, also where the log could not be
\* written or a delivered one was sent again, unless two attempts overlap or the
\* process stops.
AttemptsAreCalls ==
  Without({"overlap", "crash"}) =>
    \A d \in Deliveries : delivery[d] # NoDelivery /\ resting(d) => delivery[d].attempts = calls[d]

\* A delivery left for another attempt has a time for it and attempts to spare.
RetryingIsDue ==
  Without({"overlap", "crash"}) =>
    \A d \in Deliveries : delivery[d].status = "RETRYING" /\ resting(d) =>
      delivery[d].due /\ delivery[d].attempts < MaxRetries

\* Every subscriber an event is for is called, unless the process stops: one
\* that does not answer holds up no other.
SubscriberIsCalled ==
  \A e \in Endpoints, r \in Requests :
    (at(r, "emit") /\ e \in req[r].todo /\ Without({"crash"}))
      ~> \E d \in Deliveries : delivery[d] # NoDelivery /\ delivery[d].endpoint = e /\ calls[d] > 0
===============================================================================
