------------------------------ MODULE Approvals ------------------------------
(***************************************************************************)
(* Maker-checker approvals: apps/api/src/approvals/approvals.service.ts and *)
(* PaymentsService.submitForApproval, which creates them for payments.      *)
(*                                                                         *)
(* approve reads the approval, executes the requested action, and marks the *)
(* approval afterwards, in a statement of its own; reject and cancel read   *)
(* and then mark.  A request goes through the phases                        *)
(*   execute -> decide   approve                                            *)
(*              decide   reject, cancel                                     *)
(*   create              submitForApproval, which looks for a pending       *)
(*                       approval of its payment first; POST /approvals     *)
(*                       creates one without looking                        *)
(* What executing does to the approved entity is counted, not modelled: a   *)
(* product settlement posts to the ledger, an activation creates a limit    *)
(* record, and each would be repeated with its execution.                   *)
(***************************************************************************)
EXTENDS Naturals, FiniteSets

CONSTANTS
  Approvals,         \* approval requests, existing or still to be created
  EntityOf,          \* the entity each of them is about
  Payments,          \* the entities that are payments
  Users,
  Calls,             \* bound: the requests in flight at once
  Serial,            \* the entities on which no two requests overlap and no
                     \* request is cut short by a stop of the process
  MaxExecutions      \* bound: executions of one approval

Nobody == "nobody"
Entities == {EntityOf[a] : a \in Approvals}

ASSUME ApprovalsAssumption ==
  /\ Nobody \notin Users
  /\ Payments \subseteq Entities
  /\ Serial \subseteq Entities
  /\ MaxExecutions \in Nat

VARIABLES
  approval,    \* the rows; status "NONE" before they are created
  executed,    \* how often the action of each approval was executed
  executedBy,  \* by whom
  submitted,   \* the approvals that submitForApproval created
  call         \* the requests in flight

vars == <<approval, executed, executedBy, submitted, call>>

\* What submitForApproval asks for, and anything else POST /approvals may name.
Actions == {"PAYMENT_APPROVAL", "other"}

ApprovalStatus == {"PENDING", "APPROVED", "REJECTED", "CANCELLED"}
ApprovalRequest == [status : ApprovalStatus \cup {"NONE"}, action : Actions,
                    requestedBy : Users \cup {Nobody},
                    approvedBy : Users \cup {Nobody}]

NoCall == [phase |-> "idle"]
Deciding == [phase : {"execute", "decide"}, kind : {"approve", "reject", "cancel"},
             approval : Approvals, entity : Entities, user : Users]
Submitting == [phase : {"create"}, entity : Payments, user : Users]

TypeOK ==
  /\ approval \in [Approvals -> ApprovalRequest]
  /\ executed \in [Approvals -> Nat]
  /\ executedBy \in [Approvals -> SUBSET Users]
  /\ submitted \in SUBSET Approvals
  /\ call \in [Calls -> {NoCall} \cup Deciding \cup Submitting]

Init ==
  /\ approval = [a \in Approvals |-> [status |-> "NONE", action |-> "other",
                                      requestedBy |-> Nobody, approvedBy |-> Nobody]]
  /\ executed = [a \in Approvals |-> 0]
  /\ executedBy = [a \in Approvals |-> {}]
  /\ submitted = {}
  /\ call = [r \in Calls |-> NoCall]
-----------------------------------------------------------------------------
(* Creating approvals *)

newApproval(u, action) == [status |-> "PENDING", action |-> action,
                           requestedBy |-> u, approvedBy |-> Nobody]

Busy(e) == \E r \in Calls : call[r] # NoCall /\ call[r].entity = e

start(r, q) ==
  /\ call[r] = NoCall
  /\ q.entity \in Serial => ~Busy(q.entity)
  /\ call' = [call EXCEPT ![r] = q]

\* POST /approvals: of any entity, whatever else is pending.
create(a, u, action) ==
  /\ approval[a].status = "NONE"
  /\ approval' = [approval EXCEPT ![a] = newApproval(u, action)]
  /\ UNCHANGED <<executed, executedBy, submitted, call>>

\* Mutation: it does not look for a pending approval.
submitAlways(r, e, u) ==
  /\ start(r, [phase |-> "create", entity |-> e, user |-> u])
  /\ UNCHANGED <<approval, executed, executedBy, submitted>>

pendingApprovals(e) ==
  {a \in Approvals : EntityOf[a] = e /\ approval[a].action = "PAYMENT_APPROVAL"
                     /\ approval[a].status = "PENDING"}

\* A pending approval of the payment is returned as it is.
submitForApproval(r, e, u) ==
  /\ pendingApprovals(e) = {}
  /\ start(r, [phase |-> "create", entity |-> e, user |-> u])
  /\ UNCHANGED <<approval, executed, executedBy, submitted>>

createPaymentApproval(r) ==
  /\ call[r].phase = "create"
  /\ \E a \in Approvals :
       /\ EntityOf[a] = call[r].entity /\ approval[a].status = "NONE"
       /\ approval' = [approval EXCEPT ![a] = newApproval(call[r].user, "PAYMENT_APPROVAL")]
       /\ submitted' = submitted \cup {a}
  /\ call' = [call EXCEPT ![r] = NoCall]
  /\ UNCHANGED <<executed, executedBy>>
-----------------------------------------------------------------------------
(* Deciding them *)

\* Mutation: the requester may approve.
anyoneMayDecide(a, kind, u) == approval[a].status = "PENDING"

\* Mutation: a request that was decided may be decided again.
decidedMayBeDecided(a, kind, u) ==
  /\ approval[a].status # "NONE"
  /\ kind = "approve" => approval[a].requestedBy # u

mayDecide(a, kind, u) ==
  /\ approval[a].status = "PENDING"
  /\ kind = "approve" => approval[a].requestedBy # u

findOne(r, a, kind, u) ==
  /\ mayDecide(a, kind, u)
  /\ start(r, [phase |-> IF kind = "approve" THEN "execute" ELSE "decide",
               kind |-> kind, approval |-> a, entity |-> EntityOf[a], user |-> u])
  /\ UNCHANGED <<approval, executed, executedBy, submitted>>

executeApproval(r) ==
  LET a == call[r].approval
  IN /\ call[r].phase = "execute"
     /\ executed[a] < MaxExecutions
     /\ executed' = [executed EXCEPT ![a] = @ + 1]
     /\ executedBy' = [executedBy EXCEPT ![a] = @ \cup {call[r].user}]
     /\ call' = [call EXCEPT ![r].phase = "decide"]
     /\ UNCHANGED <<approval, submitted>>

\* Mutation: the decision's name is stored instead of the status it leads to.
DecisionName == [approve |-> "approve", reject |-> "reject", cancel |-> "cancel"]

DecisionStatus == [approve |-> "APPROVED", reject |-> "REJECTED", cancel |-> "CANCELLED"]

decided(row, kind, u) ==
  [row EXCEPT !.status = DecisionStatus[kind],
              !.approvedBy = IF kind = "approve" THEN u ELSE @]

\* Mutation: the approval is marked whether or not its action was executed.
decideFirst(r) ==
  LET q == call[r]
  IN /\ q.phase \in {"execute", "decide"}
     /\ approval' = [approval EXCEPT ![q.approval] = decided(@, q.kind, q.user)]
     /\ call' = [call EXCEPT ![r] = NoCall]
     /\ UNCHANGED <<executed, executedBy, submitted>>

\* The update has no condition on the status it replaces.
decide(r) ==
  LET q == call[r]
  IN /\ q.phase = "decide"
     /\ approval' = [approval EXCEPT ![q.approval] = decided(@, q.kind, q.user)]
     /\ call' = [call EXCEPT ![r] = NoCall]
     /\ UNCHANGED <<executed, executedBy, submitted>>

\* An action that cannot be executed throws; a process that stops leaves its
\* requests where they are.
abandon(r) ==
  /\ call[r] # NoCall
  /\ call[r].entity \notin Serial \/ call[r].phase = "execute"
  /\ call' = [call EXCEPT ![r] = NoCall]
  /\ UNCHANGED <<approval, executed, executedBy, submitted>>

Next ==
  \/ \E a \in Approvals, u \in Users, action \in Actions : create(a, u, action)
  \/ \E r \in Calls, u \in Users :
       \/ \E e \in Payments : submitForApproval(r, e, u)
       \/ \E a \in Approvals, kind \in {"approve", "reject", "cancel"} : findOne(r, a, kind, u)
  \/ \E r \in Calls :
       createPaymentApproval(r) \/ executeApproval(r) \/ decide(r) \/ abandon(r)

Spec == Init /\ [][Next]_vars
-----------------------------------------------------------------------------
(* Properties *)

\* However decisions overlap, race with a crash or are repeated, no action is
\* ever executed, and no approval marked, by the user who requested it.
FourEyes ==
  \A a \in Approvals :
    approval[a].status # "NONE" =>
      /\ approval[a].requestedBy \notin executedBy[a]
      /\ approval[a].approvedBy # approval[a].requestedBy

\* An approval is marked only after its action was executed, by the user it
\* is marked with: a failure in between leaves it pending, never approved.
ApprovedIsExecuted ==
  \A a \in Approvals :
    approval[a].status = "APPROVED" => approval[a].approvedBy \in executedBy[a]

\* Where requests neither overlap nor are cut short, what an approval stands
\* for is done at most once, however often it is decided on.
ExecutedOnce ==
  \A a \in Approvals : EntityOf[a] \in Serial => executed[a] <= 1

\* There, a request that was rejected or withdrawn has done nothing, before or
\* after: "Only pending approvals can be approved".
RejectedHasNoEffect ==
  \A a \in Approvals :
    EntityOf[a] \in Serial /\ approval[a].status \in {"REJECTED", "CANCELLED"} =>
      executed[a] = 0

\* There, the submissions of a payment wait for at most one decision:
\* submitForApproval finds the pending approval of an earlier submission.  The
\* approvals that POST /approvals adds beside it are not bound by this.
OnePendingSubmission ==
  \A a, b \in submitted :
    /\ EntityOf[a] = EntityOf[b] /\ EntityOf[a] \in Serial
    /\ approval[a].status = "PENDING" /\ approval[b].status = "PENDING"
    => a = b

\* An approval on an entity whose requests neither overlap nor are cut short is
\* decided once, whichever way it was created: executed once if approved, never
\* if rejected or withdrawn; and repeated submissions of a payment wait for one
\* decision.
DecidedOnce == ExecutedOnce /\ RejectedHasNoEffect /\ OnePendingSubmission

\* The strengthening that makes FourEyes and ApprovedIsExecuted inductive: a
\* request that approves was not made by the requester, and one that is about
\* to mark has executed.
ApproversAreCheckers ==
  \A r \in Calls :
    LET q == call[r]
    IN q \in Deciding =>
         /\ approval[q.approval].status # "NONE"
         /\ q.kind = "approve" =>
              /\ q.user # approval[q.approval].requestedBy
              /\ q.phase = "decide" => q.user \in executedBy[q.approval]
         /\ q.phase = "execute" => q.kind = "approve"

Uncreated ==
  \A a \in Approvals : approval[a].status = "NONE" =>
    executedBy[a] = {} /\ approval[a].approvedBy = Nobody

CheckerInv == FourEyes /\ ApprovedIsExecuted /\ ApproversAreCheckers /\ Uncreated
=============================================================================
