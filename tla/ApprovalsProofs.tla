--------------------------- MODULE ApprovalsProofs ---------------------------
(***************************************************************************)
(* Maker-checker for every number of users, approvals and overlapping      *)
(* requests, with and without crashes: type correctness, and the inductive *)
(* invariant CheckerInv, which carries what a request in flight has checked *)
(* and done to the moment it marks its approval.                           *)
(*                                                                         *)
(* Then the approval of a counterparty, for every number of checks, owners   *)
(* and overlapping runs: what a run of Compliance has found and stored, what  *)
(* the flags of a subject say of its checks, and what an approval has read.  *)
(***************************************************************************)
EXTENDS Approvals, Compliance, SumTheorems, SequenceTheorems, FiniteSetTheorems, TLAPS

LEMMA InitType == Init => TypeOK
  BY ApprovalsAssumption DEF Init, TypeOK, ApprovalRequest, ApprovalStatus, Actions, NoCall

\* What a request in flight is, by its phase.
LEMMA InFlight ==
  ASSUME TypeOK, NEW r \in Calls
  PROVE  /\ call[r].phase \in {"execute", "decide"} => call[r] \in Deciding
         /\ call[r].phase = "create" => call[r] \in Submitting
         /\ call[r] # NoCall => call[r] \in Deciding \cup Submitting
  BY DEF TypeOK, NoCall, Deciding, Submitting

LEMMA DecidedIsTyped ==
  ASSUME NEW row \in ApprovalRequest, NEW u \in Users,
         NEW kind \in {"approve", "reject", "cancel"}
  PROVE  /\ decided(row, kind, u) \in ApprovalRequest
         /\ decided(row, kind, u).requestedBy = row.requestedBy
         /\ decided(row, kind, u).action = row.action
         /\ decided(row, kind, u).status \in {"APPROVED", "REJECTED", "CANCELLED"}
         /\ kind = "approve" => decided(row, kind, u).status = "APPROVED"
         /\ decided(row, kind, u).status = "APPROVED" => kind = "approve"
         /\ kind = "approve" => decided(row, kind, u).approvedBy = u
         /\ kind # "approve" => decided(row, kind, u).approvedBy = row.approvedBy
<1>1. /\ DecisionStatus["approve"] = "APPROVED" /\ DecisionStatus["reject"] = "REJECTED"
      /\ DecisionStatus["cancel"] = "CANCELLED"
  BY DEF DecisionStatus
<1>2. PICK st \in {"APPROVED", "REJECTED", "CANCELLED"} :
        st = DecisionStatus[kind] /\ (st = "APPROVED" => kind = "approve")
  BY <1>1
<1>3. PICK by \in Users \cup {Nobody} :
        by = IF kind = "approve" THEN u ELSE row.approvedBy
  BY DEF ApprovalRequest
<1>4. decided(row, kind, u) = [row EXCEPT !.status = st, !.approvedBy = by]
  BY <1>2, <1>3 DEF decided
<1>5. decided(row, kind, u).status = st /\ decided(row, kind, u).approvedBy = by
  BY <1>4 DEF ApprovalRequest
<1>6. /\ decided(row, kind, u) \in ApprovalRequest
      /\ decided(row, kind, u).requestedBy = row.requestedBy
      /\ decided(row, kind, u).action = row.action
  BY <1>4 DEF ApprovalRequest, ApprovalStatus
<1> QED
  BY <1>1, <1>2, <1>3, <1>5, <1>6

LEMMA NewIsTyped ==
  ASSUME NEW u \in Users, NEW action \in Actions
  PROVE  newApproval(u, action) \in ApprovalRequest
  BY DEF newApproval, ApprovalRequest, ApprovalStatus

LEMMA StepType == TypeOK /\ [Next]_vars => TypeOK'
<1> SUFFICES ASSUME TypeOK, [Next]_vars PROVE TypeOK'
  OBVIOUS
<1> USE ApprovalsAssumption
<1>1. ASSUME NEW a \in Approvals, NEW u \in Users, NEW action \in Actions,
             create(a, u, action)
      PROVE  TypeOK'
  BY <1>1, NewIsTyped DEF create, TypeOK
<1>2. ASSUME NEW r \in Calls, NEW u \in Users, NEW e \in Payments, submitForApproval(r, e, u)
      PROVE  TypeOK'
  BY <1>2 DEF submitForApproval, start, TypeOK, Submitting
<1>3. ASSUME NEW r \in Calls, NEW u \in Users, NEW a \in Approvals,
             NEW kind \in {"approve", "reject", "cancel"}, findOne(r, a, kind, u)
      PROVE  TypeOK'
  BY <1>3 DEF findOne, start, TypeOK, Deciding, Entities
<1>4. ASSUME NEW r \in Calls, createPaymentApproval(r) PROVE TypeOK'
  <2>1. call[r] \in Submitting
    BY <1>4, InFlight DEF createPaymentApproval
  <2>2. newApproval(call[r].user, "PAYMENT_APPROVAL") \in ApprovalRequest
    BY <2>1, NewIsTyped DEF Submitting, Actions
  <2> QED
    BY <1>4, <2>2 DEF createPaymentApproval, TypeOK
<1>5. ASSUME NEW r \in Calls, executeApproval(r) PROVE TypeOK'
  <2>1. call[r] \in Deciding
    BY <1>5, InFlight DEF executeApproval
  <2>2. [call[r] EXCEPT !.phase = "decide"] \in Deciding
    BY <2>1 DEF Deciding
  <2>3. PICK a \in Approvals, u \in Users : a = call[r].approval /\ u = call[r].user
    BY <2>1 DEF Deciding
  <2>4. executed' \in [Approvals -> Nat]
    BY <1>5, <2>3 DEF executeApproval, TypeOK
  <2>5. executedBy' \in [Approvals -> SUBSET Users]
    BY <1>5, <2>3 DEF executeApproval, TypeOK
  <2> QED
    BY <1>5, <2>2, <2>4, <2>5 DEF executeApproval, TypeOK
<1>6. ASSUME NEW r \in Calls, decide(r) PROVE TypeOK'
  <2>1. call[r] \in Deciding
    BY <1>6, InFlight DEF decide
  <2>2. PICK a \in Approvals, u \in Users, kind \in {"approve", "reject", "cancel"} :
          a = call[r].approval /\ u = call[r].user /\ kind = call[r].kind
    BY <2>1 DEF Deciding
  <2>3. approval' = [approval EXCEPT ![a] = decided(approval[a], kind, u)]
    BY <1>6, <2>2 DEF decide
  <2>4. decided(approval[a], kind, u) \in ApprovalRequest
    BY DecidedIsTyped DEF TypeOK
  <2> QED
    BY <1>6, <2>3, <2>4 DEF decide, TypeOK
<1>7. ASSUME NEW r \in Calls, abandon(r) PROVE TypeOK'
  BY <1>7 DEF abandon, TypeOK
<1>8. CASE UNCHANGED vars
  BY <1>8 DEF TypeOK, vars
<1> QED
  BY <1>1, <1>2, <1>3, <1>4, <1>5, <1>6, <1>7, <1>8 DEF Next

\* The rows and the requests have their types, whatever overlaps: decisions
\* and submissions of apps/api/src/approvals and payments never leave a value
\* the schema does not have.
THEOREM TypeCorrect == Spec => []TypeOK
  BY InitType, StepType, PTL DEF Spec
-----------------------------------------------------------------------------
(* Makers never check their own requests *)

LEMMA InitChecker == Init => CheckerInv
  BY ApprovalsAssumption
  DEF Init, CheckerInv, FourEyes, ApprovedIsExecuted, ApproversAreCheckers, Uncreated,
      NoCall, Deciding

\* Creating a row that did not exist disturbs no request: none decides on it.
LEMMA CreatedIsChecked ==
  ASSUME TypeOK, CheckerInv, NEW a \in Approvals, NEW u \in Users, NEW action,
         approval[a].status = "NONE",
         approval' = [approval EXCEPT ![a] = newApproval(u, action)],
         UNCHANGED executedBy,
         \A r \in Calls : call'[r] \in Deciding => call'[r] = call[r]
  PROVE  CheckerInv'
<1>1. /\ approval'[a] = newApproval(u, action)
      /\ \A b \in Approvals : b # a => approval'[b] = approval[b]
  BY DEF TypeOK
<1>2. /\ newApproval(u, action).status = "PENDING" /\ newApproval(u, action).requestedBy = u
      /\ newApproval(u, action).approvedBy = Nobody /\ u # Nobody
  BY ApprovalsAssumption DEF newApproval
<1>3. executedBy[a] = {}
  BY DEF CheckerInv, Uncreated
<1>4. FourEyes'
  BY <1>1, <1>2, <1>3 DEF CheckerInv, FourEyes
<1>5. ApprovedIsExecuted'
  BY <1>1, <1>2 DEF CheckerInv, ApprovedIsExecuted
<1>6. ApproversAreCheckers'
  <2> SUFFICES ASSUME NEW r \in Calls, call'[r] \in Deciding
      PROVE  /\ approval'[call'[r].approval].status # "NONE"
             /\ call'[r].kind = "approve" =>
                  /\ call'[r].user # approval'[call'[r].approval].requestedBy
                  /\ call'[r].phase = "decide" =>
                       call'[r].user \in executedBy'[call'[r].approval]
             /\ call'[r].phase = "execute" => call'[r].kind = "approve"
    BY DEF ApproversAreCheckers, Deciding, Entities
  <2>1. call'[r] = call[r]
    OBVIOUS
  <2>2. call[r].approval \in Approvals /\ call[r].approval # a
    BY <2>1 DEF CheckerInv, ApproversAreCheckers, Deciding
  <2> QED
    BY <1>1, <2>1, <2>2 DEF CheckerInv, ApproversAreCheckers
<1>7. Uncreated'
  BY <1>1, <1>2 DEF CheckerInv, Uncreated
<1> QED
  BY <1>4, <1>5, <1>6, <1>7 DEF CheckerInv

\* A step that only changes requests keeps the invariant if each request that
\* still decides did so before, or satisfies its part of the invariant.
LEMMA OnlyRequests ==
  ASSUME TypeOK, CheckerInv, UNCHANGED <<approval, executedBy>>,
         \A r \in Calls : call'[r] \in Deciding =>
           \/ call'[r] = call[r]
           \/ /\ approval[call'[r].approval].status # "NONE"
              /\ call'[r].kind = "approve" =>
                   /\ call'[r].user # approval[call'[r].approval].requestedBy
                   /\ call'[r].phase = "decide" =>
                        call'[r].user \in executedBy[call'[r].approval]
              /\ call'[r].phase = "execute" => call'[r].kind = "approve"
  PROVE  CheckerInv'
<1>1. FourEyes' /\ ApprovedIsExecuted' /\ Uncreated'
  BY DEF CheckerInv, FourEyes, ApprovedIsExecuted, Uncreated
<1>2. ApproversAreCheckers'
  BY DEF CheckerInv, ApproversAreCheckers, Deciding, Entities
<1> QED
  BY <1>1, <1>2 DEF CheckerInv

LEMMA ExecuteChecks ==
  ASSUME TypeOK, CheckerInv, NEW r \in Calls, executeApproval(r)
  PROVE  CheckerInv'
<1>1. call[r] \in Deciding
  BY InFlight DEF executeApproval
<1>2. PICK a \in Approvals, u \in Users : a = call[r].approval /\ u = call[r].user
  BY <1>1 DEF Deciding
<1>3. /\ call[r].kind = "approve" /\ u # approval[a].requestedBy
      /\ approval[a].status # "NONE"
  BY <1>1, <1>2 DEF executeApproval, CheckerInv, ApproversAreCheckers
<1>4. /\ approval' = approval
      /\ executedBy' = [executedBy EXCEPT ![a] = @ \cup {u}]
      /\ call' = [call EXCEPT ![r].phase = "decide"]
  BY <1>2 DEF executeApproval
<1>5. /\ executedBy'[a] = executedBy[a] \cup {u}
      /\ \A b \in Approvals : b # a => executedBy'[b] = executedBy[b]
  BY <1>4 DEF TypeOK
<1>6. FourEyes'
  BY <1>3, <1>4, <1>5 DEF CheckerInv, FourEyes
<1>7. ApprovedIsExecuted'
  BY <1>4, <1>5 DEF CheckerInv, ApprovedIsExecuted
<1>8. ApproversAreCheckers'
  <2> SUFFICES ASSUME NEW s \in Calls, call'[s] \in Deciding
      PROVE  /\ approval'[call'[s].approval].status # "NONE"
             /\ call'[s].kind = "approve" =>
                  /\ call'[s].user # approval'[call'[s].approval].requestedBy
                  /\ call'[s].phase = "decide" =>
                       call'[s].user \in executedBy'[call'[s].approval]
             /\ call'[s].phase = "execute" => call'[s].kind = "approve"
    BY DEF ApproversAreCheckers, Deciding, Entities
  <2>1. CASE s = r
    <3>1. /\ call'[r].approval = a /\ call'[r].user = u /\ call'[r].kind = "approve"
          /\ call'[r].phase = "decide"
      BY <1>1, <1>2, <1>3, <1>4 DEF TypeOK, Deciding
    <3> QED
      BY <2>1, <3>1, <1>3, <1>4, <1>5
  <2>2. CASE s # r
    <3>1. call'[s] = call[s]
      BY <2>2, <1>4 DEF TypeOK
    <3>2. call[s].approval \in Approvals
      BY <3>1 DEF Deciding
    <3> QED
      BY <3>1, <3>2, <1>4, <1>5 DEF CheckerInv, ApproversAreCheckers
  <2> QED
    BY <2>1, <2>2
<1>9. Uncreated'
  BY <1>3, <1>4, <1>5 DEF CheckerInv, Uncreated
<1> QED
  BY <1>6, <1>7, <1>8, <1>9 DEF CheckerInv

LEMMA DecideChecks ==
  ASSUME TypeOK, CheckerInv, NEW r \in Calls, decide(r)
  PROVE  CheckerInv'
<1>1. call[r] \in Deciding /\ call[r].phase = "decide"
  BY InFlight DEF decide
<1>2. PICK a \in Approvals, u \in Users, kind \in {"approve", "reject", "cancel"} :
        a = call[r].approval /\ u = call[r].user /\ kind = call[r].kind
  BY <1>1 DEF Deciding
<1>3. PICK row \in ApprovalRequest :
        /\ row = decided(approval[a], kind, u)
        /\ row.requestedBy = approval[a].requestedBy
        /\ row.status \in {"APPROVED", "REJECTED", "CANCELLED"}
        /\ row.status = "APPROVED" => kind = "approve"
        /\ kind = "approve" => row.approvedBy = u
        /\ kind # "approve" => row.approvedBy = approval[a].approvedBy
  <2>1. approval[a] \in ApprovalRequest
    BY DEF TypeOK
  <2> QED
    BY <2>1, DecidedIsTyped
<1>4. /\ approval'[a] = row
      /\ \A b \in Approvals : b # a => approval'[b] = approval[b]
      /\ executedBy' = executedBy
      /\ call' = [call EXCEPT ![r] = NoCall]
  BY <1>2, <1>3 DEF decide, TypeOK
<1>5. /\ approval[a].status # "NONE"
      /\ kind = "approve" => u # approval[a].requestedBy /\ u \in executedBy[a]
  BY <1>1, <1>2 DEF CheckerInv, ApproversAreCheckers
<1>6. /\ row.requestedBy = approval[a].requestedBy
      /\ row.status # "NONE"
      /\ row.status = "APPROVED" => kind = "approve"
      /\ kind = "approve" => row.approvedBy = u
      /\ kind # "approve" => row.approvedBy = approval[a].approvedBy
  BY <1>3
<1>7. FourEyes'
  BY <1>4, <1>5, <1>6 DEF CheckerInv, FourEyes
<1>8. ApprovedIsExecuted'
  BY <1>4, <1>5, <1>6 DEF CheckerInv, ApprovedIsExecuted
<1>9. ApproversAreCheckers'
  <2> SUFFICES ASSUME NEW s \in Calls, call'[s] \in Deciding
      PROVE  /\ approval'[call'[s].approval].status # "NONE"
             /\ call'[s].kind = "approve" =>
                  /\ call'[s].user # approval'[call'[s].approval].requestedBy
                  /\ call'[s].phase = "decide" =>
                       call'[s].user \in executedBy'[call'[s].approval]
             /\ call'[s].phase = "execute" => call'[s].kind = "approve"
    BY DEF ApproversAreCheckers, Deciding, Entities
  <2>1. s # r
    BY <1>4 DEF TypeOK, NoCall, Deciding
  <2>2. call'[s] = call[s]
    BY <2>1, <1>4 DEF TypeOK
  <2>3. call[s].approval \in Approvals
    BY <2>2 DEF Deciding
  <2> QED
    BY <2>2, <2>3, <1>4, <1>6 DEF CheckerInv, ApproversAreCheckers
<1>10. Uncreated'
  BY <1>4, <1>6 DEF CheckerInv, Uncreated
<1> QED
  BY <1>7, <1>8, <1>9, <1>10 DEF CheckerInv

LEMMA StepChecker == TypeOK /\ CheckerInv /\ [Next]_vars => CheckerInv'
<1> SUFFICES ASSUME TypeOK, CheckerInv, [Next]_vars PROVE CheckerInv'
  OBVIOUS
<1>1. ASSUME NEW a \in Approvals, NEW u \in Users, NEW action \in Actions,
             create(a, u, action)
      PROVE  CheckerInv'
  BY <1>1, CreatedIsChecked DEF create
<1>2. ASSUME NEW r \in Calls, NEW u \in Users, NEW e \in Payments, submitForApproval(r, e, u)
      PROVE  CheckerInv'
  <2>1. \A s \in Calls : call'[s] \in Deciding => call'[s] = call[s]
    BY <1>2 DEF submitForApproval, start, TypeOK, Deciding
  <2> QED
    BY <1>2, <2>1, OnlyRequests DEF submitForApproval
<1>3. ASSUME NEW r \in Calls, NEW u \in Users, NEW a \in Approvals,
             NEW kind \in {"approve", "reject", "cancel"}, findOne(r, a, kind, u)
      PROVE  CheckerInv'
  <2>1. /\ call'[r].approval = a /\ call'[r].user = u /\ call'[r].kind = kind
        /\ call'[r].phase = "execute" => kind = "approve"
        /\ call'[r].phase = "decide" => kind # "approve"
        /\ \A s \in Calls : s # r => call'[s] = call[s]
    BY <1>3 DEF findOne, start, TypeOK
  <2>2. approval[a].status # "NONE" /\ (kind = "approve" => u # approval[a].requestedBy)
    BY <1>3 DEF findOne, mayDecide
  <2> QED
    BY <1>3, <2>1, <2>2, OnlyRequests DEF findOne
<1>4. ASSUME NEW r \in Calls, createPaymentApproval(r) PROVE CheckerInv'
  <2>1. PICK a \in Approvals :
          /\ approval[a].status = "NONE"
          /\ approval' = [approval EXCEPT ![a] = newApproval(call[r].user, "PAYMENT_APPROVAL")]
    BY <1>4 DEF createPaymentApproval
  <2>2. PICK u \in Users : u = call[r].user
    BY <1>4, InFlight DEF createPaymentApproval, Submitting
  <2>3. \A s \in Calls : call'[s] \in Deciding => call'[s] = call[s]
    BY <1>4 DEF createPaymentApproval, TypeOK, Deciding, NoCall
  <2> QED
    BY <1>4, <2>1, <2>2, <2>3, CreatedIsChecked DEF createPaymentApproval
<1>5. ASSUME NEW r \in Calls, executeApproval(r) PROVE CheckerInv'
  BY <1>5, ExecuteChecks
<1>6. ASSUME NEW r \in Calls, decide(r) PROVE CheckerInv'
  BY <1>6, DecideChecks
<1>7. ASSUME NEW r \in Calls, abandon(r) PROVE CheckerInv'
  <2>1. \A s \in Calls : call'[s] \in Deciding => call'[s] = call[s]
    BY <1>7 DEF abandon, TypeOK, Deciding, NoCall
  <2> QED
    BY <1>7, <2>1, OnlyRequests DEF abandon
<1>8. CASE UNCHANGED vars
  BY <1>8, OnlyRequests DEF vars
<1> QED
  BY <1>1, <1>2, <1>3, <1>4, <1>5, <1>6, <1>7, <1>8 DEF Next

LEMMA Checked == Spec => []CheckerInv
<1>1. Spec => []TypeOK
  BY TypeCorrect
<1> QED
  BY <1>1, InitChecker, StepChecker, PTL DEF Spec

\* approve compares the requester with the approver when the request arrives;
\* nothing that overlaps with it, fails or stops lets a maker check or execute
\* their own request.
THEOREM MakersNeverCheck == Spec => []FourEyes
<1>1. CheckerInv => FourEyes
  BY DEF CheckerInv
<1> QED
  BY <1>1, Checked, PTL

\* approve marks after executing: an approval that is marked was carried out
\* by the user it is marked with, also when the process stops in between.
THEOREM MarkedIsExecuted == Spec => []ApprovedIsExecuted
<1>1. CheckerInv => ApprovedIsExecuted
  BY DEF CheckerInv
<1> QED
  BY <1>1, Checked, PTL
-----------------------------------------------------------------------------
(* Decisions on an entity whose requests do not overlap *)

\* Calls on such an entity come one after the other.
OneAtATime ==
  \A r, s \in Calls :
    call[r] # NoCall /\ call[s] # NoCall /\ call[r].entity = call[s].entity /\ call[r].entity \in Serial => r = s

\* What a request has read of its approval, or of those of its payment, is still so.
StillAsRead ==
  \A r \in Calls :
    /\ call[r] \in Deciding =>
         /\ call[r].entity = EntityOf[call[r].approval]
         /\ call[r].entity \in Serial =>
              /\ approval[call[r].approval].status = "PENDING"
              /\ ~(call[r].kind = "approve" /\ call[r].phase = "decide") => executed[call[r].approval] = 0
    /\ call[r] \in Submitting /\ call[r].entity \in Serial =>
         \A a \in submitted : EntityOf[a] = call[r].entity => approval[a].status # "PENDING"

\* submitForApproval finds what it has created.
SubmittedAreFound ==
  \A a \in submitted : approval[a].status # "NONE" /\ approval[a].action = "PAYMENT_APPROVAL"

Marking(r, a) ==
  call[r] \in Deciding /\ call[r].approval = a /\ call[r].kind = "approve" /\ call[r].phase = "decide"

\* What was executed is approved, or about to be.
ExecutedIsMarked ==
  \A a \in Approvals : EntityOf[a] \in Serial =>
    /\ executed[a] <= 1
    /\ executed[a] # 0 => approval[a].status = "APPROVED" \/ \E r \in Calls : Marking(r, a)

SerialInv == OneAtATime /\ StillAsRead /\ SubmittedAreFound /\ ExecutedIsMarked /\ OnePendingSubmission

LEMMA InitSerial == Init => SerialInv
  BY ApprovalsAssumption
  DEF Init, SerialInv, OneAtATime, StillAsRead, SubmittedAreFound, ExecutedIsMarked, OnePendingSubmission, NoCall,
      Deciding, Submitting

\* In the words of the properties: what is pending or withdrawn was not executed.
LEMMA SerialDecides == CheckerInv /\ SerialInv => DecidedOnce
<1> SUFFICES ASSUME CheckerInv, SerialInv PROVE DecidedOnce
  OBVIOUS
<1>1. ExecutedOnce
  BY DEF SerialInv, ExecutedIsMarked, ExecutedOnce
<1>2. RejectedHasNoEffect
  <2> SUFFICES ASSUME NEW a \in Approvals, EntityOf[a] \in Serial,
                      approval[a].status \in {"REJECTED", "CANCELLED"}, executed[a] # 0
               PROVE  FALSE
    BY DEF RejectedHasNoEffect
  <2>1. PICK r \in Calls : Marking(r, a)
    BY DEF SerialInv, ExecutedIsMarked
  <2> QED
    BY <2>1 DEF Marking, SerialInv, StillAsRead
<1> QED
  BY <1>1, <1>2 DEF DecidedOnce, SerialInv

LEMMA StartsSerially ==
  ASSUME TypeOK, SerialInv, NEW r \in Calls, NEW q \in Deciding \cup Submitting, start(r, q)
  PROVE  /\ OneAtATime'
         /\ call'[r] = q /\ \A s \in Calls \ {r} : call'[s] = call[s]
         /\ \A a \in Approvals, s \in Calls : Marking(s, a) => s # r
         /\ q.entity \in Serial => \A s \in Calls : call[s] # NoCall => call[s].entity # q.entity
<1>1. /\ call'[r] = q /\ \A s \in Calls \ {r} : call'[s] = call[s]
      /\ call[r] = NoCall
      /\ q.entity \in Serial => \A s \in Calls : call[s] # NoCall => call[s].entity # q.entity
  BY DEF start, Busy, TypeOK
<1>2. OneAtATime'
  BY <1>1 DEF SerialInv, OneAtATime
<1>3. \A a \in Approvals, s \in Calls : Marking(s, a) => s # r
  BY <1>1 DEF Marking, NoCall, Deciding
<1> QED
  BY <1>1, <1>2, <1>3

\* A request that ends leaves the others one after the other.
LEMMA EndsSerially ==
  ASSUME TypeOK, SerialInv, NEW r \in Calls, call' = [call EXCEPT ![r] = NoCall]
  PROVE  OneAtATime' /\ call'[r] = NoCall /\ \A s \in Calls \ {r} : call'[s] = call[s]
  BY DEF TypeOK, SerialInv, OneAtATime

LEMMA CreateSerial ==
  ASSUME TypeOK, SerialInv, NEW a \in Approvals, NEW u \in Users, NEW action \in Actions,
         create(a, u, action)
  PROVE  SerialInv'
<1>1. /\ newApproval(u, action).status = "PENDING" /\ approval[a].status = "NONE" /\ a \notin submitted
      /\ approval'[a] = newApproval(u, action) /\ \A b \in Approvals \ {a} : approval'[b] = approval[b]
      /\ executed' = executed /\ call' = call /\ submitted' = submitted
  BY DEF create, newApproval, TypeOK, SerialInv, SubmittedAreFound
<1>2. OneAtATime'
  BY <1>1 DEF SerialInv, OneAtATime
<1>3. StillAsRead'
  <2> SUFFICES ASSUME NEW r \in Calls
      PROVE  /\ call[r] \in Deciding =>
                  /\ call[r].entity = EntityOf[call[r].approval]
                  /\ call[r].entity \in Serial =>
                       /\ approval'[call[r].approval].status = "PENDING"
                       /\ ~(call[r].kind = "approve" /\ call[r].phase = "decide") => executed[call[r].approval] = 0
             /\ call[r] \in Submitting /\ call[r].entity \in Serial =>
                  \A b \in submitted : EntityOf[b] = call[r].entity => approval'[b].status # "PENDING"
    BY <1>1 DEF StillAsRead
  <2>1. ASSUME call[r] \in Deciding, call[r].entity \in Serial PROVE approval'[call[r].approval].status = "PENDING"
    <3>1. call[r].approval \in Approvals /\ approval[call[r].approval].status = "PENDING"
      BY <2>1 DEF SerialInv, StillAsRead, Deciding
    <3> QED
      BY <3>1, <1>1
  <2>2. ASSUME call[r] \in Submitting, call[r].entity \in Serial, NEW b \in submitted, EntityOf[b] = call[r].entity
        PROVE  approval'[b].status # "PENDING"
    BY <2>2, <1>1 DEF SerialInv, StillAsRead, TypeOK
  <2> QED
    BY <2>1, <2>2 DEF SerialInv, StillAsRead
<1>4. ExecutedIsMarked'
  <2>1. \A s \in Calls, b \in Approvals : Marking(s, b)' <=> Marking(s, b)
    BY <1>1 DEF Marking
  <2> QED
    BY <1>1, <2>1 DEF SerialInv, ExecutedIsMarked
<1>5. OnePendingSubmission'
  BY <1>1 DEF SerialInv, OnePendingSubmission, TypeOK
<1>6. SubmittedAreFound'
  BY <1>1 DEF SerialInv, SubmittedAreFound, TypeOK
<1> QED
  BY <1>2, <1>3, <1>4, <1>5, <1>6 DEF SerialInv

LEMMA StartSerial ==
  ASSUME TypeOK, SerialInv, NEW r \in Calls, NEW q \in Deciding \cup Submitting, start(r, q),
         UNCHANGED <<approval, executed, submitted>>,
         q \in Deciding => /\ q.entity = EntityOf[q.approval] /\ q.approval \in Approvals
                           /\ ~(q.kind = "approve" /\ q.phase = "decide")
                           /\ approval[q.approval].status = "PENDING",
         q \in Submitting => \A a \in submitted : EntityOf[a] = q.entity => approval[a].status # "PENDING"
  PROVE  SerialInv'
<1>1. /\ OneAtATime'
      /\ call'[r] = q /\ \A s \in Calls \ {r} : call'[s] = call[s]
      /\ \A a \in Approvals, s \in Calls : Marking(s, a) => s # r
      /\ q.entity \in Serial => \A s \in Calls : call[s] # NoCall => call[s].entity # q.entity
  BY StartsSerially
<1>2. ASSUME q \in Deciding, q.entity \in Serial PROVE executed[q.approval] = 0
  <2>1. \A s \in Calls : ~Marking(s, q.approval)
    <3> SUFFICES ASSUME NEW s \in Calls, Marking(s, q.approval) PROVE FALSE
      OBVIOUS
    <3>1. call[s] # NoCall /\ call[s].entity = EntityOf[q.approval]
      BY DEF Marking, SerialInv, StillAsRead, NoCall, Deciding
    <3> QED
      BY <1>1, <1>2, <3>1
  <2> QED
    BY <1>2, <2>1 DEF SerialInv, ExecutedIsMarked
<1>3. StillAsRead'
  <2>1. ASSUME NEW s \in Calls \ {r}
        PROVE  call'[s] = call[s]
    BY <1>1
  <2> QED
    BY <1>1, <1>2 DEF SerialInv, StillAsRead, Deciding, Submitting
<1>4. ExecutedIsMarked'
  <2>1. \A s \in Calls, b \in Approvals : Marking(s, b) => Marking(s, b)'
    BY <1>1 DEF Marking
  <2> QED
    BY <2>1 DEF SerialInv, ExecutedIsMarked
<1>5. OnePendingSubmission'
  BY DEF SerialInv, OnePendingSubmission
<1>6. SubmittedAreFound'
  BY DEF SerialInv, SubmittedAreFound
<1> QED
  BY <1>1, <1>3, <1>4, <1>5, <1>6 DEF SerialInv

LEMMA SubmittedSerial ==
  ASSUME TypeOK, SerialInv, NEW r \in Calls, createPaymentApproval(r)
  PROVE  SerialInv'
<1>1. call[r] \in Submitting
  BY InFlight DEF createPaymentApproval
<1>2. PICK a \in Approvals :
        /\ EntityOf[a] = call[r].entity /\ approval[a].status = "NONE"
        /\ approval' = [approval EXCEPT ![a] = newApproval(call[r].user, "PAYMENT_APPROVAL")]
        /\ submitted' = submitted \cup {a}
  BY DEF createPaymentApproval
<1>3. /\ approval'[a].status = "PENDING" /\ approval'[a].action = "PAYMENT_APPROVAL"
      /\ submitted \subseteq Approvals /\ a \notin submitted
      /\ \A b \in Approvals \ {a} : approval'[b] = approval[b]
      /\ executed' = executed
  BY <1>2 DEF createPaymentApproval, newApproval, TypeOK, SerialInv, SubmittedAreFound
<1>4. OneAtATime' /\ call'[r] = NoCall /\ \A s \in Calls \ {r} : call'[s] = call[s]
  BY EndsSerially DEF createPaymentApproval
<1>5. NoCall \notin Deciding /\ NoCall \notin Submitting /\ call[r] # NoCall
  BY <1>1 DEF NoCall, Deciding, Submitting
<1>6. StillAsRead'
  <2> SUFFICES ASSUME NEW s \in Calls \ {r}
      PROVE  /\ call[s] \in Deciding =>
                  /\ call[s].entity = EntityOf[call[s].approval]
                  /\ call[s].entity \in Serial =>
                       /\ approval'[call[s].approval].status = "PENDING"
                       /\ ~(call[s].kind = "approve" /\ call[s].phase = "decide") => executed[call[s].approval] = 0
             /\ call[s] \in Submitting /\ call[s].entity \in Serial =>
                  \A b \in submitted' : EntityOf[b] = call[s].entity => approval'[b].status # "PENDING"
    BY <1>3, <1>4, <1>5 DEF StillAsRead
  <2>1. ASSUME call[s] \in Deciding, call[s].entity \in Serial PROVE approval'[call[s].approval].status = "PENDING"
    <3>1. call[s].approval \in Approvals /\ approval[call[s].approval].status = "PENDING"
      BY <2>1 DEF SerialInv, StillAsRead, Deciding
    <3> QED
      BY <3>1, <1>3
  <2>2. ASSUME call[s] \in Submitting, call[s].entity \in Serial, NEW b \in submitted', EntityOf[b] = call[s].entity
        PROVE  approval'[b].status # "PENDING"
    <3>1. call[s].entity # call[r].entity
      BY <2>2, <1>5 DEF SerialInv, OneAtATime
    <3>2. b # a
      BY <3>1, <2>2, <1>2
    <3>3. b \in submitted
      BY <2>2, <3>2, <1>2
    <3> QED
      BY <2>2, <3>2, <3>3, <1>3 DEF SerialInv, StillAsRead
  <2> QED
    BY <2>1, <2>2 DEF SerialInv, StillAsRead
<1>7. ExecutedIsMarked'
  <2>1. \A s \in Calls, b \in Approvals : Marking(s, b) => Marking(s, b)'
    BY <1>1, <1>4 DEF Marking, Deciding, Submitting
  <2> QED
    BY <1>2, <1>3, <2>1 DEF SerialInv, ExecutedIsMarked
<1>8. OnePendingSubmission'
  <2>1. EntityOf[a] \in Serial => \A b \in submitted : EntityOf[b] = EntityOf[a] => approval[b].status # "PENDING"
    BY <1>1, <1>2 DEF SerialInv, StillAsRead
  <2> QED
    BY <1>2, <1>3, <2>1 DEF SerialInv, OnePendingSubmission
<1>9. SubmittedAreFound'
  BY <1>2, <1>3 DEF SerialInv, SubmittedAreFound
<1> QED
  BY <1>4, <1>6, <1>7, <1>8, <1>9 DEF SerialInv

LEMMA ExecuteSerial ==
  ASSUME TypeOK, CheckerInv, SerialInv, NEW r \in Calls, executeApproval(r)
  PROVE  SerialInv'
<1>1. call[r] \in Deciding /\ call[r].phase = "execute"
  BY InFlight DEF executeApproval
<1>2. PICK a \in Approvals : a = call[r].approval
  BY <1>1 DEF Deciding
<1>3. /\ approval' = approval /\ submitted' = submitted
      /\ executed' = [executed EXCEPT ![a] = @ + 1]
      /\ call' = [call EXCEPT ![r].phase = "decide"]
  BY <1>2 DEF executeApproval
<1>4. /\ call'[r] \in Deciding /\ call'[r].phase = "decide" /\ call'[r].approval = a
      /\ call'[r].entity = call[r].entity /\ call'[r].kind = "approve"
      /\ \A s \in Calls \ {r} : call'[s] = call[s]
  <2>1. call[r].kind = "approve"
    BY <1>1 DEF CheckerInv, ApproversAreCheckers
  <2> QED
    BY <1>1, <1>2, <1>3, <2>1 DEF TypeOK, Deciding
<1>5. /\ executed[a] \in Nat /\ executed'[a] = executed[a] + 1
      /\ \A b \in Approvals \ {a} : executed'[b] = executed[b]
  BY <1>3 DEF TypeOK
<1>6. /\ call[r] # NoCall /\ call'[r] # NoCall
      /\ call[r].entity = EntityOf[a]
      /\ EntityOf[a] \in Serial => approval[a].status = "PENDING" /\ executed[a] = 0
  BY <1>1, <1>2, <1>4 DEF SerialInv, StillAsRead, NoCall, Deciding
<1>7. OneAtATime'
  BY <1>4, <1>6 DEF SerialInv, OneAtATime
<1>8. StillAsRead'
  <2> SUFFICES ASSUME NEW s \in Calls
      PROVE  /\ call'[s] \in Deciding =>
                  /\ call'[s].entity = EntityOf[call'[s].approval]
                  /\ call'[s].entity \in Serial =>
                       /\ approval[call'[s].approval].status = "PENDING"
                       /\ ~(call'[s].kind = "approve" /\ call'[s].phase = "decide") => executed'[call'[s].approval] = 0
             /\ call'[s] \in Submitting /\ call'[s].entity \in Serial =>
                  \A b \in submitted : EntityOf[b] = call'[s].entity => approval[b].status # "PENDING"
    BY <1>3 DEF StillAsRead
  <2>1. CASE s = r
    BY <2>1, <1>4, <1>6 DEF Deciding, Submitting
  <2>2. CASE s # r
    <3>1. ASSUME call[s] \in Deciding, call[s].entity \in Serial,
                 ~(call[s].kind = "approve" /\ call[s].phase = "decide")
          PROVE  executed'[call[s].approval] = 0
      <4>1. /\ call[s].approval \in Approvals /\ call[s] # NoCall /\ call[s].entity = EntityOf[call[s].approval]
            /\ executed[call[s].approval] = 0
        BY <3>1 DEF SerialInv, StillAsRead, Deciding, NoCall
      <4>2. call[s].approval # a
        BY <2>2, <3>1, <4>1, <1>6 DEF SerialInv, OneAtATime
      <4> QED
        BY <4>1, <4>2, <1>5
    <3> QED
      BY <2>2, <3>1, <1>4 DEF SerialInv, StillAsRead
  <2> QED
    BY <2>1, <2>2
<1>9. ExecutedIsMarked'
  <2>1. /\ Marking(r, a)'
        /\ \A s \in Calls, b \in Approvals : Marking(s, b) => Marking(s, b)'
    BY <1>1, <1>4 DEF Marking
  <2> QED
    BY <1>3, <1>5, <1>6, <2>1 DEF SerialInv, ExecutedIsMarked
<1>10. OnePendingSubmission'
  BY <1>3 DEF SerialInv, OnePendingSubmission
<1>11. SubmittedAreFound'
  BY <1>3 DEF SerialInv, SubmittedAreFound
<1> QED
  BY <1>7, <1>8, <1>9, <1>10, <1>11 DEF SerialInv

LEMMA DecideSerial ==
  ASSUME TypeOK, SerialInv, NEW r \in Calls, decide(r)
  PROVE  SerialInv'
<1>1. call[r] \in Deciding /\ call[r].phase = "decide"
  BY InFlight DEF decide
<1>2. PICK a \in Approvals, u \in Users, kind \in {"approve", "reject", "cancel"} :
        a = call[r].approval /\ u = call[r].user /\ kind = call[r].kind
  BY <1>1 DEF Deciding
<1>3. PICK status \in {"APPROVED", "REJECTED", "CANCELLED"} :
        status = decided(approval[a], kind, u).status /\ (kind = "approve" => status = "APPROVED")
  <2>1. approval[a] \in ApprovalRequest
    BY DEF TypeOK
  <2> QED
    BY <2>1, DecidedIsTyped
<1>4. /\ approval'[a].status = status /\ approval'[a].action = approval[a].action
      /\ submitted' = submitted /\ submitted \subseteq Approvals
      /\ \A b \in Approvals \ {a} : approval'[b] = approval[b]
      /\ executed' = executed
  BY <1>2, <1>3, DecidedIsTyped DEF decide, TypeOK
<1>5. OneAtATime' /\ call'[r] = NoCall /\ \A s \in Calls \ {r} : call'[s] = call[s]
  BY EndsSerially DEF decide
<1>6. /\ NoCall \notin Deciding /\ NoCall \notin Submitting /\ call[r] # NoCall
      /\ call[r].entity = EntityOf[a]
      /\ EntityOf[a] \in Serial => kind = "approve" \/ executed[a] = 0
  BY <1>1, <1>2 DEF NoCall, Deciding, Submitting, SerialInv, StillAsRead
<1>7. StillAsRead'
  <2> SUFFICES ASSUME NEW s \in Calls \ {r}
      PROVE  /\ call[s] \in Deciding =>
                  /\ call[s].entity = EntityOf[call[s].approval]
                  /\ call[s].entity \in Serial =>
                       /\ approval'[call[s].approval].status = "PENDING"
                       /\ ~(call[s].kind = "approve" /\ call[s].phase = "decide") => executed[call[s].approval] = 0
             /\ call[s] \in Submitting /\ call[s].entity \in Serial =>
                  \A b \in submitted : EntityOf[b] = call[s].entity => approval'[b].status # "PENDING"
    BY <1>4, <1>5, <1>6 DEF StillAsRead
  <2>1. ASSUME call[s] \in Deciding, call[s].entity \in Serial PROVE approval'[call[s].approval].status = "PENDING"
    <3>1. /\ call[s].approval \in Approvals /\ approval[call[s].approval].status = "PENDING"
          /\ call[s] # NoCall /\ call[s].entity = EntityOf[call[s].approval]
      BY <2>1, <1>6 DEF SerialInv, StillAsRead, Deciding
    <3>2. call[s].approval # a
      BY <2>1, <3>1, <1>6 DEF SerialInv, OneAtATime
    <3> QED
      BY <3>1, <3>2, <1>4
  <2>2. ASSUME call[s] \in Submitting, call[s].entity \in Serial, NEW b \in submitted, EntityOf[b] = call[s].entity
        PROVE  approval'[b].status # "PENDING"
    BY <2>2, <1>3, <1>4 DEF SerialInv, StillAsRead
  <2> QED
    BY <2>1, <2>2 DEF SerialInv, StillAsRead
<1>8. ExecutedIsMarked'
  <2>1. \A s \in Calls, b \in Approvals \ {a} : Marking(s, b) => Marking(s, b)'
    BY <1>2, <1>5 DEF Marking
  <2>2. ASSUME NEW b \in Approvals, EntityOf[b] \in Serial, b # a, executed[b] # 0
        PROVE  approval'[b].status = "APPROVED" \/ \E s \in Calls : Marking(s, b)'
    BY <2>1, <2>2, <1>4 DEF SerialInv, ExecutedIsMarked
  <2>3. ASSUME EntityOf[a] \in Serial, executed[a] # 0 PROVE approval'[a].status = "APPROVED"
    BY <2>3, <1>3, <1>4, <1>6
  <2> QED
    BY <2>2, <2>3, <1>4 DEF SerialInv, ExecutedIsMarked
<1>9. OnePendingSubmission'
  BY <1>3, <1>4 DEF SerialInv, OnePendingSubmission
<1>10. SubmittedAreFound'
  BY <1>4 DEF SerialInv, SubmittedAreFound
<1> QED
  BY <1>5, <1>7, <1>8, <1>9, <1>10 DEF SerialInv

LEMMA AbandonSerial ==
  ASSUME TypeOK, SerialInv, NEW r \in Calls, abandon(r)
  PROVE  SerialInv'
<1>1. OneAtATime' /\ call'[r] = NoCall /\ \A s \in Calls \ {r} : call'[s] = call[s]
  BY EndsSerially DEF abandon
<1>2. /\ NoCall \notin Deciding /\ NoCall \notin Submitting
      /\ approval' = approval /\ executed' = executed /\ submitted' = submitted
  BY DEF NoCall, Deciding, Submitting, abandon
<1>3. StillAsRead'
  BY <1>1, <1>2 DEF SerialInv, StillAsRead
<1>4. ExecutedIsMarked'
  <2>1. ASSUME NEW a \in Approvals, EntityOf[a] \in Serial, NEW s \in Calls, Marking(s, a)
        PROVE  Marking(s, a)'
    <3>1. s # r
      BY <2>1 DEF Marking, abandon, SerialInv, StillAsRead
    <3> QED
      BY <2>1, <3>1, <1>1 DEF Marking
  <2> QED
    BY <1>2, <2>1 DEF SerialInv, ExecutedIsMarked
<1>5. OnePendingSubmission'
  BY <1>2 DEF SerialInv, OnePendingSubmission
<1>6. SubmittedAreFound'
  BY <1>2 DEF SerialInv, SubmittedAreFound
<1> QED
  BY <1>1, <1>3, <1>4, <1>5, <1>6 DEF SerialInv

LEMMA StepSerial == TypeOK /\ CheckerInv /\ SerialInv /\ [Next]_vars => SerialInv'
<1> SUFFICES ASSUME TypeOK, CheckerInv, SerialInv, [Next]_vars PROVE SerialInv'
  OBVIOUS
<1>1. ASSUME NEW a \in Approvals, NEW u \in Users, NEW action \in Actions,
             create(a, u, action)
      PROVE  SerialInv'
  BY <1>1, CreateSerial
<1>2. ASSUME NEW r \in Calls, NEW u \in Users, NEW e \in Payments, submitForApproval(r, e, u)
      PROVE  SerialInv'
  <2> DEFINE q == [phase |-> "create", entity |-> e, user |-> u]
  <2>1. q \in Submitting /\ q \notin Deciding /\ q.entity = e
    BY DEF Submitting, Deciding
  <2>2. start(r, q) /\ UNCHANGED <<approval, executed, submitted>>
    BY <1>2 DEF submitForApproval
  <2>3. \A a \in submitted : EntityOf[a] = q.entity => approval[a].status # "PENDING"
    BY <1>2, <2>1 DEF submitForApproval, pendingApprovals, SerialInv, SubmittedAreFound, TypeOK
  <2> HIDE DEF q
  <2> QED
    BY <2>1, <2>2, <2>3, StartSerial
<1>3. ASSUME NEW r \in Calls, NEW u \in Users, NEW a \in Approvals,
             NEW kind \in {"approve", "reject", "cancel"}, findOne(r, a, kind, u)
      PROVE  SerialInv'
  <2> DEFINE q == [phase |-> IF kind = "approve" THEN "execute" ELSE "decide",
                   kind |-> kind, approval |-> a, entity |-> EntityOf[a], user |-> u]
  <2>1. /\ q \in Deciding /\ q \notin Submitting /\ q.entity = EntityOf[a] /\ q.approval = a
        /\ ~(q.kind = "approve" /\ q.phase = "decide")
    BY DEF Submitting, Deciding, Entities
  <2>2. start(r, q) /\ UNCHANGED <<approval, executed, submitted>> /\ approval[a].status = "PENDING"
    BY <1>3 DEF findOne, mayDecide
  <2> HIDE DEF q
  <2> QED
    BY <2>1, <2>2, StartSerial
<1>4. ASSUME NEW r \in Calls, createPaymentApproval(r) PROVE SerialInv'
  BY <1>4, SubmittedSerial
<1>5. ASSUME NEW r \in Calls, executeApproval(r) PROVE SerialInv'
  BY <1>5, ExecuteSerial
<1>6. ASSUME NEW r \in Calls, decide(r) PROVE SerialInv'
  BY <1>6, DecideSerial
<1>7. ASSUME NEW r \in Calls, abandon(r) PROVE SerialInv'
  BY <1>7, AbandonSerial
<1>8. CASE UNCHANGED vars
  BY <1>8 DEF vars, SerialInv, OneAtATime, StillAsRead, SubmittedAreFound, ExecutedIsMarked, Marking,
              OnePendingSubmission
<1> QED
  BY <1>1, <1>2, <1>3, <1>4, <1>5, <1>6, <1>7, <1>8 DEF Next

\* On an entity whose requests come one after the other and are not cut short, an
\* approval is decided once, whether submitForApproval or POST /approvals created it:
\* executed at most once, never if it was rejected or withdrawn.  Repeated submissions
\* of a payment, and only they, wait for one decision.
THEOREM DecisionsAreFinal == Spec => []DecidedOnce
<1>1. Spec => []TypeOK
  BY TypeCorrect
<1>2. Spec => []CheckerInv
  BY Checked
<1> QED
  BY <1>1, <1>2, InitSerial, StepSerial, SerialDecides, PTL DEF Spec
-----------------------------------------------------------------------------
(* Counterparties and their compliance checks                                *)

ComplianceState == {Idle} \cup Running \cup Approving

Adverse(c) == c.result \in {"MATCH", "FAILED", "REFERRED"}

\* A result that fails, and that nobody has decided on, calls for a review.
FailureIsReviewed(c) ==
  c.decision = "none" /\ (c.status = "FAILED" \/ c.result = "FAILED") => c.reviewRequired

\* What a provider has found: of the subject, its verification or all its screenings, with a
\* review for what is adverse, and the same for every check of one type.
FindingsOf(s, found) ==
  /\ found = <<>> \/ TypesIn(found) \in {{verificationOf(s)}, Screenings}
  /\ \A k \in DOMAIN found :
       /\ found[k].of = s
       /\ found[k].reviewRequired <=> Adverse(found[k])
       /\ FailureIsReviewed(found[k])
       /\ \A j \in DOMAIN found : found[j].type = found[k].type => (Adverse(found[j]) <=> Adverse(found[k]))

\* Where a run stands: what is left to run, found and stored, and that the first check it has
\* stored is there.
RunAt(q) ==
  /\ Len(q.runs) <= 2
  /\ q.phase = "query" => q.runs # <<>> /\ q.found = <<>>
  /\ q.phase = "persist" => q.stored < Len(q.found)
  /\ q.phase \in {"flags", "after"} => q.stored = Len(q.found) /\ q.found # <<>>
  /\ q.stored <= Len(q.found)
  /\ q.stored > 0 => q.first \in DOMAIN checks
  /\ q.stored = 0 => q.first = 0
  /\ FindingsOf(q.of, q.found)

RunsInv == \A r \in Processes : req[r] \in Running => RunAt(req[r])

ChecksInv == \A k \in DOMAIN checks : FailureIsReviewed(checks[k])

\* The bound: what is stored and what is still to be stored.
SumReserved(q) == MapThenSumSet(LAMBDA r : Reserved(q[r]), Requests)
Room == Len(checks) + SumReserved(req) <= MaxChecks

ReflectInv == ComplianceTypeOK /\ RunsInv /\ ChecksInv /\ Room

\* One request at a time: what "overlap" lifts.
Alone == \A a, b \in Processes : req[a] # Idle /\ req[b] # Idle => a = b

\* A run that has stored a check of a subject has not yet written the flags of its type.
Pending(q, s, type) ==
  /\ q \in Running /\ q.phase \in {"persist", "flags"} /\ q.of = s
  /\ \E j \in 1..q.stored : q.found[j].type = type
Told(s, type) == \A k \in latestOf(s, type) : type \in flags[s] <=> Adverse(checks[k])
StoredLatest(q, s, type) ==
  \A k \in latestOf(s, type) :
    \E j \in 1..q.stored : q.found[j].type = type /\ (Adverse(checks[k]) <=> Adverse(q.found[j]))

FlagsInv ==
  Without({"overlap", "crash", "kybStatus"}) =>
    /\ Alone
    /\ \A s \in Subjects : \A type \in Verifications \cup Screenings :
         /\ Told(s, type) \/ \E r \in Processes : Pending(req[r], s, type)
         /\ \A r \in Processes : Pending(req[r], s, type) => StoredLatest(req[r], s, type)

\* A review status of CLEAR goes with the flags of the last verification or screening.
SharedInv ==
  Without({"kybStatus"}) =>
    \A s \in Subjects : shared[s].review = "CLEAR" =>
      \E types \in {{verificationOf(s)}, Screenings} : types \cap flags[s] = {}

\* Of a company without owners: every check is its own, and an approval that is about to be
\* written was read from the checks that are still there.
OwnInv ==
  Without({"overlap", "owners", "override"}) /\ owners = {} =>
    /\ Alone
    /\ \A k \in DOMAIN checks : checks[k].of = Company
    /\ \A r \in Processes : req[r] \in Running => req[r].of = Company
    /\ \A r \in Processes : at(r, "approving") => assertComplianceReadyForApproval
-----------------------------------------------------------------------------
(* What a process is *)

LEMMA ComplianceByPhase ==
  ASSUME NEW s \in ComplianceState
  PROVE  /\ s.phase = "idle" <=> s = Idle
         /\ s.phase \in {"query", "persist", "flags", "after"} <=> s \in Running
         /\ s.phase = "approving" <=> s \in Approving
  BY DEF ComplianceState, Idle, Running, Approving

LEMMA BecomeTyped ==
  ASSUME req \in [Processes -> ComplianceState], NEW r \in Processes, NEW s \in ComplianceState, become(r, s)
  PROVE  /\ req' \in [Processes -> ComplianceState]
         /\ req'[r] = s /\ \A q \in Processes \ {r} : req'[q] = req[q]
  BY DEF become

LEMMA RunningIsTyped ==
  ASSUME NEW phase \in {"query", "persist", "flags", "after"}, NEW s \in Subjects, NEW runs \in Seq(Runs),
         NEW found \in Seq(Check), NEW n \in Nat, NEW first \in Nat
  PROVE  /\ running(phase, s, runs, found, n, first) \in Running
         /\ running(phase, s, runs, found, n, first).phase = phase
         /\ running(phase, s, runs, found, n, first).of = s
         /\ running(phase, s, runs, found, n, first).runs = runs
         /\ running(phase, s, runs, found, n, first).found = found
         /\ running(phase, s, runs, found, n, first).stored = n
         /\ running(phase, s, runs, found, n, first).first = first
  BY DEF running, Running
-----------------------------------------------------------------------------
(* The providers *)

LEMMA VerifyFinds ==
  ASSUME NEW s \in Subjects, profile \in Finding
  PROVE  <<verify(s)>> \in Seq(Check) /\ FindingsOf(s, <<verify(s)>>) /\ Len(<<verify(s)>>) = 1
<1>1. profileOf(s).verify \in {"VERIFIED", "REFERRED", "FAILED"}
  BY ComplianceAssumption DEF profileOf, Finding, Subjects
<1>2. verificationOf(s) \in Verifications
  BY DEF verificationOf, Verifications
<1>3. verify(s) \in Check
  BY <1>1, <1>2 DEF verify, newCheck, Check
<1>4. /\ verify(s).of = s
      /\ verify(s).reviewRequired <=> Adverse(verify(s))
      /\ FailureIsReviewed(verify(s))
  BY <1>1, <1>2 DEF verify, newCheck, Adverse, FailureIsReviewed
<1> DEFINE f == <<verify(s)>>
<1>5. DOMAIN f = {1} /\ f[1] = verify(s) /\ Len(f) = 1
  OBVIOUS
<1>6. f \in Seq(Check)
  BY <1>3
<1> HIDE DEF f
<1>7. FindingsOf(s, f)
  <2>1. TypesIn(f) = {verify(s).type} /\ verify(s).type = verificationOf(s)
    BY <1>5 DEF TypesIn, verify, newCheck
  <2> QED
    BY <1>4, <1>5, <2>1 DEF FindingsOf
<1> QED
  BY <1>5, <1>6, <1>7 DEF f

LEMMA ScreenFinds ==
  ASSUME NEW s \in Subjects
  PROVE  screen(s) \in Seq(Check) /\ FindingsOf(s, screen(s)) /\ Len(screen(s)) = Len(ScreeningTypes)
<1>1. \A type \in Screenings :
        LET c == splitScreeningResult(s, type)
        IN /\ c \in Check /\ c.of = s /\ c.type = type
           /\ c.reviewRequired <=> Adverse(c)
           /\ FailureIsReviewed(c)
           /\ Adverse(c) <=> profileOf(s).match = type
  BY DEF splitScreeningResult, newCheck, Check, Adverse, FailureIsReviewed
<1>2. ScreeningTypes \in Seq(Screenings)
  BY ComplianceAssumption DEF Screenings
<1>3. /\ DOMAIN screen(s) = DOMAIN ScreeningTypes
      /\ \A k \in DOMAIN ScreeningTypes : /\ ScreeningTypes[k] \in Screenings
                                          /\ screen(s)[k] = splitScreeningResult(s, ScreeningTypes[k])
  BY <1>2 DEF screen
<1>4. screen(s) \in Seq(Check) /\ Len(screen(s)) = Len(ScreeningTypes)
  BY <1>1, <1>2, <1>3 DEF screen
<1>5. FindingsOf(s, screen(s))
  <2>1. \A k \in DOMAIN ScreeningTypes : screen(s)[k].type = ScreeningTypes[k]
    BY <1>1, <1>3
  <2>2. TypesIn(screen(s)) = Screenings
    BY <1>3, <2>1 DEF TypesIn, Screenings
  <2> QED
    BY <1>1, <1>3, <2>2 DEF FindingsOf
<1> QED
  BY <1>4, <1>5
-----------------------------------------------------------------------------
(* The bound on the checks: what the runs under way have still to store       *)

LEMMA NeedsType ==
  ASSUME NEW op
  PROVE  Needs(op) \in Nat
<1>1. Len(ScreeningTypes) \in Nat
  BY ComplianceAssumption
<1> QED
  BY <1>1 DEF Needs

NeedOf(runs) == [k \in DOMAIN runs |-> Needs(runs[k])]

LEMMA NeedsAllIsTotal ==
  ASSUME NEW runs, IsFiniteSet(DOMAIN runs)
  PROVE  NeedsAll(runs) = Total(NeedOf(runs), DOMAIN runs)
<1> DEFINE K == DOMAIN runs
           f == NeedOf(runs)
           Q(g) == g = [s \in SUBSET K |-> IF s = {} THEN 0 ELSE Needs(runs[Pick(s)]) + g[s \ {Pick(s)}]]
<1>1. \A s \in SUBSET K : s # {} => f[Pick(s)] = Needs(runs[Pick(s)])
  BY PickIsMember DEF NeedOf
<1>2. NeedsAll(runs) = (CHOOSE g : Q(g))[K]
  BY DEF NeedsAll, MapThenSumSet, MapThenFoldSet, Pick
<1> HIDE DEF f, K
<1>3. \A g : Q(g) <=> Tabulates(g, f, K)
  BY <1>1 DEF Tabulates
<1>4. IsFiniteSet(K)
  BY DEF K
<1>5. Tabulates(Table(f, K), f, K)
  BY <1>4, TableExists
<1>6. Q(CHOOSE g : Q(g))
  <2>1. Q(Table(f, K))
    BY <1>3, <1>5
  <2> HIDE DEF Q
  <2> QED
    BY <2>1
<1>7. Tabulates(CHOOSE g : Q(g), f, K)
  BY <1>3, <1>6
<1> HIDE DEF Q
<1>8. (CHOOSE g : Q(g))[K] = Table(f, K)[K]
  BY <1>4, <1>5, <1>7, TableUnique
<1> QED
  BY <1>2, <1>4, <1>8, TotalIsTabulated DEF f, K

LEMMA NeedsOfFew ==
  ASSUME NEW runs \in Seq(Runs), Len(runs) <= 2
  PROVE  /\ NeedsAll(runs) \in Nat
         /\ Len(runs) = 0 => NeedsAll(runs) = 0
         /\ Len(runs) = 1 => NeedsAll(runs) = Needs(runs[1])
         /\ Len(runs) = 2 => NeedsAll(runs) = Needs(runs[1]) + Needs(runs[2])
<1> DEFINE f == NeedOf(runs)
<1>1. DOMAIN runs = 1..Len(runs) /\ Len(runs) \in {0, 1, 2}
  <2>1. DOMAIN runs = 1..Len(runs) /\ Len(runs) \in Nat
    BY LenProperties
  <2> QED
    BY <2>1
<1>2. IsFiniteSet(1..Len(runs)) /\ IsFiniteSet({}) /\ IsFiniteSet({1})
  <2>1. 1 \in Int /\ Len(runs) \in Int
    BY <1>1
  <2>2. IsFiniteSet(1..Len(runs))
    BY <2>1, FS_Interval
  <2>3. IsFiniteSet({}) /\ IsFiniteSet({1})
    BY FS_EmptySet, FS_Singleton
  <2> QED
    BY <2>2, <2>3
<1>3. NeedsAll(runs) = Total(f, 1..Len(runs))
  BY <1>1, <1>2, NeedsAllIsTotal
<1>4. \A k \in 1..Len(runs) : f[k] = Needs(runs[k]) /\ f[k] \in Nat
  BY <1>1, NeedsType DEF NeedOf
<1>5. Total(f, {}) = 0
  BY TotalOfNone
<1> HIDE DEF f
<1>6. CASE Len(runs) = 0
  <2>1. 1..Len(runs) = {}
    BY <1>6
  <2> QED
    BY <1>3, <1>5, <2>1, <1>6
<1>7. CASE Len(runs) = 1
  <2>1. 1..Len(runs) = {1} /\ {1} = {} \cup {1}
    BY <1>7
  <2>2. Total(f, {} \cup {1}) = Total(f, {}) + f[1]
    BY <1>2, <1>4, <1>7, TotalAdd
  <2> QED
    BY <1>3, <1>4, <1>5, <1>7, <2>1, <2>2
<1>8. CASE Len(runs) = 2
  <2>1. 1..Len(runs) = {1, 2} /\ {1} = {} \cup {1} /\ {1, 2} = {1} \cup {2}
    BY <1>8
  <2>2. Total(f, {} \cup {1}) = Total(f, {}) + f[1]
    <3>1. \A x \in {} \cup {1} : f[x] \in Nat
      BY <1>4, <1>8
    <3> QED
      BY <1>2, <3>1, TotalAdd
  <2>3. Total(f, {1} \cup {2}) = Total(f, {1}) + f[2]
    <3>1. \A x \in {1} \cup {2} : f[x] \in Nat
      BY <1>4, <1>8
    <3>2. 2 \notin {1}
      OBVIOUS
    <3> QED
      BY <1>2, <3>1, <3>2, TotalAdd
  <2> QED
    BY <1>3, <1>4, <1>5, <1>8, <2>1, <2>2, <2>3
<1> QED
  BY <1>1, <1>6, <1>7, <1>8

LEMMA NeedsOfTail ==
  ASSUME NEW runs \in Seq(Runs), Len(runs) <= 2, runs # <<>>
  PROVE  /\ Head(runs) \in Runs /\ Tail(runs) \in Seq(Runs) /\ Len(Tail(runs)) <= 1
         /\ NeedsAll(Tail(runs)) \in Nat
         /\ NeedsAll(runs) = Needs(Head(runs)) + NeedsAll(Tail(runs))
<1>1. Len(runs) \in {1, 2} /\ Head(runs) = runs[1] /\ Head(runs) \in Runs
  <2>1. Len(runs) \in Nat /\ Len(runs) # 0
    BY LenProperties, EmptySeq
  <2>2. 1 \in 1..Len(runs)
    BY <2>1
  <2>3. Len(runs) \in {1, 2}
    <3>1. \A n \in Nat : n # 0 /\ n <= 2 => n \in {1, 2}
      OBVIOUS
    <3> QED
      BY <2>1, <3>1
  <2>4. Head(runs) \in Runs
    BY HeadTailProperties
  <2>5. Head(runs) = runs[1]
    OBVIOUS
  <2> QED
    BY <2>3, <2>4, <2>5
<1>2. /\ Tail(runs) \in Seq(Runs) /\ Len(Tail(runs)) = Len(runs) - 1
      /\ \A k \in 1..(Len(runs) - 1) : Tail(runs)[k] = runs[k + 1]
  <2>1. Len(runs) \in Nat
    BY LenProperties
  <2> QED
    BY <2>1, HeadTailProperties
<1> DEFINE t == Tail(runs)
<1>few. t \in Seq(Runs) /\ Len(t) <= 2
  BY <1>1, <1>2
<1>3. CASE Len(runs) = 1
  <2>1. Len(t) = 0
    BY <1>2, <1>3
  <2> HIDE DEF t
  <2>2. NeedsAll(t) = 0
    BY <1>few, <2>1, NeedsOfFew
  <2>3. NeedsAll(runs) = Needs(Head(runs))
    BY <1>1, <1>3, NeedsOfFew
  <2> QED
    BY <1>1, <1>2, <2>1, <2>2, <2>3, NeedsType DEF t
<1>4. CASE Len(runs) = 2
  <2>1. Len(t) = 1 /\ t[1] = runs[2]
    BY <1>2, <1>4
  <2> HIDE DEF t
  <2>2. NeedsAll(t) = Needs(runs[2])
    BY <1>few, <2>1, NeedsOfFew
  <2>3. NeedsAll(runs) = Needs(Head(runs)) + Needs(runs[2])
    BY <1>1, <1>4, NeedsOfFew
  <2> QED
    BY <1>1, <1>2, <2>1, <2>2, <2>3, NeedsType DEF t
<1> QED
  BY <1>1, <1>2, <1>3, <1>4

ReservedOf(q) == [r \in Requests |-> Reserved(q[r])]

LEMMA SumReservedIsTotal ==
  ASSUME NEW q
  PROVE  SumReserved(q) = Total(ReservedOf(q), Requests)
<1> DEFINE K == Requests
           f == ReservedOf(q)
           Q(g) == g = [s \in SUBSET K |-> IF s = {} THEN 0 ELSE Reserved(q[Pick(s)]) + g[s \ {Pick(s)}]]
<1>1. \A s \in SUBSET K : s # {} => f[Pick(s)] = Reserved(q[Pick(s)])
  BY PickIsMember DEF ReservedOf
<1>2. SumReserved(q) = (CHOOSE g : Q(g))[K]
  BY DEF SumReserved, MapThenSumSet, MapThenFoldSet, Pick
<1> HIDE DEF f, K
<1>3. \A g : Q(g) <=> Tabulates(g, f, K)
  BY <1>1 DEF Tabulates
<1>4. IsFiniteSet(K)
  BY ServiceAssumption DEF K
<1>5. Tabulates(Table(f, K), f, K)
  BY <1>4, TableExists
<1>6. Q(CHOOSE g : Q(g))
  <2>1. Q(Table(f, K))
    BY <1>3, <1>5
  <2> HIDE DEF Q
  <2> QED
    BY <2>1
<1>7. Tabulates(CHOOSE g : Q(g), f, K)
  BY <1>3, <1>6
<1> HIDE DEF Q
<1>8. (CHOOSE g : Q(g))[K] = Table(f, K)[K]
  BY <1>4, <1>5, <1>7, TableUnique
<1> QED
  BY <1>2, <1>4, <1>8, TotalIsTabulated DEF f, K

\* A step of one request moves the sum by what it reserves.
LEMMA SumReservedMoves ==
  ASSUME NEW q, NEW p, NEW r \in Requests, \A o \in Requests \ {r} : p[o] = q[o],
         \A o \in Requests : Reserved(q[o]) \in Nat, Reserved(p[r]) \in Nat
  PROVE  /\ SumReserved(q) \in Nat /\ SumReserved(p) \in Nat
         /\ SumReserved(p) + Reserved(q[r]) = SumReserved(q) + Reserved(p[r])
<1> DEFINE f == ReservedOf(q)
           g == ReservedOf(p)
           S == Requests \ {r}
<1>1. /\ \A o \in Requests : f[o] \in Nat /\ g[o] \in Nat
      /\ \A o \in S : f[o] = g[o]
      /\ f[r] = Reserved(q[r]) /\ g[r] = Reserved(p[r])
  BY DEF ReservedOf
<1> HIDE DEF f, g
<1>2. IsFiniteSet(Requests) /\ IsFiniteSet(S)
  BY ServiceAssumption, FS_Subset
<1>3. Total(f, Requests) = f[r] + Total(f, S) /\ Total(g, Requests) = g[r] + Total(g, S)
  BY <1>1, <1>2, TotalRemove
<1>4. Total(f, S) = Total(g, S)
  BY <1>1, <1>2, TotalSame
<1>5. /\ Total(f, S) \in Nat /\ Total(f, Requests) \in Nat /\ Total(g, Requests) \in Nat
  BY <1>1, <1>2, TotalType
<1>6. SumReserved(q) = Total(f, Requests) /\ SumReserved(p) = Total(g, Requests)
  BY SumReservedIsTotal DEF f, g
<1> QED
  BY <1>1, <1>3, <1>4, <1>5, <1>6
-----------------------------------------------------------------------------
(* Types, runs and the bound: every step                                    *)

LEMMA ReservedType ==
  ASSUME NEW s \in ComplianceState, s \in Running => RunAt(s)
  PROVE  /\ Reserved(s) \in Nat
         /\ s \in Running => /\ Reserved(s) = Len(s.found) - s.stored + NeedsAll(s.runs)
                             /\ NeedsAll(s.runs) \in Nat
                             /\ Len(s.found) \in Nat /\ s.stored \in Nat
         /\ s \notin Running => Reserved(s) = 0
<1>1. CASE s \in Running
  <2>1. s.phase \notin {"idle", "approving"} /\ s.found \in Seq(Check) /\ s.stored \in Nat /\ s.runs \in Seq(Runs)
    BY <1>1 DEF Running
  <2>2. Len(s.runs) <= 2 /\ s.stored <= Len(s.found)
    BY <1>1 DEF RunAt
  <2>3. NeedsAll(s.runs) \in Nat
    BY <2>1, <2>2, NeedsOfFew
  <2>4. Len(s.found) \in Nat
    BY <2>1, LenProperties
  <2>5. Reserved(s) = Len(s.found) - s.stored + NeedsAll(s.runs)
    BY <2>1 DEF Reserved
  <2> QED
    BY <1>1, <2>1, <2>2, <2>3, <2>4, <2>5
<1>2. CASE s \notin Running
  <2>1. s.phase \in {"idle", "approving"}
    BY <1>2, ComplianceByPhase DEF ComplianceState
  <2> QED
    BY <1>2, <2>1 DEF Reserved
<1> QED
  BY <1>1, <1>2

LEMMA RoomMoves ==
  ASSUME req \in [Processes -> ComplianceState], RunsInv, NEW r \in Requests, NEW s \in ComplianceState,
         become(r, s), Reserved(s) \in Nat
  PROVE  /\ SumReserved(req) \in Nat /\ SumReserved(req') \in Nat
         /\ SumReserved(req') + Reserved(req[r]) = SumReserved(req) + Reserved(s)
         /\ Reserved(req[r]) \in Nat
<1>1. \A o \in Requests : Reserved(req[o]) \in Nat
  BY ReservedType DEF RunsInv, Processes
<1>2. req'[r] = s /\ \A o \in Requests \ {r} : req'[o] = req[o]
  BY BecomeTyped DEF Processes
<1> QED
  BY <1>1, <1>2, SumReservedMoves

LEMMA RunsMove ==
  ASSUME req \in [Processes -> ComplianceState], RunsInv, NEW r \in Processes, NEW s \in ComplianceState,
         become(r, s), DOMAIN checks \subseteq DOMAIN checks', s \in Running => RunAt(s)'
  PROVE  RunsInv'
<1>1. req'[r] = s /\ \A o \in Processes \ {r} : req'[o] = req[o]
  BY BecomeTyped
<1>2. ASSUME NEW o \in Processes, req'[o] \in Running
      PROVE  RunAt(req[o])' 
  <2>1. CASE o = r
    <3>1. RunAt(s)' /\ req'[o] = s
      BY <1>1, <1>2, <2>1
    <3> QED
      BY <3>1 DEF RunAt
  <2>2. CASE o # r
    <3>1. req'[o] = req[o] /\ RunAt(req[o])
      BY <1>1, <1>2, <2>2 DEF RunsInv
    <3> QED
      BY <3>1 DEF RunAt
  <2> QED
    BY <2>1, <2>2
<1> QED
  BY <1>2 DEF RunsInv

\* A step that moves one request, and perhaps makes a check or changes some.
LEMMA ReflectMoves ==
  ASSUME ReflectInv, NEW r \in Requests, NEW s \in ComplianceState, become(r, s),
         s \in Running => RunAt(s)',
         onboarding' \in OnboardingStatus, profile' \in Finding, owners' \subseteq Owners,
         shared' \in [Subjects -> SharedStatus],
         checks' \in Seq(Check), DOMAIN checks \subseteq DOMAIN checks', ChecksInv',
         flags' \in [Subjects -> SUBSET (Verifications \cup Screenings)], cases' \subseteq DOMAIN checks',
         Len(checks') + Reserved(s) <= Len(checks) + Reserved(req[r])
           \/ (req[r] \notin Running /\ checks' = checks /\ Len(checks) + SumReserved(req) + Reserved(s) <= MaxChecks)
  PROVE  ReflectInv'
<1>1. req \in [Processes -> ComplianceState] /\ r \in Processes /\ RunsInv /\ MaxChecks \in Nat
  BY ComplianceAssumption DEF ReflectInv, ComplianceTypeOK, ComplianceState, Processes
<1>2. req' \in [Processes -> ComplianceState]
  BY <1>1, BecomeTyped
<1>3. RunsInv'
  BY <1>1, RunsMove
<1>4. Reserved(s) \in Nat
  <2>1. s \in Running => RunAt(req[r])'
    <3>1. req'[r] = s
      BY <1>1, BecomeTyped
    <3> QED
      BY <3>1 DEF RunAt
  <2>2. req'[r] = s
    BY <1>1, BecomeTyped
  <2>3. s \in Running => /\ s.phase \notin {"idle", "approving"} /\ s.found \in Seq(Check) /\ s.stored \in Nat
                         /\ s.runs \in Seq(Runs) /\ Len(s.runs) <= 2 /\ s.stored <= Len(s.found)
    BY <2>1, <2>2 DEF Running, RunAt
  <2>4. CASE s \in Running
    <3>1. NeedsAll(s.runs) \in Nat /\ Len(s.found) \in Nat
      BY <2>3, <2>4, NeedsOfFew, LenProperties
    <3> QED
      BY <2>3, <2>4, <3>1 DEF Reserved
  <2>5. CASE s \notin Running
    BY <2>5, ReservedType
  <2> QED
    BY <2>4, <2>5
<1>5. /\ SumReserved(req) \in Nat /\ SumReserved(req') \in Nat /\ Reserved(req[r]) \in Nat
      /\ SumReserved(req') + Reserved(req[r]) = SumReserved(req) + Reserved(s)
      /\ req[r] \notin Running => Reserved(req[r]) = 0
  <2>1. req[r] \notin Running => Reserved(req[r]) = 0
    BY <1>1, ReservedType
  <2> QED
    BY <1>1, <1>4, <2>1, RoomMoves
<1>6. Len(checks) \in Nat /\ Len(checks') \in Nat
  BY LenProperties DEF ReflectInv, ComplianceTypeOK
<1>7. Len(checks') + SumReserved(req') <= MaxChecks
  <2>1. Len(checks) + SumReserved(req) <= MaxChecks
    BY DEF ReflectInv, Room
  <2> QED
    BY <1>1, <1>4, <1>5, <1>6, <2>1
<1>8. Room' /\ Len(checks') <= MaxChecks
  BY <1>1, <1>5, <1>6, <1>7 DEF Room
<1>9. ComplianceTypeOK'
  BY <1>2, <1>8 DEF ComplianceTypeOK, ComplianceState
<1> QED
  BY <1>3, <1>8, <1>9 DEF ReflectInv

LEMMA StayBecomes ==
  ASSUME req \in [Processes -> ComplianceState], NEW r \in Processes, UNCHANGED req
  PROVE  become(r, req[r])
  BY DEF become

LEMMA RunsOfType ==
  ASSUME NEW op \in Runs, NEW s
  PROVE  RunsOf(op, s) \in Seq(Runs) /\ Len(RunsOf(op, s)) <= 2 /\ RunsOf(op, s) # <<>>
<1>1. CASE op = "full"
  <2>1. RunsOf(op, s) = IF s = Company THEN <<"kyb", "screening">> ELSE <<"kyc", "screening">>
    BY <1>1 DEF RunsOf
  <2>2. CASE s = Company
    <3>1. RunsOf(op, s) = <<"kyb", "screening">>
      BY <2>1, <2>2
    <3>2. "kyb" \in Runs /\ "screening" \in Runs
      BY DEF Runs
    <3> QED
      BY <3>1, <3>2
  <2>3. CASE s # Company
    <3>1. RunsOf(op, s) = <<"kyc", "screening">>
      BY <2>1, <2>3
    <3>2. "kyc" \in Runs /\ "screening" \in Runs
      BY DEF Runs
    <3> QED
      BY <3>1, <3>2
  <2> QED
    BY <2>2, <2>3
<1>2. CASE op # "full"
  <2>1. RunsOf(op, s) = <<op>>
    BY <1>2 DEF RunsOf
  <2> QED
    BY <2>1
<1> QED
  BY <1>1, <1>2

\* An unchanged run keeps its place while no check goes away.
LEMMA RunAtKept ==
  ASSUME NEW q, RunAt(q), DOMAIN checks \subseteq DOMAIN checks'
  PROVE  RunAt(q)'
  BY DEF RunAt

LEMMA ReflectInit == ComplianceInit => ReflectInv
<1> SUFFICES ASSUME ComplianceInit PROVE ReflectInv
  OBVIOUS
<1>1. /\ onboarding \in OnboardingStatus /\ profile \in Finding /\ owners \subseteq Owners
      /\ checks \in Seq(Check) /\ Len(checks) = 0 /\ DOMAIN checks = {} /\ cases = {}
      /\ flags \in [Subjects -> SUBSET (Verifications \cup Screenings)]
      /\ shared \in [Subjects -> SharedStatus]
  BY ComplianceAssumption DEF ComplianceInit, OnboardingStatus, SharedStatus
<1>2. req = [r \in Processes |-> Idle]
  BY DEF ComplianceInit, ServiceInit
<1>3. Idle \notin Running /\ Reserved(Idle) = 0
  BY DEF Idle, Running, Reserved
<1>4. RunsInv /\ ChecksInv
  BY <1>1, <1>2, <1>3 DEF RunsInv, ChecksInv
<1>5. SumReserved(req) = 0
  <2>1. ReservedOf(req) = [r \in Requests |-> 0]
    BY <1>2, <1>3 DEF ReservedOf, Processes
  <2> DEFINE f == [r \in Requests |-> 0]
  <2>2. SumReserved(req) = Total(f, Requests)
    BY <2>1, SumReservedIsTotal
  <2>3. Total(f, Requests) = 0
    <3> DEFINE Bad == {t \in SUBSET Requests : Total(f, t) # 0}
    <3>1. ASSUME Bad # {} PROVE FALSE
      <4>1. IsFiniteSet(Requests) /\ Bad \subseteq SUBSET Requests
        BY ServiceAssumption
      <4>2. PICK t \in Bad : \A y \in Bad : y \subseteq t => y = t
        <5> HIDE DEF Bad
        <5> QED
          BY <3>1, <4>1, SmallestSubset
      <4>3. t # {} /\ IsFiniteSet(t)
        BY <4>1, TotalOfNone, FS_Subset
      <4>4. Pick(t) \in t /\ Total(f, t) = f[Pick(t)] + Total(f, t \ {Pick(t)})
        BY <4>3, TotalUnfolds
      <4>5. Total(f, t \ {Pick(t)}) = 0
        BY <4>2, <4>4
      <4> QED
        BY <4>2, <4>4, <4>5
    <3> QED
      BY <3>1
  <2> QED
    BY <2>2, <2>3
<1>6. Room
  BY <1>1, <1>5, ComplianceAssumption DEF Room
<1>7. ComplianceTypeOK
  BY <1>1, <1>2, ComplianceAssumption DEF ComplianceTypeOK
<1> QED
  BY <1>4, <1>6, <1>7 DEF ReflectInv

LEMMA RunReflects ==
  ASSUME ReflectInv, NEW r \in Requests, NEW op \in Runs, NEW s \in Subjects, run(r, op, s)
  PROVE  /\ ReflectInv' /\ req'[r] \in Running /\ req'[r].of = s /\ req'[r].phase = "query"
<1>1. RunsOf(op, s) \in Seq(Runs) /\ Len(RunsOf(op, s)) <= 2 /\ RunsOf(op, s) # <<>>
  BY RunsOfType
<1>2. PICK runs \in Seq(Runs) : runs = RunsOf(op, s)
  BY <1>1
<1>3. PICK q : q = running("query", s, runs, <<>>, 0, 0)
  OBVIOUS
<1>4. /\ q \in Running /\ q.phase = "query" /\ q.of = s /\ q.runs = runs
      /\ q.found = <<>> /\ q.stored = 0 /\ q.first = 0
  BY <1>3 DEF running, Running
<1>5. /\ become(r, q) /\ UNCHANGED <<onboarding, profile, owners, checks, flags, shared, cases>>
      /\ req[r] = Idle /\ HasRoom(op, s)
  BY <1>2, <1>3 DEF run, mayBegin
<1>6. RunAt(q)'
  BY <1>1, <1>2, <1>4, <1>5 DEF RunAt, FindingsOf
<1>7. Reserved(q) = NeedsAll(runs)
  <2>1. NeedsAll(runs) \in Nat
    BY <1>1, <1>2, NeedsOfFew
  <2> QED
    BY <1>4, <2>1 DEF Reserved
<1>8. Len(checks) + SumReserved(req) + Reserved(q) <= MaxChecks
  BY <1>2, <1>5, <1>7 DEF HasRoom, SumReserved
<1>9. req[r] \notin Running /\ q \in ComplianceState
  BY <1>4, <1>5 DEF Idle, Running, ComplianceState
<1>10. ChecksInv'
  BY <1>5 DEF ReflectInv, ChecksInv
<1>11. /\ onboarding' \in OnboardingStatus /\ profile' \in Finding /\ owners' \subseteq Owners /\ shared' \in [Subjects -> SharedStatus]
       /\ checks' \in Seq(Check) /\ DOMAIN checks \subseteq DOMAIN checks'
       /\ flags' \in [Subjects -> SUBSET (Verifications \cup Screenings)] /\ cases' \subseteq DOMAIN checks'
  BY <1>5 DEF ReflectInv, ComplianceTypeOK
<1>12. ReflectInv'
  BY <1>5, <1>6, <1>8, <1>9, <1>10, <1>11, ReflectMoves
<1>13. req'[r] = q
  <2>1. r \in Processes /\ req \in [Processes -> ComplianceState]
    BY DEF ReflectInv, ComplianceTypeOK, ComplianceState, Processes
  <2> QED
    BY <1>5, <1>9, <2>1, BecomeTyped
<1> QED
  BY <1>4, <1>12, <1>13

LEMMA QueryReflects ==
  ASSUME ReflectInv, NEW r \in Requests, query(r)
  PROVE  /\ ReflectInv' /\ req[r] \in Running /\ req[r].phase = "query"
         /\ req'[r] \in Running /\ req'[r].of = req[r].of /\ req'[r].stored = 0
<1>1. PICK q \in Running : q = req[r] /\ q.phase = "query"
  <2>1. req[r] \in ComplianceState /\ req[r].phase = "query"
    BY DEF query, at, ReflectInv, ComplianceTypeOK, ComplianceState, Processes
  <2> QED
    BY <2>1, ComplianceByPhase
<1>2. PICK s \in Subjects : s = q.of
  BY DEF Running
<1>3. RunAt(q) /\ q.runs \in Seq(Runs)
  BY <1>1 DEF ReflectInv, RunsInv, Running, Processes
<1>4. /\ Head(q.runs) \in Runs /\ Tail(q.runs) \in Seq(Runs) /\ Len(Tail(q.runs)) <= 1
      /\ NeedsAll(Tail(q.runs)) \in Nat
      /\ NeedsAll(q.runs) = Needs(Head(q.runs)) + NeedsAll(Tail(q.runs))
  <2>1. Len(q.runs) <= 2 /\ q.runs # <<>>
    BY <1>1, <1>3 DEF RunAt
  <2> QED
    BY <1>3, <2>1, NeedsOfTail
<1>5. PICK found \in Seq(Check) :
        /\ found = IF Head(q.runs) = "screening" THEN screen(s) ELSE <<verify(s)>>
        /\ FindingsOf(s, found) /\ Len(found) = Needs(Head(q.runs)) /\ Len(found) \in Nat \ {0}
  <2>1. profile \in Finding
    BY DEF ReflectInv, ComplianceTypeOK
  <2>2. Len(ScreeningTypes) \in Nat \ {0}
    BY ComplianceAssumption, EmptySeq
  <2>3. <<verify(s)>> \in Seq(Check) /\ FindingsOf(s, <<verify(s)>>) /\ Len(<<verify(s)>>) = 1
    BY <2>1, VerifyFinds
  <2>4. screen(s) \in Seq(Check) /\ FindingsOf(s, screen(s)) /\ Len(screen(s)) = Len(ScreeningTypes)
    BY ScreenFinds
  <2>5. PICK one \in Seq(Check) : one = <<verify(s)>> /\ FindingsOf(s, one) /\ Len(one) = 1
    BY <2>3
  <2>6. PICK all \in Seq(Check) : /\ all = screen(s) /\ FindingsOf(s, all)
                                  /\ Len(all) = Len(ScreeningTypes)
    BY <2>4
  <2>7. CASE Head(q.runs) = "screening"
    <3>1. Needs(Head(q.runs)) = Len(ScreeningTypes)
      BY <2>7 DEF Needs
    <3>2. all = IF Head(q.runs) = "screening" THEN screen(s) ELSE <<verify(s)>>
      BY <2>6, <2>7
    <3>3. Len(all) = Needs(Head(q.runs)) /\ Len(all) \in Nat \ {0}
      BY <2>2, <2>6, <3>1
    <3> QED
      BY <2>6, <3>2, <3>3
  <2>8. CASE Head(q.runs) # "screening"
    <3>1. Needs(Head(q.runs)) = 1
      BY <2>8 DEF Needs
    <3>2. one = IF Head(q.runs) = "screening" THEN screen(s) ELSE <<verify(s)>>
      BY <2>5, <2>8
    <3>3. Len(one) = Needs(Head(q.runs)) /\ Len(one) \in Nat \ {0}
      BY <2>5, <3>1
    <3> QED
      BY <2>5, <3>2, <3>3
  <2> QED
    BY <2>7, <2>8
<1>6. PICK rest \in Seq(Runs) : rest = Tail(q.runs)
  BY <1>4
<1>7. PICK n : n = running("persist", s, rest, found, 0, 0)
  OBVIOUS
<1>8. become(r, n) /\ UNCHANGED <<onboarding, profile, owners, checks, flags, shared, cases>>
  BY <1>1, <1>2, <1>5, <1>6, <1>7 DEF query
<1>9. /\ n \in Running /\ n.phase = "persist" /\ n.of = s /\ n.runs = rest
      /\ n.found = found /\ n.stored = 0 /\ n.first = 0
  BY <1>7 DEF running, Running
<1>10. RunAt(n)'
  BY <1>4, <1>5, <1>6, <1>9 DEF RunAt
<1>11. Reserved(q) = NeedsAll(q.runs)
  <2>1. q.found = <<>> /\ q.stored <= Len(q.found) /\ q.stored \in Nat /\ Len(q.found) = 0
    BY <1>1, <1>3 DEF RunAt, Running
  <2>2. Reserved(q) = Len(q.found) - q.stored + NeedsAll(q.runs)
    BY <1>1 DEF Reserved
  <2> QED
    BY <1>4, <2>1, <2>2, NeedsType
<1>12. Reserved(n) = Reserved(q)
  <2>1. Reserved(n) = Len(found) - 0 + NeedsAll(rest)
    BY <1>9 DEF Reserved
  <2> QED
    BY <1>4, <1>5, <1>6, <1>11, <2>1
<1>13. n \in ComplianceState /\ ChecksInv'
  BY <1>8, <1>9 DEF ComplianceState, ReflectInv, ChecksInv
<1>14. Len(checks') + Reserved(n) <= Len(checks) + Reserved(req[r])
  <2>1. Len(checks) \in Nat /\ Reserved(n) \in Nat /\ checks' = checks
    BY <1>4, <1>5, <1>8, <1>11, <1>12, LenProperties DEF ReflectInv, ComplianceTypeOK
  <2> QED
    BY <1>1, <1>12, <2>1
<1>15. /\ onboarding' \in OnboardingStatus /\ profile' \in Finding /\ owners' \subseteq Owners /\ shared' \in [Subjects -> SharedStatus]
       /\ checks' \in Seq(Check) /\ DOMAIN checks \subseteq DOMAIN checks'
       /\ flags' \in [Subjects -> SUBSET (Verifications \cup Screenings)] /\ cases' \subseteq DOMAIN checks'
  BY <1>8 DEF ReflectInv, ComplianceTypeOK
<1>16. ReflectInv'
  BY <1>8, <1>10, <1>13, <1>14, <1>15, ReflectMoves
<1>17. req'[r] = n
  <2>1. r \in Processes /\ req \in [Processes -> ComplianceState]
    BY DEF ReflectInv, ComplianceTypeOK, ComplianceState, Processes
  <2> QED
    BY <1>8, <1>13, <2>1, BecomeTyped
<1> QED
  BY <1>1, <1>2, <1>9, <1>16, <1>17

LEMMA PersistReflects ==
  ASSUME ReflectInv, NEW r \in Requests, persistCheck(r)
  PROVE  /\ ReflectInv' /\ req[r] \in Running /\ RunAt(req[r]) /\ r \in Processes
         /\ req[r].stored + 1 \in DOMAIN req[r].found
         /\ checks' = Append(checks, req[r].found[req[r].stored + 1])
         /\ req'[r] \in Running /\ req'[r].of = req[r].of /\ req'[r].found = req[r].found
         /\ req'[r].stored = req[r].stored + 1 /\ req'[r].phase \in {"persist", "flags"}
         /\ req[r].phase = "persist"
<1>1. PICK q \in Running : q = req[r] /\ q.phase = "persist" /\ r \in Processes
  <2>1. req[r] \in ComplianceState /\ req[r].phase = "persist"
    BY DEF persistCheck, at, ReflectInv, ComplianceTypeOK, ComplianceState, Processes
  <2> QED
    BY <2>1, ComplianceByPhase DEF Processes
<1>2. RunAt(q)
  BY <1>1 DEF ReflectInv, RunsInv
<1>3. /\ q.of \in Subjects /\ q.found \in Seq(Check) /\ q.stored \in Nat /\ q.runs \in Seq(Runs) /\ q.first \in Nat
      /\ Len(q.found) \in Nat /\ DOMAIN q.found = 1..Len(q.found)
  <2>1. q.of \in Subjects /\ q.found \in Seq(Check) /\ q.stored \in Nat /\ q.runs \in Seq(Runs) /\ q.first \in Nat
    BY <1>1 DEF Running
  <2> QED
    BY <2>1, LenProperties
<1>4. PICK c \in Check :
        q.stored + 1 \in DOMAIN q.found /\ c = q.found[q.stored + 1] /\ FailureIsReviewed(c)
  <2>1. q.stored < Len(q.found)
    BY <1>1, <1>2 DEF RunAt
  <2>2. q.stored + 1 \in DOMAIN q.found
    BY <1>3, <2>1
  <2>3. FailureIsReviewed(q.found[q.stored + 1])
    BY <1>2, <2>2 DEF RunAt, FindingsOf
  <2> QED
    BY <1>3, <2>2, <2>3, ElementOfSeq
<1>5. checks \in Seq(Check) /\ Len(checks) \in Nat /\ DOMAIN checks = 1..Len(checks)
  BY LenProperties DEF ReflectInv, ComplianceTypeOK
<1>first. PICK first \in Nat : first = IF q.first = 0 THEN Len(checks) + 1 ELSE q.first
  BY <1>3, <1>5
<1>phase. PICK phase \in {"flags", "persist"} :
            phase = IF q.stored + 1 = Len(q.found) THEN "flags" ELSE "persist"
  OBVIOUS
<1>n. PICK n : n = [q EXCEPT !.stored = q.stored + 1, !.first = first, !.phase = phase]
  OBVIOUS
<1>6. /\ checks' = Append(checks, c) /\ become(r, n)
      /\ UNCHANGED <<onboarding, profile, owners, flags, shared, cases>>
  <2>1. become(r, [q EXCEPT !.stored = @ + 1, !.first = IF @ = 0 THEN Len(checks) + 1 ELSE @,
                            !.phase = IF q.stored + 1 = Len(q.found) THEN "flags" ELSE "persist"])
    BY <1>1 DEF persistCheck
  <2> QED
    BY <1>1, <1>4, <1>first, <1>phase, <1>n, <2>1 DEF persistCheck, Running
<1>7. /\ checks' \in Seq(Check) /\ Len(checks') = Len(checks) + 1
      /\ DOMAIN checks' = 1..(Len(checks) + 1)
      /\ \A k \in 1..Len(checks) : checks'[k] = checks[k]
      /\ checks'[Len(checks) + 1] = c
  <2>1. Append(checks, c) \in Seq(Check) /\ Len(Append(checks, c)) = Len(checks) + 1
    BY <1>4, <1>5, AppendProperties
  <2>2. \A k \in 1..Len(checks) : Append(checks, c)[k] = checks[k]
    BY <1>4, <1>5, AppendProperties
  <2>3. Append(checks, c)[Len(checks) + 1] = c
    BY <1>4, <1>5, AppendProperties
  <2> QED
    BY <1>6, <2>1, <2>2, <2>3, LenProperties
<1>8. first \in DOMAIN checks'
  <2>1. q.first # 0 => q.first \in DOMAIN checks
    BY <1>2, <1>3 DEF RunAt
  <2> QED
    BY <1>3, <1>5, <1>7, <1>first, <2>1
<1>9. /\ n \in Running /\ n.of = q.of /\ n.runs = q.runs /\ n.found = q.found
      /\ n.stored = q.stored + 1 /\ n.first = first /\ n.phase = phase
  <2>1. q = [phase |-> q.phase, of |-> q.of, runs |-> q.runs, found |-> q.found,
             stored |-> q.stored, first |-> q.first]
    BY <1>1 DEF Running
  <2>2. n = running(phase, q.of, q.runs, q.found, q.stored + 1, first)
    BY <1>n, <2>1 DEF running
  <2>3. q.stored + 1 \in Nat
    BY <1>3
  <2> QED
    BY <1>3, <2>2, <2>3, RunningIsTyped
<1>10. RunAt(n)'
  <2>1. /\ Len(q.runs) <= 2 /\ FindingsOf(q.of, q.found)
    BY <1>2 DEF RunAt
  <2>2. q.stored + 1 <= Len(q.found) /\ q.found # <<>>
    BY <1>3, <1>4, EmptySeq
  <2>3. phase = "persist" => q.stored + 1 < Len(q.found)
    BY <1>3, <1>phase, <2>2
  <2>4. phase = "flags" => q.stored + 1 = Len(q.found)
    BY <1>phase
  <2> QED
    BY <1>3, <1>8, <1>9, <2>1, <2>2, <2>3, <2>4 DEF RunAt
<1>11. ChecksInv'
  <2> SUFFICES ASSUME NEW k \in DOMAIN checks' PROVE FailureIsReviewed(checks'[k])
    BY DEF ChecksInv, FailureIsReviewed
  <2>1. CASE k \in 1..Len(checks)
    BY <1>5, <1>7, <2>1 DEF ReflectInv, ChecksInv
  <2>2. CASE k = Len(checks) + 1
    BY <1>4, <1>7, <2>2
  <2> QED
    BY <1>5, <1>7, <2>1, <2>2
<1>12. Len(checks') + Reserved(n) <= Len(checks) + Reserved(req[r])
  <2>1. /\ Reserved(q) = Len(q.found) - q.stored + NeedsAll(q.runs)
        /\ Reserved(n) = Len(q.found) - (q.stored + 1) + NeedsAll(q.runs)
    BY <1>1, <1>9 DEF Reserved
  <2>2. NeedsAll(q.runs) \in Nat
    <3>1. Len(q.runs) <= 2
      BY <1>2 DEF RunAt
    <3> QED
      BY <1>3, <3>1, NeedsOfFew
  <2> QED
    BY <1>1, <1>3, <1>5, <1>7, <2>1, <2>2
<1>13. n \in ComplianceState /\ DOMAIN checks \subseteq DOMAIN checks' /\ cases' \subseteq DOMAIN checks'
  BY <1>5, <1>6, <1>7, <1>9 DEF ComplianceState, ReflectInv, ComplianceTypeOK
<1>14. ReflectInv'
  <2>1. /\ onboarding' \in OnboardingStatus /\ profile' \in Finding /\ owners' \subseteq Owners /\ shared' \in [Subjects -> SharedStatus]
        /\ flags' \in [Subjects -> SUBSET (Verifications \cup Screenings)]
    BY <1>6 DEF ReflectInv, ComplianceTypeOK
  <2> QED
    BY <1>6, <1>7, <1>10, <1>11, <1>12, <1>13, <2>1, ReflectMoves
<1>15. req'[r] = n
  BY <1>1, <1>6, <1>13, BecomeTyped DEF ReflectInv, ComplianceTypeOK, ComplianceState
<1> QED
  BY <1>1, <1>2, <1>4, <1>6, <1>9, <1>14, <1>15

LEMMA SharedIsTyped ==
  ASSUME NEW before \in SharedStatus, NEW q
  PROVE  sharedStatus(before, q) \in SharedStatus
  BY DEF sharedStatus, SharedStatus

LEMMA UpdateFlagsReflects ==
  ASSUME ReflectInv, NEW r \in Requests, updateFlags(r)
  PROVE  /\ ReflectInv' /\ req[r] \in Running /\ RunAt(req[r]) /\ req[r].phase = "flags"
         /\ req'[r] \in Running /\ req'[r].phase = "after" /\ req'[r].of = req[r].of
<1>1. PICK q \in Running : q = req[r] /\ q.phase = "flags" /\ r \in Processes
  <2>1. req[r] \in ComplianceState /\ req[r].phase = "flags"
    BY DEF updateFlags, at, ReflectInv, ComplianceTypeOK, ComplianceState, Processes
  <2> QED
    BY <2>1, ComplianceByPhase DEF Processes
<1>2. RunAt(q)
  BY <1>1 DEF ReflectInv, RunsInv
<1>3. /\ q.of \in Subjects /\ q.found \in Seq(Check) /\ q.stored \in Nat /\ q.runs \in Seq(Runs) /\ q.first \in Nat
  BY <1>1 DEF Running
<1>n. PICK n : n = [q EXCEPT !.phase = "after"]
  OBVIOUS
<1>4. /\ become(r, n) /\ UNCHANGED <<onboarding, profile, owners, checks, cases>>
      /\ flags' = [flags EXCEPT ![q.of] = (@ \ TypesIn(q.found)) \cup Flagged(q.found)]
      /\ shared' = [shared EXCEPT ![q.of] = sharedStatus(@, q)]
  BY <1>1, <1>n DEF updateFlags
<1>5. /\ n \in Running /\ n.of = q.of /\ n.runs = q.runs /\ n.found = q.found
      /\ n.stored = q.stored /\ n.first = q.first /\ n.phase = "after"
  <2>1. q = [phase |-> q.phase, of |-> q.of, runs |-> q.runs, found |-> q.found,
             stored |-> q.stored, first |-> q.first]
    BY <1>1 DEF Running
  <2>2. n = running("after", q.of, q.runs, q.found, q.stored, q.first)
    BY <1>n, <2>1 DEF running
  <2> QED
    BY <1>3, <2>2, RunningIsTyped
<1>6. RunAt(n)'
  BY <1>1, <1>2, <1>4, <1>5 DEF RunAt
<1>7. Flagged(q.found) \subseteq Verifications \cup Screenings
  <2>1. \A k \in DOMAIN q.found : q.found[k] \in Check
    BY <1>3
  <2> QED
    BY <2>1 DEF Flagged, Check
<1>8. flags' \in [Subjects -> SUBSET (Verifications \cup Screenings)]
  BY <1>3, <1>4, <1>7 DEF ReflectInv, ComplianceTypeOK
<1>shared. shared' \in [Subjects -> SharedStatus]
  <2>1. shared \in [Subjects -> SharedStatus] /\ shared[q.of] \in SharedStatus
    BY <1>3 DEF ReflectInv, ComplianceTypeOK
  <2>2. PICK now \in SharedStatus : now = sharedStatus(shared[q.of], q)
    BY <2>1, SharedIsTyped
  <2>3. shared' = [shared EXCEPT ![q.of] = now]
    BY <1>4, <2>2
  <2> QED
    BY <2>1, <2>2, <2>3
<1>9. /\ onboarding' \in OnboardingStatus /\ profile' \in Finding /\ owners' \subseteq Owners
      /\ checks' \in Seq(Check) /\ DOMAIN checks \subseteq DOMAIN checks' /\ cases' \subseteq DOMAIN checks'
      /\ Len(checks) \in Nat
  BY <1>4, LenProperties DEF ReflectInv, ComplianceTypeOK
<1>10. ChecksInv'
  BY <1>4 DEF ReflectInv, ChecksInv
<1>11. Reserved(n) = Reserved(q) /\ Reserved(q) \in Nat /\ n \in ComplianceState /\ q \in ComplianceState
  <2>1. n \in ComplianceState /\ q \in ComplianceState
    BY <1>5 DEF ComplianceState
  <2>2. Reserved(n) = Reserved(q)
    BY <1>1, <1>5 DEF Reserved
  <2> QED
    BY <1>2, <2>1, <2>2, ReservedType
<1>12. ReflectInv'
  <2>1. Len(checks') + Reserved(n) <= Len(checks) + Reserved(req[r])
    BY <1>1, <1>4, <1>9, <1>11
  <2> QED
    BY <1>4, <1>6, <1>8, <1>9, <1>10, <1>11, <1>shared, <2>1, ReflectMoves
<1>13. req'[r] = n
  BY <1>1, <1>4, <1>11, BecomeTyped DEF ReflectInv, ComplianceTypeOK, ComplianceState
<1> QED
  BY <1>1, <1>2, <1>5, <1>12, <1>13

LEMMA AfterCheckReflects ==
  ASSUME ReflectInv, NEW r \in Requests, afterCheck(r)
  PROVE  /\ ReflectInv' /\ req[r] \in Running /\ req[r].phase = "after"
         /\ req'[r] = Idle \/ (req'[r] \in Running /\ req'[r].phase = "query" /\ req'[r].of = req[r].of)
<1>1. PICK q \in Running : q = req[r] /\ q.phase = "after" /\ r \in Processes
  <2>1. req[r] \in ComplianceState /\ req[r].phase = "after"
    BY DEF afterCheck, at, ReflectInv, ComplianceTypeOK, ComplianceState, Processes
  <2> QED
    BY <2>1, ComplianceByPhase DEF Processes
<1>2. RunAt(q)
  BY <1>1 DEF ReflectInv, RunsInv
<1>3. /\ q.of \in Subjects /\ q.found \in Seq(Check) /\ q.stored \in Nat /\ q.runs \in Seq(Runs)
      /\ q.stored = Len(q.found) /\ q.found # <<>> /\ Len(q.found) \in Nat /\ Len(q.runs) <= 2
      /\ q.first \in DOMAIN checks
  <2>1. q.of \in Subjects /\ q.found \in Seq(Check) /\ q.stored \in Nat /\ q.runs \in Seq(Runs)
    BY <1>1 DEF Running
  <2>2. q.stored = Len(q.found) /\ q.found # <<>> /\ Len(q.runs) <= 2
    BY <1>1, <1>2 DEF RunAt
  <2>3. Len(q.found) \in Nat /\ Len(q.found) # 0
    BY <2>1, <2>2, LenProperties, EmptySeq
  <2>4. q.first \in DOMAIN checks
    BY <1>2, <2>1, <2>2, <2>3 DEF RunAt
  <2> QED
    BY <2>1, <2>2, <2>3, <2>4
<1>n. PICK n : n = nextRun(q)
  OBVIOUS
<1>4. /\ become(r, n) /\ UNCHANGED <<onboarding, profile, owners, checks, flags, shared>>
      /\ cases' \subseteq cases \cup {q.first}
  BY <1>1, <1>n DEF afterCheck
<1>5. Reserved(q) = NeedsAll(q.runs) /\ NeedsAll(q.runs) \in Nat
  <2>1. NeedsAll(q.runs) \in Nat
    BY <1>3, NeedsOfFew
  <2>2. Reserved(q) = Len(q.found) - q.stored + NeedsAll(q.runs)
    BY <1>1 DEF Reserved
  <2> QED
    BY <1>3, <2>1, <2>2
<1>6. /\ n \in ComplianceState
      /\ n \in Running => RunAt(n)'
      /\ Reserved(n) \in Nat /\ Reserved(n) <= Reserved(q)
      /\ n = Idle \/ (n \in Running /\ n.phase = "query" /\ n.of = q.of)
  <2>1. CASE q.runs = <<>>
    <3>1. n = Idle /\ Idle \notin Running /\ Reserved(Idle) = 0
      BY <1>n, <2>1 DEF nextRun, Idle, Running, Reserved
    <3> QED
      BY <1>5, <3>1 DEF ComplianceState
  <2>2. CASE q.runs # <<>>
    <3>1. PICK e \in Seq(Check) : e = <<>> /\ Len(e) = 0
      BY EmptySeq
    <3>2. n = running("query", q.of, q.runs, e, 0, 0)
      BY <1>n, <2>2, <3>1 DEF nextRun
    <3>3. /\ n \in Running /\ n.phase = "query" /\ n.of = q.of /\ n.runs = q.runs
          /\ n.found = e /\ n.stored = 0 /\ n.first = 0
      BY <1>3, <3>2, RunningIsTyped
    <3>4. RunAt(n)'
      BY <1>3, <2>2, <3>1, <3>3 DEF RunAt, FindingsOf
    <3>5. Reserved(n) = Len(e) - 0 + NeedsAll(q.runs)
      BY <3>3 DEF Reserved
    <3> QED
      BY <1>5, <3>1, <3>3, <3>4, <3>5 DEF ComplianceState
  <2> QED
    BY <2>1, <2>2
<1>7. /\ onboarding' \in OnboardingStatus /\ profile' \in Finding /\ owners' \subseteq Owners /\ shared' \in [Subjects -> SharedStatus]
      /\ checks' \in Seq(Check) /\ DOMAIN checks \subseteq DOMAIN checks' /\ cases' \subseteq DOMAIN checks'
      /\ Len(checks) \in Nat /\ flags' \in [Subjects -> SUBSET (Verifications \cup Screenings)]
  BY <1>3, <1>4, LenProperties DEF ReflectInv, ComplianceTypeOK
<1>8. ChecksInv'
  BY <1>4 DEF ReflectInv, ChecksInv
<1>9. Len(checks') + Reserved(n) <= Len(checks) + Reserved(req[r])
  BY <1>1, <1>4, <1>5, <1>6, <1>7
<1>10. ReflectInv'
  BY <1>4, <1>6, <1>7, <1>8, <1>9, ReflectMoves
<1>11. req'[r] = n
  BY <1>1, <1>4, <1>6, BecomeTyped DEF ReflectInv, ComplianceTypeOK, ComplianceState
<1> QED
  BY <1>1, <1>6, <1>10, <1>11

\* A step that ends or begins no run.
LEMMA ReflectStays ==
  ASSUME ReflectInv, NEW r \in Requests, NEW s \in ComplianceState, become(r, s),
         s = req[r] \/ s \notin Running,
         onboarding' \in OnboardingStatus, profile' \in Finding, owners' \subseteq Owners,
         shared' \in [Subjects -> SharedStatus],
         checks' \in Seq(Check), Len(checks') = Len(checks), ChecksInv',
         flags' \in [Subjects -> SUBSET (Verifications \cup Screenings)], UNCHANGED cases
  PROVE  ReflectInv'
<1>1. req[r] \in ComplianceState /\ (req[r] \in Running => RunAt(req[r]))
  BY DEF ReflectInv, ComplianceTypeOK, ComplianceState, RunsInv, Processes
<1>2. DOMAIN checks' = DOMAIN checks /\ Len(checks) \in Nat
  BY LenProperties DEF ReflectInv, ComplianceTypeOK
<1>3. s \in Running => RunAt(s)'
  BY <1>1, <1>2, RunAtKept
<1>4. Reserved(req[r]) \in Nat
  BY <1>1, ReservedType
<1>5. Reserved(s) \in Nat /\ Reserved(s) <= Reserved(req[r])
  <2>1. s \notin Running => Reserved(s) = 0
    BY ReservedType
  <2> QED
    BY <1>4, <2>1
<1>6. Len(checks') + Reserved(s) <= Len(checks) + Reserved(req[r])
  BY <1>2, <1>4, <1>5
<1>7. cases' \subseteq DOMAIN checks'
  BY <1>2 DEF ReflectInv, ComplianceTypeOK
<1> QED
  BY <1>2, <1>3, <1>6, <1>7, ReflectMoves

\* What a review leaves alone: whose check it is, its type and its result.
LEMMA ReviewReflects ==
  ASSUME ReflectInv, NEW r \in Requests, NEW k \in DOMAIN checks, NEW d \in Decisions,
         reviewComplianceCheck(r, k, d)
  PROVE  /\ ReflectInv' /\ Len(checks') = Len(checks) /\ DOMAIN checks' = DOMAIN checks
         /\ \A j \in DOMAIN checks : /\ checks'[j].of = checks[j].of /\ checks'[j].type = checks[j].type
                                     /\ checks'[j].result = checks[j].result
<1>1. PICK status \in {"REVIEW_REQUIRED", "COMPLETED"} :
        status = IF d \in {"ESCALATED", "TRUE_MATCH"} THEN "REVIEW_REQUIRED" ELSE "COMPLETED"
  OBVIOUS
<1>2. PICK c : c = [checks[k] EXCEPT !.reviewRequired = FALSE, !.decision = d, !.status = status]
  OBVIOUS
<1>3. checks' = [checks EXCEPT ![k] = c] /\ UNCHANGED <<onboarding, profile, owners, flags, shared, cases, req, scope>>
  BY <1>1, <1>2 DEF reviewComplianceCheck
<1>4. checks \in Seq(Check) /\ checks[k] \in Check /\ DOMAIN checks = 1..Len(checks) /\ Len(checks) \in Nat
  BY LenProperties, ElementOfSeq DEF ReflectInv, ComplianceTypeOK
<1>5. /\ c \in Check /\ c.of = checks[k].of /\ c.type = checks[k].type /\ c.result = checks[k].result
      /\ c.decision # "none"
  BY <1>1, <1>2, <1>4 DEF Check, Decisions
<1>6. /\ checks' \in Seq(Check) /\ Len(checks') = Len(checks) /\ DOMAIN checks' = DOMAIN checks
      /\ checks'[k] = c /\ \A j \in DOMAIN checks \ {k} : checks'[j] = checks[j]
  BY <1>3, <1>4, <1>5, ExceptSeq
<1>7. ChecksInv'
  <2> SUFFICES ASSUME NEW j \in DOMAIN checks' PROVE FailureIsReviewed(checks'[j])
    BY DEF ChecksInv, FailureIsReviewed
  <2> QED
    BY <1>5, <1>6 DEF ReflectInv, ChecksInv, FailureIsReviewed
<1>8. r \in Processes /\ req \in [Processes -> ComplianceState] /\ become(r, req[r]) /\ req[r] \in ComplianceState
  BY <1>3, StayBecomes DEF ReflectInv, ComplianceTypeOK, ComplianceState, Processes
<1>9. /\ onboarding' \in OnboardingStatus /\ profile' \in Finding /\ owners' \subseteq Owners /\ shared' \in [Subjects -> SharedStatus]
      /\ flags' \in [Subjects -> SUBSET (Verifications \cup Screenings)]
  BY <1>3 DEF ReflectInv, ComplianceTypeOK
<1>10. ReflectInv'
  BY <1>3, <1>6, <1>7, <1>8, <1>9, ReflectStays
<1> QED
  BY <1>5, <1>6, <1>10

LEMMA ExpireReflects ==
  ASSUME ReflectInv, NEW r \in Requests, NEW k \in DOMAIN checks, expireComplianceCheck(r, k)
  PROVE  /\ ReflectInv' /\ Len(checks') = Len(checks) /\ DOMAIN checks' = DOMAIN checks
         /\ \A j \in DOMAIN checks : /\ checks'[j].of = checks[j].of /\ checks'[j].type = checks[j].type
                                     /\ checks'[j].result = checks[j].result
<1>2. PICK c : c = [checks[k] EXCEPT !.status = "EXPIRED"]
  OBVIOUS
<1>3. checks' = [checks EXCEPT ![k] = c] /\ UNCHANGED <<onboarding, profile, owners, flags, shared, cases, req, scope>>
  BY <1>2 DEF expireComplianceCheck
<1>4. checks \in Seq(Check) /\ checks[k] \in Check /\ DOMAIN checks = 1..Len(checks) /\ Len(checks) \in Nat
  BY LenProperties, ElementOfSeq DEF ReflectInv, ComplianceTypeOK
<1>5. /\ c \in Check /\ c.of = checks[k].of /\ c.type = checks[k].type /\ c.result = checks[k].result
      /\ c.decision = checks[k].decision /\ c.reviewRequired = checks[k].reviewRequired
      /\ c.status # "FAILED"
  BY <1>2, <1>4 DEF Check
<1>6. /\ checks' \in Seq(Check) /\ Len(checks') = Len(checks) /\ DOMAIN checks' = DOMAIN checks
      /\ checks'[k] = c /\ \A j \in DOMAIN checks \ {k} : checks'[j] = checks[j]
  BY <1>3, <1>4, <1>5, ExceptSeq
<1>7. ChecksInv'
  <2> SUFFICES ASSUME NEW j \in DOMAIN checks' PROVE FailureIsReviewed(checks'[j])
    BY DEF ChecksInv, FailureIsReviewed
  <2> QED
    BY <1>5, <1>6 DEF ReflectInv, ChecksInv, FailureIsReviewed
<1>8. r \in Processes /\ req \in [Processes -> ComplianceState] /\ become(r, req[r]) /\ req[r] \in ComplianceState
  BY <1>3, StayBecomes DEF ReflectInv, ComplianceTypeOK, ComplianceState, Processes
<1>9. /\ onboarding' \in OnboardingStatus /\ profile' \in Finding /\ owners' \subseteq Owners /\ shared' \in [Subjects -> SharedStatus]
      /\ flags' \in [Subjects -> SUBSET (Verifications \cup Screenings)]
  BY <1>3 DEF ReflectInv, ComplianceTypeOK
<1>10. ReflectInv'
  BY <1>3, <1>6, <1>7, <1>8, <1>9, ReflectStays
<1> QED
  BY <1>5, <1>6, <1>10

LEMMA ApproveReflects ==
  ASSUME ReflectInv, NEW r \in Requests, NEW override \in BOOLEAN, approveKyc(r, override)
  PROVE  ReflectInv' /\ req'[r].phase = "approving" /\ req'[r] \notin Running
<1>1. PICK n : n = [phase |-> "approving"]
  OBVIOUS
<1>2. become(r, n) /\ UNCHANGED <<onboarding, profile, owners, checks, flags, shared, cases>>
  BY <1>1 DEF approveKyc
<1>3. n \in ComplianceState /\ n \notin Running /\ n.phase = "approving"
  BY <1>1 DEF ComplianceState, Approving, Running
<1>4. /\ onboarding' \in OnboardingStatus /\ profile' \in Finding /\ owners' \subseteq Owners /\ shared' \in [Subjects -> SharedStatus]
      /\ flags' \in [Subjects -> SUBSET (Verifications \cup Screenings)]
      /\ checks' \in Seq(Check) /\ Len(checks') = Len(checks) /\ ChecksInv'
  BY <1>2 DEF ReflectInv, ComplianceTypeOK, ChecksInv
<1>5. ReflectInv'
  BY <1>2, <1>3, <1>4, ReflectStays
<1>6. req'[r] = n
  BY <1>2, <1>3, BecomeTyped DEF ReflectInv, ComplianceTypeOK, ComplianceState, Processes
<1> QED
  BY <1>3, <1>5, <1>6

LEMMA ApprovedReflects ==
  ASSUME ReflectInv, NEW r \in Requests, approved(r)
  PROVE  ReflectInv' /\ req'[r] = Idle /\ req[r] # Idle
<1>1. PICK n : n = Idle
  OBVIOUS
<1>2. become(r, n) /\ UNCHANGED <<profile, owners, checks, flags, shared, cases>> /\ onboarding' = "APPROVED"
  BY <1>1 DEF approved
<1>3. n \in ComplianceState /\ n \notin Running
  BY <1>1 DEF ComplianceState, Running, Idle
<1>4. /\ onboarding' \in OnboardingStatus /\ profile' \in Finding /\ owners' \subseteq Owners /\ shared' \in [Subjects -> SharedStatus]
      /\ flags' \in [Subjects -> SUBSET (Verifications \cup Screenings)]
      /\ checks' \in Seq(Check) /\ Len(checks') = Len(checks) /\ ChecksInv'
  BY <1>2 DEF ReflectInv, ComplianceTypeOK, ChecksInv, OnboardingStatus
<1>5. ReflectInv'
  BY <1>2, <1>3, <1>4, ReflectStays
<1>6. req'[r] = n
  BY <1>2, <1>3, BecomeTyped DEF ReflectInv, ComplianceTypeOK, ComplianceState, Processes
<1>7. req[r] # Idle
  BY DEF approved, at, Idle
<1> QED
  BY <1>1, <1>5, <1>6, <1>7

LEMMA CutShortReflects ==
  ASSUME ReflectInv, NEW r \in Requests, cutShort(r)
  PROVE  ReflectInv' /\ req'[r] = Idle /\ req[r] # Idle
<1>1. PICK n : n = Idle
  OBVIOUS
<1>2. become(r, n) /\ UNCHANGED <<onboarding, profile, owners, checks, flags, shared, cases>> /\ req[r] # Idle
  BY <1>1 DEF cutShort
<1>3. n \in ComplianceState /\ n \notin Running
  BY <1>1 DEF ComplianceState, Running, Idle
<1>4. /\ onboarding' \in OnboardingStatus /\ profile' \in Finding /\ owners' \subseteq Owners /\ shared' \in [Subjects -> SharedStatus]
      /\ flags' \in [Subjects -> SUBSET (Verifications \cup Screenings)]
      /\ checks' \in Seq(Check) /\ Len(checks') = Len(checks) /\ ChecksInv'
  BY <1>2 DEF ReflectInv, ComplianceTypeOK, ChecksInv
<1>5. ReflectInv'
  BY <1>2, <1>3, <1>4, ReflectStays
<1>6. req'[r] = n
  BY <1>2, <1>3, BecomeTyped DEF ReflectInv, ComplianceTypeOK, ComplianceState, Processes
<1> QED
  BY <1>1, <1>2, <1>5, <1>6

\* What the other operations write: neither checks nor flags, and no request moves.
Aside(r) ==
  \/ rejectKyc(r) \/ (\E p \in Profiles : rename(r, p))
  \/ (\E S \in SUBSET Owners : replaceOwners(r, S))
  \/ (\E status \in OnboardingStatus : setOnboarding(r, status))

LEMMA KybStatusReflects ==
  ASSUME ReflectInv, NEW r \in Requests, NEW flagged \in BOOLEAN, setKybStatus(r, flagged)
  PROVE  ReflectInv'
<1>1. UNCHANGED <<onboarding, profile, owners, checks, shared, cases, req>>
  BY DEF setKybStatus
<1>2. PICK set \in SUBSET (Verifications \cup Screenings) : flags' = [flags EXCEPT ![Company] = set]
  <2>1. flags[Company] \in SUBSET (Verifications \cup Screenings)
    BY DEF ReflectInv, ComplianceTypeOK, Subjects
  <2>2. flags' = [flags EXCEPT ![Company] = IF flagged THEN flags[Company] \cup {"BUSINESS_VERIFICATION"}
                                                     ELSE flags[Company] \ {"BUSINESS_VERIFICATION"}]
    BY DEF setKybStatus
  <2> QED
    BY <2>1, <2>2 DEF Verifications
<1>3. /\ flags' \in [Subjects -> SUBSET (Verifications \cup Screenings)] /\ shared' \in [Subjects -> SharedStatus]
      /\ onboarding' \in OnboardingStatus /\ profile' \in Finding /\ owners' \subseteq Owners
  BY <1>1, <1>2 DEF ReflectInv, ComplianceTypeOK
<1>4. checks' \in Seq(Check) /\ Len(checks') = Len(checks) /\ ChecksInv'
  BY <1>1 DEF ReflectInv, ComplianceTypeOK, ChecksInv
<1>5. r \in Processes /\ req \in [Processes -> ComplianceState] /\ become(r, req[r]) /\ req[r] \in ComplianceState
  BY <1>1, StayBecomes DEF ReflectInv, ComplianceTypeOK, ComplianceState, Processes
<1> QED
  BY <1>1, <1>3, <1>4, <1>5, ReflectStays

LEMMA ElsewhereReflects ==
  ASSUME ReflectInv, NEW r \in Requests, Aside(r)
  PROVE  ReflectInv'
<1>1. UNCHANGED <<checks, flags, shared, cases, req>>
  BY DEF Aside, rejectKyc, rename, replaceOwners, setOnboarding
<1>2. onboarding' \in OnboardingStatus
  BY DEF Aside, rejectKyc, rename, replaceOwners, setOnboarding, OnboardingStatus, ReflectInv, ComplianceTypeOK
<1>3. profile' \in Finding
  BY ComplianceAssumption DEF Aside, rejectKyc, rename, replaceOwners, setOnboarding, ReflectInv, ComplianceTypeOK
<1>4. owners' \subseteq Owners
  BY DEF Aside, rejectKyc, rename, replaceOwners, setOnboarding, ReflectInv, ComplianceTypeOK
<1>5. checks' \in Seq(Check) /\ Len(checks') = Len(checks) /\ ChecksInv'
  BY <1>1 DEF ReflectInv, ComplianceTypeOK, ChecksInv
<1>6. r \in Processes /\ req \in [Processes -> ComplianceState] /\ become(r, req[r]) /\ req[r] \in ComplianceState
  BY <1>1, StayBecomes DEF ReflectInv, ComplianceTypeOK, ComplianceState, Processes
<1>7. flags' \in [Subjects -> SUBSET (Verifications \cup Screenings)] /\ shared' \in [Subjects -> SharedStatus]
  BY <1>1 DEF ReflectInv, ComplianceTypeOK
<1> QED
  BY <1>1, <1>2, <1>3, <1>4, <1>5, <1>6, <1>7, ReflectStays

LEMMA ReflectUnchanged ==
  ASSUME ReflectInv, UNCHANGED <<complianceVars, req, scope>>
  PROVE  ReflectInv'
<1>1. UNCHANGED <<onboarding, profile, owners, checks, flags, shared, cases, req>>
  BY DEF complianceVars
<1>2. ComplianceTypeOK' /\ ChecksInv'
  BY <1>1 DEF ReflectInv, ComplianceTypeOK, ChecksInv
<1>3. RunsInv'
  <2>1. \A r \in Processes : req'[r] \in Running => RunAt(req[r])'
    BY <1>1 DEF ReflectInv, RunsInv, RunAt
  <2> QED
    BY <2>1 DEF RunsInv
<1>4. Room'
  BY <1>1 DEF ReflectInv, Room
<1> QED
  BY <1>2, <1>3, <1>4 DEF ReflectInv

LEMMA ReflectNext == ReflectInv /\ [ComplianceNext]_<<complianceVars, req, scope>> => ReflectInv'
<1> SUFFICES ASSUME ReflectInv, [ComplianceNext]_<<complianceVars, req, scope>> PROVE ReflectInv'
  OBVIOUS
<1>1. CASE UNCHANGED <<complianceVars, req, scope>>
  BY <1>1, ReflectUnchanged
<1>2. CASE ComplianceNext
  <2>1. PICK r \in Requests :
          \/ \E op \in Runs, s \in Subjects : run(r, op, s)
          \/ \E k \in DOMAIN checks : \/ \E d \in Decisions : reviewComplianceCheck(r, k, d)
                                      \/ expireComplianceCheck(r, k)
          \/ \E override \in BOOLEAN : approveKyc(r, override)
          \/ Aside(r) \/ (\E flagged \in BOOLEAN : setKybStatus(r, flagged))
          \/ query(r) \/ persistCheck(r) \/ updateFlags(r) \/ afterCheck(r) \/ approved(r) \/ cutShort(r)
    BY <1>2 DEF ComplianceNext, Aside, Proceed
  <2>2. CASE \E op \in Runs, s \in Subjects : run(r, op, s)
    BY <2>2, RunReflects
  <2>3. CASE \E k \in DOMAIN checks : \/ \E d \in Decisions : reviewComplianceCheck(r, k, d)
                                      \/ expireComplianceCheck(r, k)
    BY <2>3, ReviewReflects, ExpireReflects
  <2>4. CASE \E override \in BOOLEAN : approveKyc(r, override)
    BY <2>4, ApproveReflects
  <2>5. CASE Aside(r)
    BY <2>5, ElsewhereReflects
  <2>6. CASE query(r)
    BY <2>6, QueryReflects
  <2>7. CASE persistCheck(r)
    BY <2>7, PersistReflects
  <2>8. CASE updateFlags(r)
    BY <2>8, UpdateFlagsReflects
  <2>9. CASE afterCheck(r)
    BY <2>9, AfterCheckReflects
  <2>10. CASE approved(r)
    BY <2>10, ApprovedReflects
  <2>11. CASE cutShort(r)
    BY <2>11, CutShortReflects
  <2>12. CASE \E flagged \in BOOLEAN : setKybStatus(r, flagged)
    BY <2>12, KybStatusReflects
  <2> QED
    BY <2>1, <2>2, <2>3, <2>4, <2>5, <2>6, <2>7, <2>8, <2>9, <2>10, <2>11, <2>12
<1> QED
  BY <1>1, <1>2
-----------------------------------------------------------------------------
(* The flags of a subject and its latest checks                              *)

AllTypes == Verifications \cup Screenings

LEMMA AloneMoves ==
  ASSUME Alone, req \in [Processes -> ComplianceState], NEW r \in Processes, NEW n \in ComplianceState, become(r, n),
         req[r] # Idle \/ Quiet \/ n = req[r]
  PROVE  Alone'
<1>1. req'[r] = n /\ \A o \in Processes \ {r} : req'[o] = req[o]
  BY BecomeTyped
<1>2. n = req[r] \/ \A o \in Processes \ {r} : req[o] = Idle
  BY DEF Alone, Quiet
<1>3. ASSUME NEW a \in Processes, NEW b \in Processes, req'[a] # Idle, req'[b] # Idle
      PROVE  a = b
  BY <1>1, <1>2, <1>3 DEF Alone
<1> QED
  BY <1>3 DEF Alone

\* Checks that keep their subject and type are the latest they were.
LEMMA LatestKept ==
  ASSUME Len(checks') = Len(checks), DOMAIN checks' = DOMAIN checks,
         \A k \in DOMAIN checks : checks'[k].of = checks[k].of /\ checks'[k].type = checks[k].type,
         DOMAIN checks = 1..Len(checks), Len(checks) \in Nat,
         NEW s, NEW type, NEW k, k \in latestOf(s, type)'
  PROVE  k \in latestOf(s, type)
<1>1. /\ k \in DOMAIN checks' /\ checks'[k].of = s /\ checks'[k].type = type
      /\ \A j \in (k + 1)..Len(checks') : checks'[j].of # s \/ checks'[j].type # type
  BY DEF latestOf
<1>2. \A j \in (k + 1)..Len(checks) : j \in DOMAIN checks
  BY <1>1
<1> QED
  BY <1>1, <1>2 DEF latestOf

Appends(c) == checks \in Seq(Check) /\ checks' = Append(checks, c)

\* One more check is the latest of its subject and type, and leaves the others.
LEMMA LatestAppended ==
  ASSUME NEW c \in Check, Appends(c), NEW s, NEW type, NEW k, k \in latestOf(s, type)'
  PROVE  /\ c.of = s /\ c.type = type => checks'[k] = c
         /\ ~(c.of = s /\ c.type = type) => k \in latestOf(s, type) /\ checks'[k] = checks[k]
<1>1. /\ Len(checks) \in Nat /\ Len(checks') = Len(checks) + 1 /\ DOMAIN checks = 1..Len(checks)
      /\ DOMAIN checks' = 1..(Len(checks) + 1)
      /\ \A j \in 1..Len(checks) : checks'[j] = checks[j]
      /\ checks'[Len(checks) + 1] = c
  <2>1. Append(checks, c) \in Seq(Check) /\ Len(Append(checks, c)) = Len(checks) + 1
    BY AppendProperties DEF Appends
  <2>2. \A j \in 1..Len(checks) : Append(checks, c)[j] = checks[j]
    BY AppendProperties DEF Appends
  <2>3. Append(checks, c)[Len(checks) + 1] = c
    BY AppendProperties DEF Appends
  <2>4. DOMAIN Append(checks, c) = 1..Len(Append(checks, c))
    BY <2>1, LenProperties
  <2> QED
    BY <2>1, <2>2, <2>3, <2>4, LenProperties DEF Appends
<1>2. /\ k \in 1..(Len(checks) + 1) /\ checks'[k].of = s /\ checks'[k].type = type
      /\ \A j \in (k + 1)..(Len(checks) + 1) : checks'[j].of # s \/ checks'[j].type # type
  BY <1>1 DEF latestOf
<1>3. CASE c.of = s /\ c.type = type
  <2>1. k = Len(checks) + 1
    <3>1. k # Len(checks) + 1 => Len(checks) + 1 \in (k + 1)..(Len(checks) + 1)
      BY <1>1, <1>2
    <3> QED
      BY <1>1, <1>2, <1>3, <3>1
  <2> QED
    BY <1>1, <1>3, <2>1
<1>4. CASE ~(c.of = s /\ c.type = type)
  <2>1. k # Len(checks) + 1
    BY <1>1, <1>2, <1>4
  <2>2. k \in 1..Len(checks)
    BY <1>1, <1>2, <2>1
  <2>3. \A j \in (k + 1)..Len(checks) : j \in (k + 1)..(Len(checks) + 1) /\ j \in 1..Len(checks)
    BY <1>1, <2>2
  <2>4. k \in latestOf(s, type)
    BY <1>1, <1>2, <2>2, <2>3 DEF latestOf
  <2> QED
    BY <1>1, <1>4, <2>2, <2>4
<1> QED
  BY <1>3, <1>4

\* A step that writes no flags and stores no check, of a request that neither was nor comes to be
\* in the midst of storing.
LEMMA FlagsMove ==
  ASSUME ReflectInv, FlagsInv, NEW r \in Requests, NEW n \in ComplianceState, become(r, n),
         UNCHANGED <<flags, scope>>,
         "overlap" \notin scope => req[r] # Idle \/ Quiet \/ n = req[r],
         n = req[r] \/ \A s, type : ~Pending(req[r], s, type) /\ ~Pending(n, s, type),
         Len(checks') = Len(checks), DOMAIN checks' = DOMAIN checks,
         \A k \in DOMAIN checks : /\ checks'[k].of = checks[k].of /\ checks'[k].type = checks[k].type
                                 /\ checks'[k].result = checks[k].result
  PROVE  FlagsInv'
<1> SUFFICES ASSUME Without({"overlap", "crash", "kybStatus"})
             PROVE  /\ Alone'
                    /\ \A s \in Subjects : \A type \in AllTypes :
                         /\ Told(s, type)' \/ \E o \in Processes : Pending(req[o], s, type)'
                         /\ \A o \in Processes : Pending(req[o], s, type)' => StoredLatest(req[o], s, type)'
  BY DEF FlagsInv, Without, AllTypes
<1>1. r \in Processes /\ req \in [Processes -> ComplianceState] /\ DOMAIN checks = 1..Len(checks) /\ Len(checks) \in Nat
  BY LenProperties DEF ReflectInv, ComplianceTypeOK, ComplianceState, Processes
<1>2. req'[r] = n /\ \A o \in Processes \ {r} : req'[o] = req[o]
  BY <1>1, BecomeTyped
<1>3. "overlap" \notin scope
  BY DEF Without
<1>4. Alone'
  BY <1>1, <1>3, AloneMoves DEF FlagsInv
<1>5. ASSUME NEW s \in Subjects, NEW type \in AllTypes
      PROVE  /\ Told(s, type)' \/ \E o \in Processes : Pending(req[o], s, type)'
             /\ \A o \in Processes : Pending(req[o], s, type)' => StoredLatest(req[o], s, type)'
  <2>1. \A o \in Processes : Pending(req[o], s, type)' <=> Pending(req[o], s, type)
    <3>1. ASSUME NEW o \in Processes PROVE Pending(req[o], s, type)' <=> Pending(req[o], s, type)
      <4>1. Pending(req[o], s, type)' <=> Pending(req'[o], s, type)
        BY DEF Pending
      <4> QED
        BY <1>2, <4>1
    <3> QED
      BY <3>1
  <2>2. \A k \in latestOf(s, type)' : /\ k \in latestOf(s, type)
                                      /\ Adverse(checks'[k]) <=> Adverse(checks[k])
    <3>1. \A k \in latestOf(s, type)' : k \in latestOf(s, type)
      BY <1>1, LatestKept
    <3>2. \A k \in latestOf(s, type) : k \in DOMAIN checks
      BY DEF latestOf
    <3> QED
      BY <3>1, <3>2 DEF Adverse
  <2>3. /\ Told(s, type) \/ \E o \in Processes : Pending(req[o], s, type)
        /\ \A o \in Processes : Pending(req[o], s, type) => StoredLatest(req[o], s, type)
    BY <1>5 DEF FlagsInv, AllTypes
  <2>4. Told(s, type) => Told(s, type)'
    <3>1. ASSUME Told(s, type), NEW k, k \in latestOf(s, type)'
          PROVE  type \in flags'[s] <=> Adverse(checks'[k])
      <4>1. k \in latestOf(s, type)
        BY <2>2, <3>1
      <4>2. Adverse(checks'[k]) <=> Adverse(checks[k])
        BY <2>2, <3>1
      <4>3. type \in flags[s] <=> Adverse(checks[k])
        BY <3>1, <4>1 DEF Told
      <4>4. flags'[s] = flags[s]
        OBVIOUS
      <4> QED
        BY <4>2, <4>3, <4>4
    <3>2. (\A k \in latestOf(s, type)' : type \in flags'[s] <=> Adverse(checks'[k])) => Told(s, type)'
      BY DEF Told, Adverse
    <3> QED
      BY <3>1, <3>2
  <2>5. ASSUME NEW o \in Processes, Pending(req[o], s, type)'
        PROVE  StoredLatest(req[o], s, type)'
    <3>1. Pending(req[o], s, type) /\ StoredLatest(req[o], s, type)
      BY <2>1, <2>3, <2>5
    <3>2. req'[o] = req[o]
      BY <1>2, <3>1
    <3>3. ASSUME NEW k, k \in latestOf(s, type)'
          PROVE  \E j \in 1..req'[o].stored : /\ req'[o].found[j].type = type
                                              /\ Adverse(checks'[k]) <=> Adverse(req'[o].found[j])
      <4>1. k \in latestOf(s, type) /\ (Adverse(checks'[k]) <=> Adverse(checks[k]))
        BY <2>2, <3>3
      <4>2. PICK j \in 1..req[o].stored :
              req[o].found[j].type = type /\ (Adverse(checks[k]) <=> Adverse(req[o].found[j]))
        BY <3>1, <4>1 DEF StoredLatest
      <4> QED
        BY <3>2, <4>1, <4>2
    <3> QED
      BY <3>3 DEF StoredLatest, Adverse
  <2> QED
    BY <2>1, <2>3, <2>4, <2>5
<1> QED
  BY <1>4, <1>5

LEMMA PersistFlags ==
  ASSUME ReflectInv, FlagsInv, NEW r \in Requests, persistCheck(r)
  PROVE  FlagsInv'
<1> SUFFICES ASSUME Without({"overlap", "crash", "kybStatus"})
             PROVE  /\ Alone'
                    /\ \A s \in Subjects : \A type \in AllTypes :
                         /\ Told(s, type)' \/ \E o \in Processes : Pending(req[o], s, type)'
                         /\ \A o \in Processes : Pending(req[o], s, type)' => StoredLatest(req[o], s, type)'
  BY DEF FlagsInv, Without, AllTypes, persistCheck
<1>1. r \in Processes /\ req \in [Processes -> ComplianceState] /\ checks \in Seq(Check)
  BY DEF ReflectInv, ComplianceTypeOK, ComplianceState, Processes
<1>2. PICK q \in Running, n \in Running, c \in Check :
        /\ q = req[r] /\ n = req'[r] /\ RunAt(q) /\ c = q.found[q.stored + 1] /\ c.of = q.of
        /\ checks' = Append(checks, c)
        /\ n.of = q.of /\ n.found = q.found /\ n.stored = q.stored + 1 /\ n.phase \in {"persist", "flags"}
        /\ q.phase = "persist" /\ q.stored \in Nat
  <2>1. /\ req[r] \in Running /\ RunAt(req[r]) /\ req[r].stored + 1 \in DOMAIN req[r].found
        /\ checks' = Append(checks, req[r].found[req[r].stored + 1])
        /\ req'[r] \in Running /\ req'[r].of = req[r].of /\ req'[r].found = req[r].found
        /\ req'[r].stored = req[r].stored + 1 /\ req'[r].phase \in {"persist", "flags"}
        /\ req[r].phase = "persist"
    BY PersistReflects
  <2>2. req[r].found \in Seq(Check) /\ req[r].stored \in Nat
    BY <2>1 DEF Running
  <2>3. req[r].found[req[r].stored + 1] \in Check
    BY <2>1, <2>2, ElementOfSeq, LenProperties
  <2>4. req[r].found[req[r].stored + 1].of = req[r].of
    BY <2>1 DEF RunAt, FindingsOf
  <2> QED
    BY <2>1, <2>2, <2>3, <2>4
<1>3. UNCHANGED flags /\ (\A o \in Processes \ {r} : req'[o] = req[o])
  BY <1>1 DEF persistCheck, become
<1>4. Alone'
  <2>1. Alone /\ req[r] # Idle /\ become(r, n) /\ n \in ComplianceState
    <3>1. become(r, n)
      BY <1>1, <1>2 DEF persistCheck, become
    <3>2. req[r] # Idle
      BY <1>2 DEF Idle
    <3> QED
      BY <1>2, <3>1, <3>2 DEF ComplianceState, FlagsInv
  <2> QED
    BY <1>1, <2>1, AloneMoves
<1>5. ASSUME NEW s \in Subjects, NEW type \in AllTypes
      PROVE  /\ Told(s, type)' \/ \E o \in Processes : Pending(req[o], s, type)'
             /\ \A o \in Processes : Pending(req[o], s, type)' => StoredLatest(req[o], s, type)'
  <2>1. /\ Told(s, type) \/ \E o \in Processes : Pending(req[o], s, type)
        /\ \A o \in Processes : Pending(req[o], s, type) => StoredLatest(req[o], s, type)
    BY <1>5 DEF FlagsInv, AllTypes
  <2>alone. \A o \in Processes : Pending(req[o], s, type)' => o = r /\ Pending(n, s, type)
    <3>1. ASSUME NEW o \in Processes, Pending(req[o], s, type)' PROVE o = r /\ Pending(n, s, type)
      <4>1. req'[o] \in Running /\ Pending(req'[o], s, type)
        BY <3>1 DEF Pending
      <4>2. req'[o] # Idle /\ req'[r] # Idle
        BY <1>2, <4>1 DEF Running, Idle
      <4>3. o = r
        BY <1>1, <1>4, <4>2 DEF Alone
      <4> QED
        BY <1>2, <4>1, <4>3
    <3> QED
      BY <3>1
  <2>latest. \A k \in latestOf(s, type)' :
               /\ c.of = s /\ c.type = type => checks'[k] = c
               /\ ~(c.of = s /\ c.type = type) => k \in latestOf(s, type) /\ checks'[k] = checks[k]
    <3>1. Appends(c)
      BY <1>1, <1>2 DEF Appends
    <3> QED
      BY <3>1, LatestAppended
  <2>2. CASE c.of = s /\ c.type = type
    <3>1. q.stored + 1 \in 1..n.stored /\ n.found[q.stored + 1] = c
      BY <1>2
    <3>2. Pending(n, s, type)
      BY <1>2, <2>2, <3>1 DEF Pending
    <3>3. Pending(req[r], s, type)'
      BY <1>2, <3>2 DEF Pending
    <3>4. ASSUME NEW k, k \in latestOf(s, type)'
          PROVE  \E j \in 1..n.stored : n.found[j].type = type /\ (Adverse(checks'[k]) <=> Adverse(n.found[j]))
      <4>1. checks'[k] = c
        BY <2>2, <2>latest, <3>4
      <4> QED
        BY <2>2, <3>1, <4>1
    <3>5. StoredLatest(req[r], s, type)'
      BY <1>2, <3>4 DEF StoredLatest, Adverse
    <3> QED
      BY <1>1, <2>alone, <3>3, <3>5
  <2>3. CASE ~(c.of = s /\ c.type = type)
    <3>1. \A k \in latestOf(s, type)' : k \in latestOf(s, type) /\ checks'[k] = checks[k]
      BY <2>3, <2>latest
    <3>2. Pending(n, s, type) <=> Pending(q, s, type)
      <4>1. \A j \in 1..n.stored : j \in 1..q.stored \/ j = q.stored + 1
        BY <1>2
      <4>2. \A j \in 1..q.stored : j \in 1..n.stored
        BY <1>2
      <4>3. n.of = s => c.type # type
        BY <1>2, <2>3
      <4> QED
        BY <1>2, <4>1, <4>2, <4>3 DEF Pending
    <3>3. Told(s, type) => Told(s, type)'
      <4>1. ASSUME Told(s, type), NEW k, k \in latestOf(s, type)'
            PROVE  type \in flags'[s] <=> Adverse(checks'[k])
        BY <1>3, <3>1, <4>1 DEF Told
      <4>2. (\A k \in latestOf(s, type)' : type \in flags'[s] <=> Adverse(checks'[k])) => Told(s, type)'
        BY DEF Told, Adverse
      <4> QED
        BY <4>1, <4>2
    <3>4. ASSUME NEW o \in Processes, Pending(req[o], s, type)
          PROVE  Pending(req[r], s, type)'
      <4>1. o = r
        <5>1. req[o] \in Running
          BY <3>4 DEF Pending
        <5>2. req[o] # Idle /\ req[r] # Idle
          BY <1>2, <5>1 DEF Running, Idle
        <5> QED
          BY <1>1, <5>2 DEF FlagsInv, Alone
      <4>2. Pending(n, s, type)
        BY <1>2, <3>2, <3>4, <4>1
      <4> QED
        BY <1>2, <4>2 DEF Pending
    <3>5. ASSUME NEW o \in Processes, Pending(req[o], s, type)'
          PROVE  StoredLatest(req[o], s, type)'
      <4>1. o = r /\ Pending(q, s, type)
        BY <2>alone, <3>2, <3>5
      <4>2. StoredLatest(q, s, type)
        BY <1>1, <1>2, <2>1, <4>1
      <4>3. \A j \in 1..q.stored : j \in 1..n.stored
        BY <1>2
      <4>4. ASSUME NEW k, k \in latestOf(s, type)'
            PROVE  \E j \in 1..n.stored : n.found[j].type = type /\ (Adverse(checks'[k]) <=> Adverse(n.found[j]))
        <5>1. k \in latestOf(s, type) /\ checks'[k] = checks[k]
          BY <3>1, <4>4
        <5>2. PICK j \in 1..q.stored : q.found[j].type = type /\ (Adverse(checks[k]) <=> Adverse(q.found[j]))
          BY <4>2, <5>1 DEF StoredLatest
        <5> QED
          BY <1>2, <4>3, <5>1, <5>2
      <4> QED
        BY <1>2, <4>1, <4>4 DEF StoredLatest, Adverse
    <3> QED
      BY <1>1, <2>1, <3>3, <3>4, <3>5
  <2> QED
    BY <2>2, <2>3
<1> QED
  BY <1>4, <1>5

LEMMA UpdateSettles ==
  ASSUME ReflectInv, FlagsInv, NEW r \in Requests, updateFlags(r)
  PROVE  FlagsInv'
<1> SUFFICES ASSUME Without({"overlap", "crash", "kybStatus"})
             PROVE  /\ Alone'
                    /\ \A s \in Subjects : \A type \in AllTypes :
                         /\ Told(s, type)' \/ \E o \in Processes : Pending(req[o], s, type)'
                         /\ \A o \in Processes : Pending(req[o], s, type)' => StoredLatest(req[o], s, type)'
  BY DEF FlagsInv, Without, AllTypes, updateFlags
<1>1. r \in Processes /\ req \in [Processes -> ComplianceState] /\ flags \in [Subjects -> SUBSET AllTypes]
  BY DEF ReflectInv, ComplianceTypeOK, ComplianceState, Processes, AllTypes
<1>2. PICK q \in Running, n \in Running :
        /\ q = req[r] /\ n = req'[r] /\ RunAt(q) /\ q.phase = "flags" /\ n.phase = "after" /\ q.of \in Subjects
        /\ q.stored = Len(q.found) /\ DOMAIN q.found = 1..q.stored /\ FindingsOf(q.of, q.found)
        /\ checks' = checks
        /\ flags' = [flags EXCEPT ![q.of] = (@ \ TypesIn(q.found)) \cup Flagged(q.found)]
  <2>1. /\ req[r] \in Running /\ RunAt(req[r]) /\ req[r].phase = "flags"
        /\ req'[r] \in Running /\ req'[r].phase = "after"
    BY UpdateFlagsReflects
  <2>2. /\ checks' = checks
        /\ flags' = [flags EXCEPT ![req[r].of] = (@ \ TypesIn(req[r].found)) \cup Flagged(req[r].found)]
    BY DEF updateFlags
  <2>3. req[r].found \in Seq(Check) /\ req[r].of \in Subjects
    BY <2>1 DEF Running
  <2>4. req[r].stored = Len(req[r].found) /\ FindingsOf(req[r].of, req[r].found)
    BY <2>1 DEF RunAt
  <2> QED
    BY <2>1, <2>2, <2>3, <2>4, LenProperties
<1>3. become(r, n) /\ n \in ComplianceState /\ req[r] # Idle
  <2>1. become(r, n)
    BY <1>1, <1>2 DEF updateFlags, become
  <2> QED
    BY <1>2, <2>1 DEF ComplianceState, Idle
<1>4. Alone'
  BY <1>1, <1>3, AloneMoves DEF FlagsInv
<1>5. ASSUME NEW s \in Subjects, NEW type \in AllTypes
      PROVE  Told(s, type)' /\ \A o \in Processes : ~Pending(req[o], s, type)'
  <2>1. /\ Told(s, type) \/ \E o \in Processes : Pending(req[o], s, type)
        /\ \A o \in Processes : Pending(req[o], s, type) => StoredLatest(req[o], s, type)
    BY <1>5 DEF FlagsInv, AllTypes
  <2>2. ASSUME NEW o \in Processes, Pending(req[o], s, type)' PROVE FALSE
    <3>1. req'[o] \in Running /\ req'[o].phase \in {"persist", "flags"}
      BY <2>2 DEF Pending
    <3>2. req'[o] # Idle /\ req'[r] # Idle
      BY <1>2, <3>1 DEF Running, Idle
    <3>3. o = r
      BY <1>1, <1>4, <3>2 DEF Alone
    <3> QED
      BY <1>2, <3>1, <3>3
  <2>3. ASSUME NEW o \in Processes, Pending(req[o], s, type) PROVE Pending(q, s, type)
    <3>1. req[o] \in Running
      BY <2>3 DEF Pending
    <3>2. req[o] # Idle
      BY <3>1 DEF Running, Idle
    <3> QED
      BY <1>1, <1>2, <1>3, <2>3, <3>2 DEF FlagsInv, Alone
  <2>4. Flagged(q.found) \subseteq TypesIn(q.found)
    BY DEF Flagged, TypesIn
  <2>5. \A k : k \in latestOf(s, type)' => k \in latestOf(s, type)
    BY <1>2 DEF latestOf
  <2>6. ASSUME NEW k \in latestOf(s, type)
        PROVE  type \in flags'[s] <=> Adverse(checks[k])
    <3>1. CASE ~Pending(q, s, type)
      <4>1. type \in flags[s] <=> Adverse(checks[k])
        BY <2>1, <2>3, <2>6, <3>1 DEF Told
      <4>2. s = q.of => type \notin TypesIn(q.found)
        BY <1>2, <3>1 DEF Pending, TypesIn
      <4>3. type \in flags'[s] <=> type \in flags[s]
        BY <1>1, <1>2, <2>4, <4>2
      <4> QED
        BY <4>1, <4>3
    <3>2. CASE Pending(q, s, type)
      <4>1. s = q.of /\ StoredLatest(q, s, type)
        BY <1>1, <1>2, <2>1, <3>2 DEF Pending
      <4>2. PICK j \in DOMAIN q.found : q.found[j].type = type /\ (Adverse(checks[k]) <=> Adverse(q.found[j]))
        BY <1>2, <2>6, <4>1 DEF StoredLatest
      <4>3. type \in TypesIn(q.found)
        BY <4>2 DEF TypesIn
      <4>4. type \in flags'[s] <=> type \in Flagged(q.found)
        BY <1>1, <1>2, <4>1, <4>3
      <4>5. type \in Flagged(q.found) <=> Adverse(q.found[j])
        <5>1. \A i \in DOMAIN q.found :
                /\ q.found[i].reviewRequired <=> Adverse(q.found[i])
                /\ q.found[i].type = type => (Adverse(q.found[i]) <=> Adverse(q.found[j]))
          BY <1>2, <4>2 DEF FindingsOf
        <5> QED
          BY <4>2, <5>1 DEF Flagged
      <4> QED
        BY <4>2, <4>4, <4>5
    <3> QED
      BY <3>1, <3>2
  <2>7. Told(s, type)'
    <3>1. ASSUME NEW k, k \in latestOf(s, type)' PROVE type \in flags'[s] <=> Adverse(checks'[k])
      BY <1>2, <2>5, <2>6, <3>1
    <3> QED
      BY <3>1 DEF Told, Adverse
  <2> QED
    BY <2>2, <2>7
<1> QED
  BY <1>4, <1>5

LEMMA FlagsInit == ComplianceInit => FlagsInv
<1> SUFFICES ASSUME ComplianceInit PROVE FlagsInv
  OBVIOUS
<1>1. \A r \in Processes : req[r] = Idle
  BY DEF ComplianceInit, ServiceInit
<1>2. \A s, type : latestOf(s, type) = {}
  BY DEF ComplianceInit, latestOf
<1>3. Alone
  BY <1>1 DEF Alone
<1>4. \A s, type : Told(s, type)
  BY <1>2 DEF Told
<1>5. \A r \in Processes : \A s, type : ~Pending(req[r], s, type)
  BY <1>1 DEF Pending, Running, Idle
<1> QED
  BY <1>3, <1>4, <1>5 DEF FlagsInv

LEMMA OutsideStoring ==
  ASSUME NEW q, q.phase \notin {"persist", "flags"} \/ q.stored = 0
  PROVE  \A s, type : ~Pending(q, s, type)
<1>1. q.stored = 0 => 1..q.stored = {}
  OBVIOUS
<1> QED
  BY <1>1 DEF Pending

LEMMA FlagsNext ==
  ReflectInv /\ FlagsInv /\ [ComplianceNext]_<<complianceVars, req, scope>> => FlagsInv'
<1> SUFFICES ASSUME ReflectInv, FlagsInv, [ComplianceNext]_<<complianceVars, req, scope>> PROVE FlagsInv'
  OBVIOUS
<1>0. /\ req \in [Processes -> ComplianceState] /\ req' \in [Processes -> ComplianceState]
  BY ReflectNext DEF ReflectInv, ComplianceTypeOK, ComplianceState
<1>1. CASE UNCHANGED <<complianceVars, req, scope>>
  BY <1>1 DEF complianceVars, FlagsInv, Without, Alone, Told, Pending, StoredLatest, latestOf, Adverse
<1>2. CASE ComplianceNext
  <2>1. PICK r \in Requests :
          \/ \E op \in Runs, s \in Subjects : run(r, op, s)
          \/ \E k \in DOMAIN checks : \/ \E d \in Decisions : reviewComplianceCheck(r, k, d)
                                      \/ expireComplianceCheck(r, k)
          \/ \E override \in BOOLEAN : approveKyc(r, override)
          \/ Aside(r) \/ (\E flagged \in BOOLEAN : setKybStatus(r, flagged))
          \/ query(r) \/ persistCheck(r) \/ updateFlags(r) \/ afterCheck(r) \/ approved(r) \/ cutShort(r)
    BY <1>2 DEF ComplianceNext, Aside, Proceed
  <2>0. r \in Processes
    BY DEF Processes
  <2>n. PICK n \in ComplianceState : n = req'[r]
    BY <1>0, <2>0
  <2>idle. \A op : mayBegin(r, op) => req[r] = Idle /\ ("overlap" \notin scope => Quiet)
    BY DEF mayBegin
  <2>none. \A s, type : ~Pending(Idle, s, type)
    BY DEF Pending, Running, Idle
  <2>2. CASE \E op \in Runs, s \in Subjects : run(r, op, s)
    <3>1. PICK op \in Runs, s \in Subjects : run(r, op, s)
      BY <2>2
    <3>2. n.phase = "query"
      BY <2>n, <3>1, RunReflects
    <3>3. become(r, n) /\ UNCHANGED <<checks, flags, scope>> /\ mayBegin(r, op)
      BY <1>0, <2>0, <2>n, <3>1 DEF run, become
    <3>4. \A t, type : ~Pending(n, t, type)
      BY <3>2, OutsideStoring
    <3> QED
      BY <2>idle, <2>none, <3>3, <3>4, FlagsMove
  <2>3. CASE \E k \in DOMAIN checks : \/ \E d \in Decisions : reviewComplianceCheck(r, k, d)
                                      \/ expireComplianceCheck(r, k)
    <3>1. /\ Len(checks') = Len(checks) /\ DOMAIN checks' = DOMAIN checks
          /\ \A j \in DOMAIN checks : /\ checks'[j].of = checks[j].of /\ checks'[j].type = checks[j].type
                                      /\ checks'[j].result = checks[j].result
      BY <2>3, ReviewReflects, ExpireReflects
    <3>2. UNCHANGED <<flags, req, scope>> /\ (mayBegin(r, "review") \/ mayBegin(r, "expire"))
      BY <2>3 DEF reviewComplianceCheck, expireComplianceCheck
    <3>3. become(r, n) /\ n = req[r]
      BY <1>0, <2>0, <2>n, <3>2, StayBecomes
    <3> QED
      BY <3>1, <3>2, <3>3, FlagsMove
  <2>4. CASE \E override \in BOOLEAN : approveKyc(r, override)
    <3>1. PICK override \in BOOLEAN : approveKyc(r, override)
      BY <2>4
    <3>2. n.phase = "approving"
      BY <2>n, <3>1, ApproveReflects
    <3>3. /\ become(r, n) /\ UNCHANGED <<checks, flags, scope>>
          /\ mayBegin(r, "override") \/ mayBegin(r, "approve")
      BY <1>0, <2>0, <2>n, <3>1 DEF approveKyc, become
    <3>4. \A t, type : ~Pending(n, t, type)
      BY <3>2, OutsideStoring
    <3> QED
      BY <2>idle, <2>none, <3>3, <3>4, FlagsMove
  <2>5. CASE Aside(r)
    <3>1. UNCHANGED <<checks, flags, req, scope>>
      BY <2>5 DEF Aside, rejectKyc, rename, replaceOwners, setOnboarding
    <3>2. become(r, n) /\ n = req[r]
      BY <1>0, <2>0, <2>n, <3>1, StayBecomes
    <3> QED
      BY <3>1, <3>2, FlagsMove
  <2>6. CASE query(r)
    <3>1. n.stored = 0 /\ req[r].phase = "query" /\ req[r] # Idle
      BY <2>6, <2>n, QueryReflects DEF Idle
    <3>2. become(r, n) /\ UNCHANGED <<checks, flags, scope>>
      BY <1>0, <2>0, <2>n, <2>6 DEF query, become
    <3>3. \A t, type : ~Pending(n, t, type) /\ ~Pending(req[r], t, type)
      BY <3>1, OutsideStoring
    <3> QED
      BY <3>1, <3>2, <3>3, FlagsMove
  <2>7. CASE persistCheck(r)
    BY <2>7, PersistFlags
  <2>8. CASE updateFlags(r)
    BY <2>8, UpdateSettles
  <2>9. CASE afterCheck(r)
    <3>1. /\ req[r].phase = "after" /\ req[r] # Idle
          /\ n = Idle \/ n.phase = "query"
      BY <2>9, <2>n, AfterCheckReflects DEF Idle
    <3>2. become(r, n) /\ UNCHANGED <<checks, flags, scope>>
      BY <1>0, <2>0, <2>n, <2>9 DEF afterCheck, become
    <3>3. \A t, type : ~Pending(n, t, type) /\ ~Pending(req[r], t, type)
      BY <2>none, <3>1, OutsideStoring
    <3> QED
      BY <3>1, <3>2, <3>3, FlagsMove
  <2>10. CASE approved(r)
    <3>1. req[r].phase = "approving" /\ req[r] # Idle /\ n = Idle
      BY <2>10, <2>n, ApprovedReflects DEF approved, at
    <3>2. become(r, n) /\ UNCHANGED <<checks, flags, scope>>
      BY <1>0, <2>0, <2>n, <2>10 DEF approved, become
    <3>3. \A t, type : ~Pending(n, t, type) /\ ~Pending(req[r], t, type)
      BY <2>none, <3>1, OutsideStoring
    <3> QED
      BY <3>1, <3>2, <3>3, FlagsMove
  <2>11. CASE cutShort(r)
    BY <2>11 DEF cutShort, FlagsInv, Without
  <2>12. CASE \E flagged \in BOOLEAN : setKybStatus(r, flagged)
    BY <2>12 DEF setKybStatus, mayBegin, FlagsInv, Without
  <2> QED
    BY <2>1, <2>2, <2>3, <2>4, <2>5, <2>6, <2>7, <2>8, <2>9, <2>10, <2>11, <2>12
<1> QED
  BY <1>1, <1>2

\* A run writes CLEAR only if it flags nothing, and it wrote the flags of all its types.
LEMMA SharedNext ==
  ReflectInv /\ SharedInv /\ [ComplianceNext]_<<complianceVars, req, scope>> => SharedInv'
<1> SUFFICES ASSUME ReflectInv, SharedInv, [ComplianceNext]_<<complianceVars, req, scope>> PROVE SharedInv'
  OBVIOUS
<1>1. CASE UNCHANGED <<flags, shared, scope>>
  BY <1>1 DEF SharedInv, Without
<1>2. CASE \E r \in Requests, flagged \in BOOLEAN : setKybStatus(r, flagged)
  BY <1>2 DEF setKybStatus, mayBegin, SharedInv, Without
<1>3. CASE \E r \in Requests : updateFlags(r)
  <2>1. PICK r \in Requests : updateFlags(r)
    BY <1>3
  <2>2. PICK q \in Running : q = req[r] /\ RunAt(q) /\ q.phase = "flags" /\ q.of \in Subjects
    <3>1. req[r] \in Running /\ RunAt(req[r]) /\ req[r].phase = "flags"
      BY <2>1, UpdateFlagsReflects
    <3> QED
      BY <3>1 DEF Running
  <2>3. PICK now \in SharedStatus : now = sharedStatus(shared[q.of], q)
    <3>1. shared[q.of] \in SharedStatus
      BY <2>2 DEF ReflectInv, ComplianceTypeOK
    <3> QED
      BY <3>1, SharedIsTyped
  <2>4. /\ shared' = [shared EXCEPT ![q.of] = now]
        /\ flags' = [flags EXCEPT ![q.of] = (flags[q.of] \ TypesIn(q.found)) \cup Flagged(q.found)]
        /\ UNCHANGED scope
    BY <2>1, <2>2, <2>3 DEF updateFlags
  <2>5. now.review = "CLEAR" => Flagged(q.found) = {}
    BY <2>3 DEF sharedStatus
  <2>6. TypesIn(q.found) \in {{verificationOf(q.of)}, Screenings}
    <3>1. q.found # <<>> /\ FindingsOf(q.of, q.found)
      BY <2>2 DEF RunAt
    <3> QED
      BY <3>1 DEF FindingsOf
  <2>7. shared \in [Subjects -> SharedStatus] /\ flags \in [Subjects -> SUBSET (Verifications \cup Screenings)]
    BY DEF ReflectInv, ComplianceTypeOK
  <2>8. ASSUME Without({"kybStatus"}), NEW s \in Subjects, shared'[s].review = "CLEAR"
        PROVE  \E types \in {{verificationOf(s)}, Screenings} : types \cap flags'[s] = {}
    <3>1. CASE s = q.of
      <4>1. shared'[s] = now
        BY <2>2, <2>4, <2>7, <3>1
      <4>2. Flagged(q.found) = {}
        BY <2>5, <2>8, <4>1
      <4>3. flags'[s] = flags[s] \ TypesIn(q.found)
        BY <2>2, <2>4, <2>7, <3>1, <4>2
      <4> QED
        BY <2>6, <3>1, <4>3
    <3>2. CASE s # q.of
      <4>1. shared'[s] = shared[s] /\ flags'[s] = flags[s]
        BY <2>4, <2>7, <3>2
      <4> QED
        BY <2>8, <4>1 DEF SharedInv
    <3> QED
      BY <3>1, <3>2
  <2> QED
    BY <2>4, <2>8 DEF SharedInv, Without
<1> QED
  BY <1>1, <1>2, <1>3 DEF ComplianceNext, Proceed, complianceVars, run, query, persistCheck, afterCheck, approved,
    reviewComplianceCheck, expireComplianceCheck, approveKyc, rejectKyc, rename, replaceOwners,
    setOnboarding, cutShort
-----------------------------------------------------------------------------
(* A company without owners is approved on its own checks                    *)

OwnScope == Without({"overlap", "owners", "override"}) /\ owners = {}

LEMMA ReadyKept ==
  ASSUME UNCHANGED <<checks, owners>>, assertComplianceReadyForApproval
  PROVE  assertComplianceReadyForApproval'
  BY DEF assertComplianceReadyForApproval, latestByType, some

\* A step of one request that leaves the owners alone.
LEMMA OwnMoves ==
  ASSUME ReflectInv, OwnInv, NEW r \in Requests, NEW n \in ComplianceState, become(r, n),
         UNCHANGED <<owners, scope>>,
         OwnScope => /\ req[r] # Idle \/ Quiet
                     /\ \A k \in DOMAIN checks' : checks'[k].of = Company
                     /\ n \in Running => n.of = Company
                     /\ n.phase = "approving" => assertComplianceReadyForApproval'
  PROVE  OwnInv'
<1> SUFFICES ASSUME OwnScope PROVE OwnInv'
  BY DEF OwnInv, OwnScope, Without
<1>1. r \in Processes /\ req \in [Processes -> ComplianceState]
  BY DEF ReflectInv, ComplianceTypeOK, ComplianceState, Processes
<1>2. req'[r] = n /\ \A o \in Processes \ {r} : req'[o] = req[o]
  BY <1>1, BecomeTyped
<1>3. /\ Alone /\ \A o \in Processes : req[o] \in Running => req[o].of = Company
  BY DEF OwnInv, OwnScope
<1>4. Alone'
  BY <1>1, <1>3, AloneMoves
<1>5. \A o \in Processes : req'[o] \in Running => req'[o].of = Company
  BY <1>2, <1>3
<1>6. ASSUME NEW o \in Processes, req'[o].phase = "approving"
      PROVE  assertComplianceReadyForApproval'
  <2>1. CASE o = r
    BY <1>2, <1>6, <2>1
  <2>2. CASE o # r
    <3>1. req[o] = req'[o] /\ req[o] # Idle
      BY <1>2, <1>6, <2>2 DEF Idle
    <3>2. req[r] = Idle /\ ~Quiet
      BY <1>1, <1>3, <2>2, <3>1 DEF Alone, Quiet
    <3> QED
      BY <3>2
  <2> QED
    BY <2>1, <2>2
<1>7. \A k \in DOMAIN checks' : checks'[k].of = Company
  OBVIOUS
<1> QED
  BY <1>4, <1>5, <1>6, <1>7 DEF OwnInv, at

LEMMA OwnInit == ComplianceInit => OwnInv
<1> SUFFICES ASSUME ComplianceInit PROVE OwnInv
  OBVIOUS
<1>1. \A r \in Processes : req[r] = Idle
  BY DEF ComplianceInit, ServiceInit
<1>2. DOMAIN checks = {}
  BY DEF ComplianceInit
<1>3. Idle \notin Running /\ Idle.phase # "approving"
  BY DEF Idle, Running
<1> QED
  BY <1>1, <1>2, <1>3 DEF OwnInv, Alone, at

LEMMA OwnNext ==
  ReflectInv /\ OwnInv /\ [ComplianceNext]_<<complianceVars, req, scope>> => OwnInv'
<1> SUFFICES ASSUME ReflectInv, OwnInv, [ComplianceNext]_<<complianceVars, req, scope>> PROVE OwnInv'
  OBVIOUS
<1>0. /\ req \in [Processes -> ComplianceState] /\ req' \in [Processes -> ComplianceState]
  BY ReflectNext DEF ReflectInv, ComplianceTypeOK, ComplianceState
<1>1. CASE UNCHANGED <<complianceVars, req, scope>>
  <2>1. UNCHANGED <<checks, owners, req, scope>>
    BY <1>1 DEF complianceVars
  <2> QED
    BY <2>1, ReadyKept DEF OwnInv, Without, Alone, at
<1>2. CASE ComplianceNext
  <2>1. PICK r \in Requests :
          \/ \E op \in Runs, s \in Subjects : run(r, op, s)
          \/ \E k \in DOMAIN checks : \/ \E d \in Decisions : reviewComplianceCheck(r, k, d)
                                      \/ expireComplianceCheck(r, k)
          \/ \E override \in BOOLEAN : approveKyc(r, override)
          \/ Aside(r) \/ (\E flagged \in BOOLEAN : setKybStatus(r, flagged))
          \/ query(r) \/ persistCheck(r) \/ updateFlags(r) \/ afterCheck(r) \/ approved(r) \/ cutShort(r)
    BY <1>2 DEF ComplianceNext, Aside, Proceed
  <2>0. r \in Processes
    BY DEF Processes
  <2>n. PICK n \in ComplianceState : n = req'[r]
    BY <1>0, <2>0
  <2>idle. OwnScope => \A op : mayBegin(r, op) => Quiet /\ op \notin {"owners", "override"}
    BY DEF mayBegin, OwnScope, Without
  <2>own. OwnScope => /\ \A k \in DOMAIN checks : checks[k].of = Company
                      /\ req[r] \in Running => req[r].of = Company
    BY <2>0 DEF OwnInv, OwnScope
  <2>2. CASE \E op \in Runs, s \in Subjects : run(r, op, s)
    <3>1. PICK op \in Runs, s \in Subjects : run(r, op, s)
      BY <2>2
    <3>2. n.phase = "query" /\ n.of = s
      BY <2>n, <3>1, RunReflects
    <3>3. become(r, n) /\ UNCHANGED <<checks, owners, scope>> /\ mayBegin(r, op) /\ s \in {Company} \cup owners
      BY <1>0, <2>0, <2>n, <3>1 DEF run, become
    <3>4. OwnScope => s = Company
      BY <3>3 DEF OwnScope
    <3> QED
      BY <2>idle, <2>own, <3>2, <3>3, <3>4, OwnMoves
  <2>3. CASE \E k \in DOMAIN checks : \/ \E d \in Decisions : reviewComplianceCheck(r, k, d)
                                      \/ expireComplianceCheck(r, k)
    <3>1. /\ DOMAIN checks' = DOMAIN checks
          /\ \A j \in DOMAIN checks : checks'[j].of = checks[j].of
      BY <2>3, ReviewReflects, ExpireReflects
    <3>2. UNCHANGED <<owners, req, scope>> /\ (mayBegin(r, "review") \/ mayBegin(r, "expire")) /\ req[r] = Idle
      BY <2>3 DEF reviewComplianceCheck, expireComplianceCheck, mayBegin
    <3>3. become(r, n) /\ n = Idle
      BY <1>0, <2>0, <2>n, <3>2, StayBecomes
    <3>4. n \notin Running /\ n.phase # "approving"
      BY <3>3 DEF Idle, Running
    <3> QED
      BY <2>idle, <2>own, <3>1, <3>2, <3>3, <3>4, OwnMoves
  <2>4. CASE \E override \in BOOLEAN : approveKyc(r, override)
    <3>1. PICK override \in BOOLEAN : approveKyc(r, override)
      BY <2>4
    <3>2. n \notin Running
      BY <2>n, <3>1, ApproveReflects
    <3>3. /\ become(r, n) /\ UNCHANGED <<checks, owners, scope>>
          /\ mayBegin(r, IF override THEN "override" ELSE "approve")
          /\ override \/ assertComplianceReadyForApproval
      BY <1>0, <2>0, <2>n, <3>1 DEF approveKyc, become
    <3>4. OwnScope => Quiet /\ ~override
      BY <2>idle, <3>3
    <3>5. OwnScope => assertComplianceReadyForApproval'
      BY <3>3, <3>4, ReadyKept
    <3> QED
      BY <2>own, <3>2, <3>3, <3>4, <3>5, OwnMoves
  <2>5. CASE Aside(r)
    <3>1. UNCHANGED <<checks, req, scope>> /\ req[r] = Idle
      BY <2>5 DEF Aside, rejectKyc, rename, replaceOwners, setOnboarding, mayBegin
    <3>2. become(r, n) /\ n = Idle
      BY <1>0, <2>0, <2>n, <3>1, StayBecomes
    <3>3. n \notin Running /\ n.phase # "approving"
      BY <3>2 DEF Idle, Running
    <3>4. CASE owners' # owners
      <4>1. mayBegin(r, "owners")
        BY <2>5, <3>4 DEF Aside, rejectKyc, rename, replaceOwners, setOnboarding
      <4> QED
        BY <3>1, <4>1 DEF OwnInv, mayBegin, Without
    <3>5. CASE owners' = owners
      <4>1. \E op : mayBegin(r, op)
        BY <2>5 DEF Aside, rejectKyc, rename, replaceOwners, setOnboarding
      <4> QED
        BY <2>idle, <2>own, <3>1, <3>2, <3>3, <3>5, <4>1, OwnMoves
    <3> QED
      BY <3>4, <3>5
  <2>6. CASE query(r)
    <3>1. n.of = req[r].of /\ req[r] \in Running /\ n \in Running
      BY <2>6, <2>n, QueryReflects
    <3>2. become(r, n) /\ UNCHANGED <<checks, owners, scope>>
      BY <1>0, <2>0, <2>n, <2>6 DEF query, become
    <3>3. req[r] # Idle /\ n.phase # "approving"
      BY <3>1 DEF Running, Idle
    <3> QED
      BY <2>own, <3>1, <3>2, <3>3, OwnMoves
  <2>7. CASE persistCheck(r)
    <3>1. /\ n.of = req[r].of /\ req[r] \in Running /\ n \in Running /\ RunAt(req[r])
          /\ req[r].stored + 1 \in DOMAIN req[r].found
          /\ checks' = Append(checks, req[r].found[req[r].stored + 1])
      BY <2>7, <2>n, PersistReflects
    <3>2. become(r, n) /\ UNCHANGED <<owners, scope>>
      BY <1>0, <2>0, <2>n, <2>7 DEF persistCheck, become
    <3>3. req[r] # Idle /\ n.phase # "approving"
      BY <3>1 DEF Running, Idle
    <3>4. ASSUME OwnScope, NEW k \in DOMAIN checks' PROVE checks'[k].of = Company
      <4>1. PICK c \in Check : c = req[r].found[req[r].stored + 1] /\ c.of = req[r].of
        <5>1. req[r].found \in Seq(Check)
          BY <3>1 DEF Running
        <5>2. req[r].found[req[r].stored + 1] \in Check
          BY <3>1, <5>1, LenProperties, ElementOfSeq
        <5>3. req[r].found[req[r].stored + 1].of = req[r].of
          BY <3>1 DEF RunAt, FindingsOf
        <5> QED
          BY <5>2, <5>3
      <4>2. checks \in Seq(Check) /\ checks' = Append(checks, c)
        BY <3>1, <4>1 DEF ReflectInv, ComplianceTypeOK
      <4>3. /\ DOMAIN checks = 1..Len(checks) /\ Len(checks) \in Nat
            /\ \A j \in 1..Len(checks) : checks'[j] = checks[j]
            /\ checks'[Len(checks) + 1] = c /\ k \in 1..(Len(checks) + 1)
        <5>1. Append(checks, c) \in Seq(Check) /\ Len(Append(checks, c)) = Len(checks) + 1
          BY <4>2, AppendProperties
        <5>2. \A j \in 1..Len(checks) : Append(checks, c)[j] = checks[j]
          BY <4>2, AppendProperties
        <5>3. Append(checks, c)[Len(checks) + 1] = c
          BY <4>2, AppendProperties
        <5> QED
          BY <3>4, <4>2, <5>1, <5>2, <5>3, LenProperties
      <4>4. CASE k \in 1..Len(checks)
        BY <2>own, <3>4, <4>3, <4>4
      <4>5. CASE k = Len(checks) + 1
        BY <2>own, <3>1, <3>4, <4>1, <4>3, <4>5
      <4> QED
        BY <4>3, <4>4, <4>5
    <3> QED
      BY <2>own, <3>1, <3>2, <3>3, <3>4, OwnMoves
  <2>8. CASE updateFlags(r)
    <3>1. n.of = req[r].of /\ req[r] \in Running /\ n \in Running
      BY <2>8, <2>n, UpdateFlagsReflects
    <3>2. become(r, n) /\ UNCHANGED <<checks, owners, scope>>
      BY <1>0, <2>0, <2>n, <2>8 DEF updateFlags, become
    <3>3. req[r] # Idle /\ n.phase # "approving"
      BY <3>1 DEF Running, Idle
    <3> QED
      BY <2>own, <3>1, <3>2, <3>3, OwnMoves
  <2>9. CASE afterCheck(r)
    <3>1. /\ req[r] \in Running
          /\ n = Idle \/ (n \in Running /\ n.of = req[r].of)
      BY <2>9, <2>n, AfterCheckReflects
    <3>2. become(r, n) /\ UNCHANGED <<checks, owners, scope>>
      BY <1>0, <2>0, <2>n, <2>9 DEF afterCheck, become
    <3>3. req[r] # Idle /\ n.phase # "approving" /\ Idle \notin Running
      BY <3>1 DEF Running, Idle
    <3> QED
      BY <2>own, <3>1, <3>2, <3>3, OwnMoves
  <2>10. CASE approved(r)
    <3>1. req[r] # Idle /\ n = Idle
      BY <2>10, <2>n, ApprovedReflects
    <3>2. become(r, n) /\ UNCHANGED <<checks, owners, scope>>
      BY <1>0, <2>0, <2>n, <2>10 DEF approved, become
    <3>3. n \notin Running /\ n.phase # "approving"
      BY <3>1 DEF Idle, Running
    <3> QED
      BY <2>own, <3>1, <3>2, <3>3, OwnMoves
  <2>11. CASE cutShort(r)
    <3>1. req[r] # Idle /\ n = Idle
      BY <2>11, <2>n, CutShortReflects
    <3>2. become(r, n) /\ UNCHANGED <<checks, owners, scope>>
      BY <1>0, <2>0, <2>n, <2>11 DEF cutShort, become
    <3>3. n \notin Running /\ n.phase # "approving"
      BY <3>1 DEF Idle, Running
    <3> QED
      BY <2>own, <3>1, <3>2, <3>3, OwnMoves
  <2>12. CASE \E flagged \in BOOLEAN : setKybStatus(r, flagged)
    <3>1. UNCHANGED <<checks, owners, req, scope>> /\ req[r] = Idle /\ mayBegin(r, "kybStatus")
      BY <2>12 DEF setKybStatus, mayBegin
    <3>2. become(r, n) /\ n = Idle
      BY <1>0, <2>0, <2>n, <3>1, StayBecomes
    <3>3. n \notin Running /\ n.phase # "approving"
      BY <3>2 DEF Idle, Running
    <3> QED
      BY <2>idle, <2>own, <3>1, <3>2, <3>3, OwnMoves
  <2> QED
    BY <2>1, <2>2, <2>3, <2>4, <2>5, <2>6, <2>7, <2>8, <2>9, <2>10, <2>11, <2>12
<1> QED
  BY <1>1, <1>2
-----------------------------------------------------------------------------
(* Theorems *)

LEMMA SharedInit == ComplianceInit => SharedInv
  BY DEF ComplianceInit, SharedInv

\* A check that blocks an approval and nobody has decided on is in the review queue.  After
\* requests that do not overlap, the status that belongs to one type of check repeats its latest
\* check, as persistCheck and updateFlags write the same finding, the flags last; and the review
\* status that all runs of a subject share is CLEAR only if its verification or its
\* screening is: it does not promise both.
THEOREM ChecksAreTold == ComplianceSpec => []ChecksAreReflected
<1>1. ComplianceInit => ReflectInv /\ FlagsInv /\ SharedInv
  BY ReflectInit, FlagsInit, SharedInit
<1>2. ReflectInv /\ FlagsInv /\ SharedInv /\ [ComplianceNext]_<<complianceVars, req, scope>> => (ReflectInv /\ FlagsInv /\ SharedInv)'
  BY ReflectNext, FlagsNext, SharedNext
<1>3. ReflectInv /\ FlagsInv /\ SharedInv => ChecksAreReflected
  <2> SUFFICES ASSUME ReflectInv, FlagsInv, SharedInv PROVE ChecksAreReflected
    OBVIOUS
  <2>1. ComplianceTypeOK
    BY DEF ReflectInv
  <2>2. BlockersAreQueued
    <3>1. \A k \in DOMAIN checks : checks[k] \in Check /\ FailureIsReviewed(checks[k])
      BY DEF ReflectInv, ComplianceTypeOK, ChecksInv
    <3> QED
      BY <3>1 DEF BlockersAreQueued, blocks, reviewQueue, FailureIsReviewed
  <2>told. ASSUME Quiet, Without({"overlap", "crash", "kybStatus"}), NEW s \in Subjects, NEW type \in AllTypes
           PROVE  Told(s, type)
    <3>1. \A r \in Processes : ~Pending(req[r], s, type)
      BY <2>told DEF Quiet, Pending, Running, Idle
    <3> QED
      BY <2>told, <3>1 DEF FlagsInv, AllTypes
  <2>3. FlagsFollowChecks
    BY <2>told DEF FlagsFollowChecks, AllTypes, Told, Adverse
  <2>4. ClearSpeaksForOneRun
    <3> SUFFICES ASSUME Quiet, Without({"overlap", "crash", "kybStatus"}),
                        NEW s \in Subjects, shared[s].review = "CLEAR"
                 PROVE  \E types \in {{verificationOf(s)}, Screenings} :
                          \A type \in types : \A k \in latestOf(s, type) : ~Adverse(checks[k])
      BY DEF ClearSpeaksForOneRun, Adverse
    <3>1. PICK types \in {{verificationOf(s)}, Screenings} : types \cap flags[s] = {}
      BY DEF SharedInv, Without
    <3>2. types \subseteq AllTypes
      BY <3>1 DEF AllTypes, verificationOf, Verifications
    <3>3. \A type \in types : Told(s, type) /\ type \notin flags[s]
      BY <2>told, <3>1, <3>2
    <3> QED
      BY <3>1, <3>3 DEF Told
  <2> QED
    BY <2>1, <2>2, <2>3, <2>4 DEF ChecksAreReflected
<1> QED
  BY <1>1, <1>2, <1>3, PTL DEF ComplianceSpec

\* What an approval asserts of a company whose checks are all its own.
LEMMA ReadyIsNotSuspect ==
  ASSUME checks \in Seq(Check), assertComplianceReadyForApproval,
         \A k \in DOMAIN checks : checks[k].of = Company
  PROVE  ~Suspect(Company)
<1> SUFFICES ASSUME NEW type \in requiredTypes
             PROVE  /\ latestOf(Company, type) # {}
                    /\ \A k \in latestOf(Company, type) :
                         ~(~Cleared(checks[k]) /\ checks[k].result \in {"MATCH", "FAILED", "REFERRED"})
  BY DEF Suspect
<1>1. latestOf(Company, type) = latestByType(type)
  <2>1. \A k \in latestOf(Company, type) : k \in latestByType(type)
    <3> SUFFICES ASSUME NEW k \in latestOf(Company, type) PROVE k \in latestByType(type)
      OBVIOUS
    <3>1. /\ k \in DOMAIN checks /\ checks[k].type = type
          /\ \A j \in (k + 1)..Len(checks) : checks[j].of # Company \/ checks[j].type # type
      BY DEF latestOf
    <3>2. \A j \in (k + 1)..Len(checks) : j \in DOMAIN checks
      BY <3>1, LenProperties
    <3> QED
      BY <3>1, <3>2 DEF latestByType
  <2>2. \A k \in latestByType(type) : k \in latestOf(Company, type)
    BY DEF latestOf, latestByType
  <2> QED
    BY <2>1, <2>2
<1>2. latestByType(type) # {}
  BY DEF assertComplianceReadyForApproval
<1>3. \A k \in latestByType(type) : ~blocks(checks[k])
  BY DEF assertComplianceReadyForApproval, requiredTypes, Verifications
<1> QED
  BY <1>1, <1>2, <1>3 DEF blocks, Cleared

LEMMA ApprovalIsOwn ==
  ReflectInv /\ OwnInv /\ [ComplianceNext]_<<complianceVars, req, scope>> =>
    (Without({"overlap", "owners", "override", "status"}) /\ owners = {}
       /\ onboarding # "APPROVED" /\ onboarding' = "APPROVED" => ~Suspect(Company))
<1> SUFFICES ASSUME ReflectInv, OwnInv, [ComplianceNext]_<<complianceVars, req, scope>>,
                    Without({"overlap", "owners", "override", "status"}), owners = {},
                    onboarding # "APPROVED", onboarding' = "APPROVED"
             PROVE  ~Suspect(Company)
  OBVIOUS
<1>1. PICK r \in Requests : approved(r)
  <2>1. ComplianceNext
    BY DEF complianceVars
  <2>2. \A r \in Requests : ~mayBegin(r, "status")
    BY DEF mayBegin, Without
  <2> QED
    BY <2>1, <2>2 DEF ComplianceNext, Proceed, run, query, persistCheck, updateFlags, afterCheck,
      reviewComplianceCheck, expireComplianceCheck, approveKyc, rejectKyc, rename, replaceOwners,
      setOnboarding, setKybStatus, cutShort
<1>2. OwnScope
  BY DEF OwnScope, Without
<1>3. assertComplianceReadyForApproval /\ \A k \in DOMAIN checks : checks[k].of = Company
  <2>1. at(r, "approving") /\ r \in Processes
    BY <1>1 DEF approved, Processes
  <2> QED
    BY <1>2, <2>1 DEF OwnInv, OwnScope
<1>4. checks \in Seq(Check)
  BY DEF ReflectInv, ComplianceTypeOK
<1> QED
  BY <1>3, <1>4, ReadyIsNotSuspect

\* A company is approved on its own latest checks: what approveKyc has read is still so when
\* it writes, and every check of a company without owners is about the company.
THEOREM ApprovalsAreOwn == ComplianceSpec => ApprovedOnLatestChecks
<1>1. ComplianceInit => ReflectInv /\ OwnInv
  BY ReflectInit, OwnInit
<1>2. ReflectInv /\ OwnInv /\ [ComplianceNext]_<<complianceVars, req, scope>> => (ReflectInv /\ OwnInv)'
  BY ReflectNext, OwnNext
<1> QED
  BY <1>1, <1>2, ApprovalIsOwn, PTL DEF ComplianceSpec, ApprovedOnLatestChecks
=============================================================================
