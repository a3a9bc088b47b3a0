-------------------------------- MODULE Platform --------------------------------
(***************************************************************************)
(* The support services of one API process beside each other: they serve the  *)
(* same requests and stop together.  Programmes calls Notifications; the      *)
(* others share nothing but the process.                                     *)
(***************************************************************************)
EXTENDS Webhooks, Programmes, Documents, Operations

vars == <<webhookVars, notificationVars, programmeVars, documentVars, operationsVars, req, scope>>

Init ==
  /\ ServiceInit
  /\ WebhooksInit /\ NotificationsInit /\ ProgrammesInit /\ DocumentsInit /\ OperationsInit

\* The process stops; what it was doing is not taken up again.
crash ==
  /\ "crash" \in scope /\ ~Quiet
  /\ req' = [r \in Processes |-> Idle]
  /\ UNCHANGED <<webhookVars, notificationVars, programmeVars, documentVars, operationsVars, scope>>

Next ==
  \/ WebhooksNext /\ UNCHANGED <<notificationVars, programmeVars, documentVars, operationsVars>>
  \/ NotificationsNext /\ UNCHANGED <<webhookVars, programmeVars, documentVars, operationsVars>>
  \/ ProgrammesNext /\ UNCHANGED <<webhookVars, notificationVars, documentVars, operationsVars>>
  \/ DocumentsNext /\ UNCHANGED <<webhookVars, notificationVars, programmeVars, operationsVars>>
  \/ OperationsNext /\ UNCHANGED <<webhookVars, notificationVars, programmeVars, documentVars>>
  \/ crash

Spec == Init /\ [][Next]_vars

\* Every step a running request or delivery has to make is made in the end.
FairSpec == Spec /\ WebhooksFairness /\ NotificationsFairness /\ ProgrammesFairness

-----------------------------------------------------------------------------
TypeOK ==
  WebhooksTypeOK /\ NotificationsTypeOK /\ ProgrammesTypeOK /\ DocumentsTypeOK /\ OperationsTypeOK

\* What the rows of deliveries and notifications say of the world outside is so:
\* what is delivered or sent was taken by somebody, the attempts are the calls, and
\* nobody gets one message twice, whatever is lost, cancelled or logged late.
DeliveriesHold ==
  /\ TypeOK
  /\ DeliveredWasReceived /\ AttemptsAreCalls /\ RetryingIsDue
  /\ SentWasDispatched /\ SentOnce

\* What the records of programmes, documents and operations stand for exists:
\* participants once, announced programmes published, files stored, audited and
\* verified, tested connections to a sandbox, a dashboard without spare debits.
RecordsHold ==
  /\ ParticipatesOnce /\ AnnouncedWasPublished
  /\ RecordHasFile /\ IdentityIsVerified /\ AccessIsAudited
  /\ TestedIsSandbox /\ NoDebitsToSpare

\* A cancelled notification, a deleted document and recorded evidence stay what
\* they are through every later request.
FinalStaysFinal == CancelledIsFinal /\ DeletedStaysDeleted /\ EvidenceIsKept

\* What a request has begun to tell others is told or recorded in the end, however
\* logs fail and answers are lost on the way.
PromisesAreKept == SubscriberIsCalled /\ OccasionIsRecorded /\ ActivationIsAnnounced
===============================================================================
