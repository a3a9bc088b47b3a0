------------------------------ MODULE Notifications ------------------------------
(***************************************************************************)
(* Notifications and the providers that carry them:                          *)
(* notifications/notifications.service.ts, and the rows an operator rewrites  *)
(* through operations/operations.service.ts.                                 *)
(*                                                                         *)
(* sendNotification reads the row, marks it, calls the provider and stores    *)
(* what came of it: each a statement of its own, the last one unconditional.  *)
(* createLifecycleEmail, which the business services call, turns every        *)
(* exception into a second row.                                             *)
(***************************************************************************)
EXTENDS Service

CONSTANTS
  Notes,      \* the rows there may be
  Occasions,  \* what lifecycle emails are about
  OtherOccasions, \* those whose callers are not modelled beside this service
  Carriers,   \* the channels whose provider is there
  MaxSends    \* bound: attempts after which none is begun, and what is counted as sent

\* IN_APP stands for MOBILE_MONEY and WEBHOOK too: nothing is dispatched for them.
Channels == {"EMAIL", "SMS", "WHATSAPP", "IN_APP"}
Dispatched == {"EMAIL", "SMS", "WHATSAPP"}

ASSUME NotificationsAssumption ==
  /\ Carriers \subseteq Dispatched /\ OtherOccasions \subseteq Occasions /\ None \notin Occasions
  /\ MaxSends \in Nat \ {0}

VARIABLES
  note,       \* the rows: status, attempts, channel, and the occasion if any
  sent        \* history: how often the provider took each of them

notificationVars == <<note, sent>>

NoNote == [status |-> "NONE"]
Note == [status : {"PENDING", "SENDING", "SENT", "FAILED", "RETRYING", "CANCELLED"},
         attempts : Nat, channel : Channels, about : Occasions \cup {None}]

\* lifecycle: the request was made by createLifecycleEmail, whose catch is around it.
Sending == [phase : {"audit", "read", "mark", "dispatch", "store", "written"}, note : Notes,
            channel : Channels \cup {None}, attempts : Nat, failed : BOOLEAN, ok : BOOLEAN, lifecycle : BOOLEAN]

NotificationsTypeOK ==
  /\ note \in [Notes -> {NoNote} \cup Note] /\ sent \in [Notes -> Nat]
  /\ \A r \in Requests : /\ "lifecycle" \in DOMAIN req[r] => req[r] \in Sending
                         /\ at(r, "announce") => req[r] \in [phase : {"announce"}, about : Occasions]

NotificationsInit == note = [n \in Notes |-> NoNote] /\ sent = [n \in Notes |-> 0]
-----------------------------------------------------------------------------
newNote(n, status, channel, about) ==
  note[n] = NoNote /\ note' = [note EXCEPT ![n] = [status |-> status, attempts |-> 0, channel |-> channel,
                                                   about |-> about]]

sending(n, phase, lifecycle) ==
  [phase |-> phase, note |-> n, channel |-> None, attempts |-> 0, failed |-> FALSE, ok |-> FALSE,
   lifecycle |-> lifecycle]

createNotification(r, n, channel) ==
  /\ mayBegin(r, "create") /\ newNote(n, "PENDING", channel, None)
  /\ UNCHANGED <<sent, req, scope>>

\* sendTemplate and sendEmail: the row is created, and sent.
sendTemplate(r, n, channel) ==
  /\ mayBegin(r, "template") /\ newNote(n, "PENDING", channel, None)
  /\ become(r, sending(n, "audit", FALSE))
  /\ UNCHANGED <<sent, scope>>

\* A caller that is modelled is at the call; of the others one email each will do.
announcing(r, occasion) ==
  \/ at(r, "announce") /\ req[r].about = occasion
  \/ /\ mayBegin(r, "lifecycle") /\ occasion \in OtherOccasions
     /\ \A m \in Notes : note[m] # NoNote => note[m].about # occasion

createLifecycleEmail(r, n, occasion) ==
  /\ announcing(r, occasion) /\ newNote(n, "PENDING", "EMAIL", occasion)
  /\ become(r, sending(n, "audit", TRUE))
  /\ UNCHANGED <<sent, scope>>

\* Without an address to send it to.
skipLifecycleEmail(r, n, occasion) ==
  /\ announcing(r, occasion) /\ newNote(n, "FAILED", "EMAIL", occasion)
  /\ become(r, Idle)
  /\ UNCHANGED <<sent, scope>>

\* Mutation: the exception is swallowed.
swallow(r) == req[r] = req[r] /\ UNCHANGED note

\* An exception: the caller sees it, or createLifecycleEmail writes one more row.
throw(r) ==
  IF req[r].lifecycle
  THEN \E n \in Notes : newNote(n, "FAILED", "EMAIL", note[req[r].note].about)
  ELSE UNCHANGED note

\* The audit entry of the creation.
auditCreation(r) ==
  /\ at(r, "audit")
  /\ \/ become(r, [req[r] EXCEPT !.phase = "read"]) /\ UNCHANGED note
     \/ "logFails" \in scope /\ throw(r) /\ become(r, Idle)
  /\ UNCHANGED <<sent, scope>>

\* Also a retry of a failed one, and a second request while it is being sent.
sendNotification(r, n) ==
  /\ mayBegin(r, "send") /\ note[n] # NoNote /\ note[n].attempts < MaxSends
  /\ become(r, sending(n, "read", FALSE))
  /\ UNCHANGED <<notificationVars, scope>>

\* Mutation: only a cancelled one is refused.
readUncancelled(r) ==
  LET row == note[req[r].note]
  IN /\ at(r, "read")
     /\ \/ /\ row.status # "CANCELLED"
           /\ become(r, [req[r] EXCEPT !.phase = "mark", !.channel = row.channel,
                                       !.attempts = row.attempts + 1, !.failed = row.status = "FAILED"])
           /\ UNCHANGED note
        \/ row.status = "CANCELLED" /\ throw(r) /\ become(r, Idle)
     /\ UNCHANGED <<sent, scope>>

\* Mutation: only a sent one is refused.
readUnsent(r) ==
  LET row == note[req[r].note]
  IN /\ at(r, "read")
     /\ \/ /\ row.status # "SENT"
           /\ become(r, [req[r] EXCEPT !.phase = "mark", !.channel = row.channel,
                                       !.attempts = row.attempts + 1, !.failed = row.status = "FAILED"])
           /\ UNCHANGED note
        \/ row.status = "SENT" /\ throw(r) /\ become(r, Idle)
     /\ UNCHANGED <<sent, scope>>

readNotification(r) ==
  LET row == note[req[r].note]
  IN /\ at(r, "read")
     /\ \/ /\ row.status \notin {"CANCELLED", "SENT"}
           /\ become(r, [req[r] EXCEPT !.phase = "mark", !.channel = row.channel,
                                       !.attempts = row.attempts + 1, !.failed = row.status = "FAILED"])
           /\ UNCHANGED note
        \/ row.status \in {"CANCELLED", "SENT"} /\ throw(r) /\ become(r, Idle)
     /\ UNCHANGED <<sent, scope>>

markSending(r) ==
  LET n == req[r].note
  IN /\ at(r, "mark")
     /\ note' = [note EXCEPT ![n].attempts = req[r].attempts,
                             ![n].status = IF req[r].failed THEN "RETRYING" ELSE "SENDING"]
     /\ become(r, [req[r] EXCEPT !.phase = "dispatch"])
     /\ UNCHANGED <<sent, scope>>

\* Mutation: what is handed to a provider is taken for a success.
dispatchAnyway(r) ==
  /\ at(r, "dispatch")
  /\ \E taken \in BOOLEAN :
       /\ taken => req[r].channel \in Carriers
       /\ sent' = [sent EXCEPT ![req[r].note] = IF taken THEN Min({@ + 1, MaxSends}) ELSE @]
  /\ become(r, [req[r] EXCEPT !.phase = "store", !.ok = TRUE])
  /\ UNCHANGED <<note, scope>>

\* By the channel that was read. The provider takes the message or does not; it
\* may take it and the answer be lost, which the email provider reports as a
\* failure. A channel that is not dispatched succeeds and nobody takes anything.
dispatch(r) ==
  /\ at(r, "dispatch")
  /\ \E taken, ok \in BOOLEAN :
       /\ taken => req[r].channel \in Carriers
       /\ IF req[r].channel \in Dispatched
          THEN (ok => taken) /\ (taken /\ ~ok => "lost" \in scope)
          ELSE ok
       /\ sent' = [sent EXCEPT ![req[r].note] = IF taken THEN Min({@ + 1, MaxSends}) ELSE @]
       /\ become(r, [req[r] EXCEPT !.phase = "store", !.ok = ok])
  /\ UNCHANGED <<note, scope>>

\* Mutation: the status of a webhook delivery.
storeDelivered(r) ==
  /\ at(r, "store")
  /\ note' = [note EXCEPT ![req[r].note].status = IF req[r].ok THEN "DELIVERED" ELSE "FAILED"]
  /\ become(r, [req[r] EXCEPT !.phase = "written"])
  /\ UNCHANGED <<sent, scope>>

storeResult(r) ==
  /\ at(r, "store")
  /\ note' = [note EXCEPT ![req[r].note].status = IF req[r].ok THEN "SENT" ELSE "FAILED"]
  /\ become(r, [req[r] EXCEPT !.phase = "written"])
  /\ UNCHANGED <<sent, scope>>

\* The integration log and the audit entry.
logSending(r) ==
  /\ at(r, "written")
  /\ \/ UNCHANGED note
     \/ "logFails" \in scope /\ throw(r)
  /\ become(r, Idle)
  /\ UNCHANGED <<sent, scope>>

cancelNotification(r, n) ==
  /\ mayBegin(r, "cancel") /\ note[n] # NoNote
  /\ note' = [note EXCEPT ![n].status = "CANCELLED"]
  /\ UNCHANGED <<sent, req, scope>>

\* createRecord and updateRecord of the operations endpoints write any status and
\* any channel; update, the PATCH, spreads what it is sent over the row as well.
operationsCreate(r, n, status, channel) ==
  /\ mayBegin(r, "patch") /\ newNote(n, status, channel, None)
  /\ UNCHANGED <<sent, req, scope>>

operationsUpdate(r, n, status, channel) ==
  /\ mayBegin(r, "patch") /\ note[n] # NoNote
  /\ note' = [note EXCEPT ![n].status = status, ![n].channel = channel]
  /\ UNCHANGED <<sent, req, scope>>

NotificationsStep(r) ==
  \/ auditCreation(r) \/ readNotification(r) \/ markSending(r) \/ dispatch(r) \/ storeResult(r)
  \/ logSending(r)

NotificationsNext ==
  \E r \in Requests :
    \/ NotificationsStep(r)
    \/ \E n \in Notes :
         \/ \E channel \in Channels : createNotification(r, n, channel) \/ sendTemplate(r, n, channel)
         \/ \E occasion \in Occasions :
              createLifecycleEmail(r, n, occasion) \/ skipLifecycleEmail(r, n, occasion)
         \/ sendNotification(r, n) \/ cancelNotification(r, n)
         \/ \E status \in {"PENDING", "SENT", "FAILED", "CANCELLED"}, channel \in Channels :
              operationsCreate(r, n, status, channel) \/ operationsUpdate(r, n, status, channel)

\* The call of a modelled caller; a row is left for it.
announce(r) ==
  at(r, "announce") /\ \E n \in Notes, occasion \in Occasions :
    createLifecycleEmail(r, n, occasion) \/ skipLifecycleEmail(r, n, occasion)

NotificationsFairness ==
  \A r \in Requests : WF_<<notificationVars, req>>((NotificationsStep(r) \/ announce(r)) /\ UNCHANGED scope)
-----------------------------------------------------------------------------
(* Properties *)

\* What is shown as sent was taken by its provider, unless its channel is one that
\* is not dispatched, which is shown as sent without anybody having taken it, or
\* somebody wrote the row without sending it.
SentWasDispatched ==
  Without({"patch"}) =>
    \A n \in Notes : note[n].status = "SENT" /\ note[n].channel \in Dispatched => sent[n] > 0

\* A notification reaches its recipient at most once, however often it is sent,
\* retried and cancelled and whichever log cannot be written, unless two sends
\* overlap, an answer is lost, the process stops, or an operator rewrites it.
SentOnce ==
  Without({"overlap", "lost", "crash", "patch"}) => \A n \in Notes : sent[n] <= 1

\* A cancelled notification stays cancelled.
CancelledIsFinal ==
  [][Without({"overlap", "patch"}) =>
       \A n \in Notes : note[n].status = "CANCELLED" => note'[n].status = "CANCELLED"]_<<note, req, scope>>

\* Of every occasion there is in the end a row that says sent, failed or
\* cancelled, also when the log cannot be written or other requests send or
\* cancel the same row meanwhile; only a stop of the process leaves it open.
OccasionIsRecorded ==
  \A occasion \in Occasions :
    (Without({"crash", "patch"}) /\ \E n \in Notes : note[n] # NoNote /\ note[n].about = occasion)
      ~> \E n \in Notes : /\ note[n] # NoNote /\ note[n].about = occasion
                          /\ note[n].status \in {"SENT", "FAILED", "CANCELLED"}
===============================================================================
