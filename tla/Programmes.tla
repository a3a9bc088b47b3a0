-------------------------------- MODULE Programmes --------------------------------
(***************************************************************************)
(* Programmes: programmes/programmes.service.ts, whose approval and           *)
(* activation send an email through createLifecycleEmail of Notifications.    *)
(*                                                                         *)
(* setStatus writes whatever status it is asked for, audits it, reads the     *)
(* row again and announces what it then finds.  No other service reads the    *)
(* status of a programme.                                                   *)
(***************************************************************************)
EXTENDS Notifications

CONSTANTS
  Programmes, Counterparties,
  Anchors      \* the counterparties whose type is ANCHOR

ASSUME ProgrammesAssumption ==
  Anchors \subseteq Counterparties /\ Programmes \subseteq Occasions \ OtherOccasions

VARIABLES
  programme,     \* of each programme: its anchor, status, and whether publishedAt is set
  participants   \* how many rows say that a counterparty takes part in a programme

programmeVars == <<programme, participants>>

ProgrammeStatus == {"DRAFT", "ACTIVE", "SUSPENDED", "CLOSED"}
NoProgramme == [status |-> "NONE"]
Programme == [status : ProgrammeStatus, anchor : Counterparties, published : BOOLEAN]

Announcing == [phase : {"setStatus", "auditStatus", "readAgain"}, programme : Programmes, status : ProgrammeStatus]
Adding == [phase : {"addParticipant"}, programme : Programmes, counterparty : Counterparties]

ProgrammesTypeOK ==
  /\ programme \in [Programmes -> {NoProgramme} \cup Programme]
  /\ participants \in [Programmes \X Counterparties -> Nat]
  /\ \A r \in Requests : "programme" \in DOMAIN req[r] => req[r] \in Announcing \cup Adding

ProgrammesInit ==
  /\ programme = [p \in Programmes |-> NoProgramme]
  /\ participants = [pc \in Programmes \X Counterparties |-> 0]
-----------------------------------------------------------------------------
findProgramme(p) == programme[p] # NoProgramme

createProgramme(r, p, anchor, published) ==
  /\ mayBegin(r, "programme") /\ ~findProgramme(p) /\ anchor \in Anchors
  /\ programme' = [programme EXCEPT ![p] = [status |-> "DRAFT", anchor |-> anchor, published |-> published]]
  /\ UNCHANGED <<participants, req, scope>>

\* Any status may be sent; publishedAt may be sent, and not be cleared.
updateProgramme(r, p, status, anchor, published) ==
  /\ mayBegin(r, "patchProgramme") /\ findProgramme(p) /\ anchor \in Anchors
  /\ programme' = [programme EXCEPT ![p] = [status |-> status, anchor |-> anchor,
                                            published |-> @.published \/ published]]
  /\ UNCHANGED <<participants, req, scope>>

\* The counterparty has the type it is to take part as, and is looked for among
\* the participants before it is added.
addParticipant(r, p, c) ==
  /\ mayBegin(r, "participant") /\ findProgramme(p) /\ participants[<<p, c>>] = 0
  /\ become(r, [phase |-> "addParticipant", programme |-> p, counterparty |-> c])
  /\ UNCHANGED <<programmeVars, scope>>

\* Mutation: the table has no unique key.
insertAnyParticipant(r) ==
  LET pc == <<req[r].programme, req[r].counterparty>>
  IN /\ at(r, "addParticipant")
     /\ participants' = [participants EXCEPT ![pc] = @ + 1]
     /\ become(r, Idle)
     /\ UNCHANGED <<programme, scope>>

\* The database takes one row of a programme, counterparty and type.
insertParticipant(r) ==
  LET pc == <<req[r].programme, req[r].counterparty>>
  IN /\ at(r, "addParticipant")
     /\ participants' = [participants EXCEPT ![pc] = IF @ = 0 THEN 1 ELSE @]
     /\ become(r, Idle)
     /\ UNCHANGED <<programme, scope>>
-----------------------------------------------------------------------------
(* approve, activate, suspend and close *)

\* Bound: as long as there is no email about a programme, one request at a time
\* activates it.
mayAnnounce(p) ==
  /\ \A n \in Notes : note[n] # NoNote => note[n].about # p
  /\ \A r \in Requests : /\ req[r] \in Announcing => req[r].programme # p \/ req[r].status # "ACTIVE"
                         /\ at(r, "announce") => req[r].about # p

\* Mutation: the email goes out before the status is written.
announceFirst(r, p, status) ==
  /\ mayBegin(r, "setStatus") /\ findProgramme(p) /\ (status = "ACTIVE" => mayAnnounce(p))
  /\ become(r, IF status = "ACTIVE" THEN [phase |-> "announce", about |-> p]
               ELSE [phase |-> "setStatus", programme |-> p, status |-> status])
  /\ UNCHANGED <<programmeVars, scope>>

setStatus(r, p, status) ==
  /\ mayBegin(r, "setStatus") /\ findProgramme(p) /\ (status = "ACTIVE" => mayAnnounce(p))
  /\ become(r, [phase |-> "setStatus", programme |-> p, status |-> status])
  /\ UNCHANGED <<programmeVars, scope>>

writeStatus(r) ==
  LET p == req[r].programme
      status == req[r].status
  IN /\ at(r, "setStatus")
     /\ programme' = [programme EXCEPT ![p].status = status, ![p].published = @ \/ status = "ACTIVE"]
     /\ become(r, [req[r] EXCEPT !.phase = "auditStatus"])
     /\ UNCHANGED <<participants, scope>>

\* Where the entry cannot be written the request fails, and nothing is sent.
auditStatus(r) ==
  /\ at(r, "auditStatus")
  /\ \/ become(r, [req[r] EXCEPT !.phase = "readAgain"])
     \/ "logFails" \in scope /\ become(r, Idle)
  /\ UNCHANGED <<programmeVars, scope>>

\* Mutation: what the row now says decides whether there is an email.
announceIfActive(r) ==
  /\ at(r, "readAgain")
  /\ become(r, IF programme[req[r].programme].status = "ACTIVE"
               THEN [phase |-> "announce", about |-> req[r].programme] ELSE Idle)
  /\ UNCHANGED <<programmeVars, scope>>

readAgain(r) ==
  /\ at(r, "readAgain")
  /\ become(r, IF req[r].status = "ACTIVE" THEN [phase |-> "announce", about |-> req[r].programme] ELSE Idle)
  /\ UNCHANGED <<programmeVars, scope>>
-----------------------------------------------------------------------------
ProgrammesStep(r) == insertParticipant(r) \/ writeStatus(r) \/ auditStatus(r) \/ readAgain(r)

ProgrammesNext ==
  \E r \in Requests :
    \/ ProgrammesStep(r)
    \/ \E p \in Programmes :
         \/ \E anchor \in Counterparties, published \in BOOLEAN :
              \/ createProgramme(r, p, anchor, published)
              \/ \E status \in ProgrammeStatus : updateProgramme(r, p, status, anchor, published)
         \/ \E status \in {"ACTIVE", "SUSPENDED", "CLOSED"} : setStatus(r, p, status)
         \/ \E c \in Counterparties : addParticipant(r, p, c)

ProgrammesFairness ==
  \A r \in Requests : WF_<<programmeVars, req>>(ProgrammesStep(r) /\ UNCHANGED scope)
-----------------------------------------------------------------------------
(* Properties *)

\* A counterparty takes part in a programme once in a role, also when two requests
\* add it at the same time.
ParticipatesOnce ==
  \A pc \in Programmes \X Counterparties : participants[pc] <= 1

\* An email says that a programme is active only once it has been, wherever the
\* request that sends it fails or the process stops.
AnnouncedWasPublished ==
  \A n \in Notes, p \in Programmes : note[n] # NoNote /\ note[n].about = p => programme[p] # NoProgramme /\ programme[p].published

\* Whoever activates a programme has an email about it on record in the end, sent
\* or not, unless its audit entry cannot be written or the process stops.
ActivationIsAnnounced ==
  \A p \in Programmes, r \in Requests :
    (at(r, "auditStatus") /\ req[r].programme = p /\ req[r].status = "ACTIVE" /\ Without({"crash", "logFails"}))
      ~> \E n \in Notes : note[n] # NoNote /\ note[n].about = p
===============================================================================
