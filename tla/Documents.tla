-------------------------------- MODULE Documents --------------------------------
(***************************************************************************)
(* Uploaded documents: documents/documents.service.ts, its controller's      *)
(* download, and the storage providers.                                      *)
(*                                                                         *)
(* A file is stored before its row is created, under a key no other upload    *)
(* gets, and never deleted: remove only marks the row.  What changes a row    *)
(* reads it first, to refuse a deleted one, and then writes it whatever has   *)
(* become of it.                                                            *)
(***************************************************************************)
EXTENDS Service

CONSTANTS
  Documents,   \* the uploads there may be, each with its file
  MaxReads     \* bound: downloads begun, and counted, of each document

ASSUME DocumentsAssumption == MaxReads \in Nat

VARIABLES
  document,    \* the rows: status and type
  stored,      \* the files in storage, by the document they were uploaded for
  audited,     \* of each document: how many audit entries say it was asked for
  handedOut    \* history: how often its file, or a link to it, left the service

documentVars == <<document, stored, audited, handedOut>>

Types == {"KYC", "KYB", "OTHER"}
NoDocument == [status |-> "NONE"]
Document == [status : {"ACTIVE", "PENDING_VERIFICATION", "VERIFIED", "REJECTED", "DELETED"}, type : Types]
\* What a request writes once it has read the row.
Uploading == [phase : {"storeFile", "recordFile"}, document : Documents, type : Types]
Changing == [phase : {"changeDocument"}, document : Documents, status : {"VERIFIED", "REJECTED", "DELETED"}]
Retyping == [phase : {"retypeDocument"}, document : Documents, type : Types]
Reading == [phase : {"auditLink", "link", "findAgain", "auditFile", "file"}, document : Documents]

DocumentsTypeOK ==
  /\ document \in [Documents -> {NoDocument} \cup Document]
  /\ stored \subseteq Documents
  /\ audited \in [Documents -> Nat] /\ handedOut \in [Documents -> Nat]
  /\ \A r \in Requests : "document" \in DOMAIN req[r] => req[r] \in Uploading \cup Changing \cup Retyping \cup Reading

DocumentsInit ==
  /\ document = [d \in Documents |-> NoDocument] /\ stored = {}
  /\ audited = [d \in Documents |-> 0] /\ handedOut = [d \in Documents |-> 0]
-----------------------------------------------------------------------------
\* Mutation: one of the two types is forgotten.
initialStatusOfKyc(type) == IF type = "KYC" THEN "PENDING_VERIFICATION" ELSE "ACTIVE"

initialStatus(type) == IF type \in {"KYC", "KYB"} THEN "PENDING_VERIFICATION" ELSE "ACTIVE"

\* A file of a size and type that validateUpload lets pass.
uploadDocument(r, d, type) ==
  /\ mayBegin(r, "upload") /\ d \in scope /\ document[d] = NoDocument /\ d \notin stored
  /\ \A q \in Requests : "document" \in DOMAIN req[q] => req[q].document # d
  /\ become(r, [phase |-> "storeFile", document |-> d, type |-> type])
  /\ UNCHANGED <<documentVars, scope>>

\* Mutation: the failure is logged and not thrown.
storeOrGoOn(r) ==
  /\ at(r, "storeFile")
  /\ \/ stored' = stored \cup {req[r].document}
     \/ "storageFails" \in scope /\ stored' \in {stored, stored \cup {req[r].document}}
  /\ become(r, [req[r] EXCEPT !.phase = "recordFile"])
  /\ UNCHANGED <<document, audited, handedOut, scope>>

\* The provider may store the file and its answer be lost.
storeFile(r) ==
  /\ at(r, "storeFile")
  /\ \/ stored' = stored \cup {req[r].document} /\ become(r, [req[r] EXCEPT !.phase = "recordFile"])
     \/ "storageFails" \in scope /\ stored' \in {stored, stored \cup {req[r].document}} /\ become(r, Idle)
  /\ UNCHANGED <<document, audited, handedOut, scope>>

\* The row may be refused: what the client says it belongs to need not exist.
recordFile(r) ==
  /\ at(r, "recordFile")
  /\ \/ document' = [document EXCEPT ![req[r].document] = [status |-> initialStatus(req[r].type),
                                                           type |-> req[r].type]]
     \/ UNCHANGED document
  /\ become(r, Idle)
  /\ UNCHANGED <<stored, audited, handedOut, scope>>
-----------------------------------------------------------------------------
findDocument(d) == document[d] # NoDocument /\ document[d].status # "DELETED"

\* Mutation: also a deleted one is found.
changeAnyDocument(r, d, status) ==
  /\ mayBegin(r, "change") /\ document[d] # NoDocument
  /\ become(r, [phase |-> "changeDocument", document |-> d, status |-> status])
  /\ UNCHANGED <<documentVars, scope>>

\* verify, reject and remove.
changeDocument(r, d, status) ==
  /\ mayBegin(r, "change") /\ findDocument(d)
  /\ become(r, [phase |-> "changeDocument", document |-> d, status |-> status])
  /\ UNCHANGED <<documentVars, scope>>

writeChange(r) ==
  /\ at(r, "changeDocument")
  /\ document' = [document EXCEPT ![req[r].document].status = req[r].status]
  /\ become(r, Idle)
  /\ UNCHANGED <<stored, audited, handedOut, scope>>

\* update: the type may be sent, the status not.
updateDocument(r, d, type) ==
  /\ mayBegin(r, "retype") /\ findDocument(d)
  /\ become(r, [phase |-> "retypeDocument", document |-> d, type |-> type])
  /\ UNCHANGED <<documentVars, scope>>

writeUpdate(r) ==
  /\ at(r, "retypeDocument")
  /\ document' = [document EXCEPT ![req[r].document].type = req[r].type]
  /\ become(r, Idle)
  /\ UNCHANGED <<stored, audited, handedOut, scope>>
\* createRecord of the operations endpoints: a row of any status, and no file.
operationsDocument(r, d, status, type) ==
  /\ mayBegin(r, "documentRecord") /\ d \in scope /\ document[d] = NoDocument
  /\ \A q \in Requests : "document" \in DOMAIN req[q] => req[q].document # d
  /\ document' = [document EXCEPT ![d] = [status |-> status, type |-> type]]
  /\ UNCHANGED <<stored, audited, handedOut, req, scope>>
-----------------------------------------------------------------------------
(* Downloads: getDownloadUrl first, whose link is enough where the storage    *)
(* signs links, and download where it does not.                              *)

getDownloadUrl(r, d) ==
  /\ mayBegin(r, "download") /\ findDocument(d)
  /\ handedOut[d] + Cardinality({q \in Requests : req[q] \in Reading}) < MaxReads
  /\ become(r, [phase |-> "auditLink", document |-> d])
  /\ UNCHANGED <<documentVars, scope>>

\* Mutation: an entry that cannot be written is left out.
auditIfPossible(r, phase) ==
  /\ \/ audited' = [audited EXCEPT ![req[r].document] = Min({@ + 1, 2 * MaxReads})]
     \/ "logFails" \in scope /\ UNCHANGED audited
  /\ become(r, [req[r] EXCEPT !.phase = phase])
  /\ UNCHANGED <<document, stored, handedOut, scope>>

\* Nothing leaves the service when the entry cannot be written.
auditAccess(r, phase) ==
  /\ \/ /\ audited' = [audited EXCEPT ![req[r].document] = Min({@ + 1, 2 * MaxReads})]
        /\ become(r, [req[r] EXCEPT !.phase = phase])
     \/ "logFails" \in scope /\ UNCHANGED audited /\ become(r, Idle)
  /\ UNCHANGED <<document, stored, handedOut, scope>>

auditLink(r) == at(r, "auditLink") /\ auditAccess(r, IF "signedLinks" \in scope THEN "link" ELSE "findAgain")

findAgain(r) ==
  /\ at(r, "findAgain")
  /\ become(r, IF findDocument(req[r].document) THEN [req[r] EXCEPT !.phase = "auditFile"] ELSE Idle)
  /\ UNCHANGED <<documentVars, scope>>

auditFile(r) == at(r, "auditFile") /\ auditAccess(r, "file")

\* A link is signed for a file that is there or not; a file must be read.
handOut(r) ==
  /\ at(r, "link") \/ at(r, "file")
  /\ handedOut' = IF at(r, "link") \/ req[r].document \in stored
                  THEN [handedOut EXCEPT ![req[r].document] = @ + 1] ELSE handedOut
  /\ become(r, Idle)
  /\ UNCHANGED <<document, stored, audited, scope>>
-----------------------------------------------------------------------------
DocumentsStep(r) ==
  \/ storeFile(r) \/ recordFile(r) \/ writeChange(r) \/ writeUpdate(r)
  \/ auditLink(r) \/ findAgain(r) \/ auditFile(r) \/ handOut(r)

DocumentsNext ==
  \E r \in Requests :
    \/ DocumentsStep(r)
    \/ \E d \in Documents :
         \/ getDownloadUrl(r, d)
         \/ \E type \in Types : uploadDocument(r, d, type) \/ updateDocument(r, d, type)
         \/ \E status \in {"VERIFIED", "REJECTED", "DELETED"} : changeDocument(r, d, status)
         \/ \E row \in Document : operationsDocument(r, d, row.status, row.type)
-----------------------------------------------------------------------------
(* Properties *)

\* Every document there is has its file, wherever an upload fails or stops, but for
\* one an operator recorded without a file.
RecordHasFile ==
  Without({"documentRecord"}) => \A d \in Documents : document[d] # NoDocument => d \in stored

\* A document that has been deleted is not brought back, unless a request that
\* read it before writes it afterwards.
DeletedStaysDeleted ==
  [][Without({"overlap"}) =>
       \A d \in Documents : document[d].status = "DELETED" => document'[d].status = "DELETED"]_<<document, req, scope>>

\* A document uploaded as KYC or KYB is not in use before somebody verified it;
\* one that is given the type afterwards, or that an operator recorded, may be.
IdentityIsVerified ==
  Without({"retype", "documentRecord"}) =>
    \A d \in Documents : document[d] # NoDocument /\ document[d].type # "OTHER" => document[d].status # "ACTIVE"

\* No file leaves the service without an audit entry of its own, whatever fails.
AccessIsAudited ==
  \A d \in Documents : handedOut[d] <= audited[d]
===============================================================================
