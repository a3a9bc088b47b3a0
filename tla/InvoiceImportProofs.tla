------------------------- MODULE InvoiceImportProofs -------------------------
(***************************************************************************)
(* For any batches, events, lines and overlapping requests, crashes and    *)
(* lost audit entries included: rows and invoices agree, a cancelled batch *)
(* imports nothing more, and a provider event takes effect once per        *)
(* delivery or retry.  Four inductive invariants, over the type            *)
(* correctness of ImportType, carry what a request in flight has found:    *)
(* OwnInv (the invoice of a row), SerialInv (who works on a batch),        *)
(* AgreeInv (what a validated row may rely on) and EventInv.               *)
(***************************************************************************)
EXTENDS InvoiceImport, FiniteSetTheorems, WellFoundedInduction, TLAPS

\* The row a request takes next is one of those it has left.
LEMMA MinIsIn ==
  ASSUME NEW S \in SUBSET Nat, S # {}
  PROVE  Min(S) \in S
<1> DEFINE R == OpToRel(<, Nat)
<1>1. PICK x \in S : \A y \in S : ~(<<y, x>> \in R)
  <2>1. IsWellFoundedOn(R, Nat)
    BY NatLessThanWellFounded
  <2> HIDE DEF R
  <2> QED
    BY <2>1, WFMin
<1>2. \A y \in S : x <= y
  <2> SUFFICES ASSUME NEW y \in S PROVE x <= y
    OBVIOUS
  <2>1. ~(y < x)
    BY <1>1 DEF OpToRel
  <2> QED
    BY <2>1
<1> QED
  BY <1>2 DEF Min
-----------------------------------------------------------------------------
(* The states of a request *)

Working ==
  [phase : BatchPhases, batch : Batches, event : Events \cup {NoEvent}, attempts : Nat,
   todo : SUBSET Nat, imported : Nat, failed : Nat]
Receiving == [phase : {"receive"}, event : Events, signed : BOOLEAN]
Replaying == [phase : {"replay"}, event : Events]
Applying == [phase : {"apply"}, event : Events, attempts : Nat]
Recording == [phase : {"record"}, event : Events, attempts : Nat, ok : BOOLEAN]
Updating == [phase : {"update"}, op : InvoiceOps, invoice : Invoices,
             seen : InvoiceStatus \cup {"none"}, duplicate : BOOLEAN]
Patching == [phase : {"patch"}, invoice : Invoices, patch : Patches]
State == {Idle} \cup Working \cup Receiving \cup Replaying \cup Applying \cup Recording
         \cup Updating \cup Patching

\* What the state of a request says of the records it works on.
Founded(s) ==
  /\ s \in State
  /\ s \in Working => /\ s.todo \subseteq RowsOf(s.batch) /\ batch[s.batch] # Absent
                      /\ s.phase \in {"create", "mark"} => s.todo # {}
                      /\ s.phase # "parse" => s.event = NoEvent
                      /\ s.event # NoEvent => event[s.event] # Absent
  /\ s \in Replaying \cup Applying \cup Recording => event[s.event] # Absent
  /\ s \in Updating /\ s.op # "create" => invoice[s.invoice] # Absent /\ s.seen # "none"
  /\ s \in Patching => invoice[s.invoice] # Absent /\ (Amends(s.patch) => "amend" \in scope)

RowTyped ==
  /\ row = [b \in Batches |-> row[b]]
  /\ \A b \in Batches : row[b] \in [RowsOf(b) -> RowStatus \cup {"none"}]

ImportType ==
  /\ invoice \in [Invoices -> Invoice \cup {Absent}]
  /\ batch \in [Batches -> Batch \cup {Absent}]
  /\ RowTyped
  /\ event \in [Events -> Event \cup {Absent}]
  /\ active \subseteq Suppliers
  /\ history \in [Events -> [applied : Nat, retried : Nat]]
  /\ req = [r \in Requests |-> req[r]]
  /\ \A r \in Requests : Founded(req[r])
  /\ scope \in Scopes

LEMMA StateIsInProgress == State = {Idle} \cup InProgress
  BY DEF State, InProgress, Working, Receiving, Replaying, Applying, Recording, Updating, Patching

LEMMA TypeImplies == ImportType => TypeOK
<1> SUFFICES ASSUME ImportType PROVE TypeOK
  OBVIOUS
<1>1. req \in [Requests -> {Idle} \cup InProgress]
  BY StateIsInProgress DEF ImportType, Founded
<1> QED
  BY <1>1 DEF ImportType, RowTyped, TypeOK

\* The states are told apart by their phase.
LEMMA Phases ==
  ASSUME NEW s \in State
  PROVE  /\ s.phase \in BatchPhases <=> s \in Working
         /\ s.phase = "receive" <=> s \in Receiving
         /\ s.phase = "replay" <=> s \in Replaying
         /\ s.phase = "apply" <=> s \in Applying
         /\ s.phase = "record" <=> s \in Recording
         /\ s.phase = "update" <=> s \in Updating
         /\ s.phase = "patch" <=> s \in Patching
         /\ s.phase = "idle" <=> s = Idle
  BY DEF State, Working, Receiving, Replaying, Applying, Recording, Updating, Patching, BatchPhases, Idle

Line == [invoice : Invoices, reference : References, terms : Terms,
         wellFormed : BOOLEAN, buyerApproved : BOOLEAN]

LEMMA Rows ==
  ASSUME NEW b \in Batches
  PROVE  /\ RowsOf(b) \in SUBSET Nat /\ IsFiniteSet(RowsOf(b))
         /\ \A k \in RowsOf(b) : Lines[b][k] \in Line
<1>1. Lines[b] \in Seq(Line)
  BY ImportAssumption DEF Line
<1>2. /\ Len(Lines[b]) \in Nat /\ RowsOf(b) = 1..Len(Lines[b])
      /\ \A k \in 1..Len(Lines[b]) : Lines[b][k] \in Line
  BY <1>1 DEF RowsOf
<1>3. IsFiniteSet(RowsOf(b))
  BY <1>2, FS_Interval
<1> QED
  BY <1>2, <1>3
-----------------------------------------------------------------------------
(* How one request moves on *)

\* What is there stays there.
Grows ==
  /\ \A b \in Batches : batch[b] # Absent => batch'[b] # Absent
  /\ \A e \in Events : event[e] # Absent => event'[e] # Absent
  /\ \A i \in Invoices : invoice[i] # Absent => invoice'[i] # Absent

LEMMA StaysFounded ==
  ASSUME NEW s, Founded(s), Grows, UNCHANGED scope
  PROVE  Founded(s)'
<1>1. s \in Working => s.batch \in Batches /\ s.event \in Events \cup {NoEvent}
  BY DEF Working
<1>2. s \in Replaying \cup Applying \cup Recording => s.event \in Events
  BY DEF Replaying, Applying, Recording
<1>3. s \in Updating \cup Patching => s.invoice \in Invoices
  BY DEF Updating, Patching
<1> QED
  BY <1>1, <1>2, <1>3 DEF Founded, Grows, Amends

LEMMA Step ==
  ASSUME ImportType, Grows, NEW r \in Requests, NEW s, Founded(s)', become(r, s),
         invoice' \in [Invoices -> Invoice \cup {Absent}],
         batch' \in [Batches -> Batch \cup {Absent}], RowTyped',
         event' \in [Events -> Event \cup {Absent}], active' \subseteq Suppliers,
         history' \in [Events -> [applied : Nat, retried : Nat]], UNCHANGED scope
  PROVE  ImportType' /\ req'[r] = s /\ \A q \in Requests \ {r} : req'[q] = req[q]
<1>1. /\ req'[r] = s /\ \A q \in Requests \ {r} : req'[q] = req[q]
      /\ req' = [q \in Requests |-> req'[q]]
  BY DEF become, ImportType
<1>2. ASSUME NEW q \in Requests PROVE Founded(req[q])'
  <2>1. CASE q = r
    BY <1>1, <2>1
  <2>2. CASE q # r
    <3>1. PICK t : t = req[q]
      OBVIOUS
    <3>2. Founded(t)' /\ req'[q] = t
      BY <1>1, <2>2, <3>1, StaysFounded DEF ImportType
    <3> QED
      BY <3>2
  <2> QED
    BY <2>1, <2>2
<1> QED
  BY <1>1, <1>2 DEF ImportType

LEMMA StepElsewhere ==
  ASSUME ImportType, Grows, UNCHANGED req,
         invoice' \in [Invoices -> Invoice \cup {Absent}],
         UNCHANGED <<batch, row, event, history, scope>>, active' \subseteq Suppliers
  PROVE  ImportType'
<1>1. ASSUME NEW q \in Requests PROVE Founded(req[q])'
  <2>1. PICK t : t = req[q]
    OBVIOUS
  <2>2. Founded(t)' /\ req'[q] = t
    BY <2>1, StaysFounded DEF ImportType
  <2> QED
    BY <2>2
<1> QED
  BY <1>1 DEF ImportType, RowTyped

LEMMA IdleIsFounded == Founded(Idle) /\ Founded(Idle)'
<1>1. /\ Idle \in State
      /\ Idle \notin Working /\ Idle \notin Replaying \cup Applying \cup Recording
      /\ Idle \notin Updating /\ Idle \notin Patching
  BY DEF State, Idle, Working, Replaying, Applying, Recording, Updating, Patching, BatchPhases
<1> QED
  BY <1>1 DEF Founded

\* The rows left to a request that has dealt with one.
LEMMA NextRow ==
  ASSUME NEW s \in Working, NEW n \in Nat
  PROVE  LET moved == {nextRow(s), failedRow(s), [nextRow(s) EXCEPT !.imported = @ + 1],
                       [failedRow(s) EXCEPT !.imported = @ + 1]}
         IN \A t \in moved : /\ t \in Working /\ t.phase = "row" /\ t.batch = s.batch
                             /\ t.event = s.event /\ t.todo = s.todo \ {Min(s.todo)}
<1> DEFINE m == Min(s.todo)
<1> HIDE DEF m
<1> DEFINE a == [s EXCEPT !.phase = "row", !.todo = @ \ {m}]
           b == [a EXCEPT !.failed = @ + 1]
<1>1. /\ a \in Working /\ a.phase = "row" /\ a.batch = s.batch
      /\ a.event = s.event /\ a.todo = s.todo \ {m}
  BY DEF Working, BatchPhases
<1>2. nextRow(s) = a
  BY DEF nextRow, m
<1> HIDE DEF a
<1>3. /\ b \in Working /\ b.phase = "row" /\ b.batch = s.batch
      /\ b.event = s.event /\ b.todo = s.todo \ {m}
  BY <1>1 DEF Working, BatchPhases
<1>4. failedRow(s) = b
  BY <1>2 DEF failedRow
<1> HIDE DEF b
<1>5. ASSUME NEW c \in {a, b}
      PROVE  LET t == [c EXCEPT !.imported = @ + 1]
             IN /\ t \in Working /\ t.phase = "row" /\ t.batch = s.batch
                /\ t.event = s.event /\ t.todo = s.todo \ {m}
  BY <1>1, <1>3 DEF Working
<1> QED
  BY <1>1, <1>2, <1>3, <1>4, <1>5 DEF m

LEMMA SamePhase ==
  ASSUME NEW s \in Working, NEW p \in BatchPhases
  PROVE  LET t == [s EXCEPT !.phase = p]
         IN t \in Working /\ t.phase = p /\ t.batch = s.batch /\ t.event = s.event /\ t.todo = s.todo
  BY DEF Working

LEMMA NewWork ==
  ASSUME NEW p \in BatchPhases, NEW b \in Batches, NEW e \in Events \cup {NoEvent}, NEW a \in Nat,
         NEW T \in SUBSET Nat
  PROVE  LET t == working(p, b, e, a, T)
         IN t \in Working /\ t.phase = p /\ t.batch = b /\ t.event = e /\ t.todo = T
  BY DEF Working, working

LEMMA WorkIsFounded ==
  ASSUME NEW s \in Working, s.todo \subseteq RowsOf(s.batch), batch'[s.batch] # Absent,
         s.phase \in {"create", "mark"} => s.todo # {},
         s.phase # "parse" => s.event = NoEvent,
         s.event # NoEvent => event'[s.event] # Absent
  PROVE  Founded(s)'
<1>1. s \in State /\ s \notin Replaying \cup Applying \cup Recording /\ s \notin Updating \cup Patching
  BY DEF State, Working, Replaying, Applying, Recording, Updating, Patching, BatchPhases
<1> QED
  BY <1>1 DEF Founded

\* One row is written.
LEMMA RowWritten ==
  ASSUME RowTyped, NEW b \in Batches, NEW k \in RowsOf(b), NEW st \in RowStatus,
         row' = [row EXCEPT ![b][k] = st]
  PROVE  /\ RowTyped'
         /\ row'[b][k] = st
         /\ \A c \in Batches : \A j \in RowsOf(c) : c # b \/ j # k => row'[c][j] = row[c][j]
<1>1. row'[b] = [row[b] EXCEPT ![k] = st] /\ \A c \in Batches : c # b => row'[c] = row[c]
  BY DEF RowTyped
<1>2. row' = [c \in Batches |-> row'[c]]
  BY DEF RowTyped
<1>3. row'[b] \in [RowsOf(b) -> RowStatus \cup {"none"}]
  BY <1>1 DEF RowTyped
<1> QED
  BY <1>1, <1>2, <1>3 DEF RowTyped

LEMMA Validated == ASSUME NEW l PROVE validateImportRow(l) \in {"DUPLICATE", "VALID", "INVALID"}
  BY DEF validateImportRow
-----------------------------------------------------------------------------
(* Type correctness *)

LEMMA InitType == Init => ImportType
<1> SUFFICES ASSUME Init PROVE ImportType
  OBVIOUS
<1>1. \A r \in Requests : Founded(req[r])
  BY IdleIsFounded DEF Init
<1>2. RowTyped
  BY DEF Init, RowTyped
<1>3. active \subseteq Suppliers
  BY DEF Init
<1> QED
  BY <1>1, <1>2, <1>3 DEF Init, ImportType

\* The request at work on a batch and the row it works on.
LEMMA AtWork ==
  ASSUME ImportType, NEW r \in Requests, req[r].phase \in BatchPhases
  PROVE  /\ req[r] \in Working /\ req[r].batch \in Batches /\ batch[req[r].batch] \in Batch
         /\ req[r].todo \in SUBSET RowsOf(req[r].batch) /\ req[r].todo \in SUBSET Nat
         /\ req[r].todo # {} => Min(req[r].todo) \in req[r].todo
                                /\ Min(req[r].todo) \in RowsOf(req[r].batch)
         /\ req[r].phase \in {"create", "mark"} => req[r].todo # {}
         /\ req[r].phase # "parse" => req[r].event = NoEvent
         /\ req[r].event # NoEvent => req[r].event \in Events /\ event[req[r].event] \in Event
<1>1. req[r] \in Working /\ Founded(req[r])
  BY Phases DEF ImportType, Founded
<1>2. /\ req[r].batch \in Batches /\ req[r].todo \subseteq Nat
      /\ req[r].event \in Events \cup {NoEvent}
  BY <1>1 DEF Working
<1> QED
  BY <1>1, <1>2, MinIsIn DEF Founded, ImportType

LEMMA CreateBatchType ==
  ASSUME ImportType, NEW r \in Requests, NEW b \in Batches, NEW e \in Events \cup {NoEvent}, NEW a \in Nat,
         createBatch(r, b, e, a), e # NoEvent => event[e] # Absent,
         UNCHANGED <<invoice, row, event, active, history, scope>>
  PROVE  ImportType' /\ req'[r] = working("parse", b, e, a, RowsOf(b))
         /\ \A q \in Requests \ {r} : req'[q] = req[q]
<1>1. PICK s : s = working("parse", b, e, a, RowsOf(b))
  OBVIOUS
<1>2. /\ batch' \in [Batches -> Batch \cup {Absent}] /\ batch'[b] # Absent
      /\ \A c \in Batches \ {b} : batch'[c] = batch[c]
  BY DEF createBatch, ImportType, Batch, BatchStatus, Absent
<1>3. Grows
  BY <1>2 DEF Grows
<1>4. s \in Working /\ s.phase = "parse" /\ s.batch = b /\ s.event = e /\ s.todo = RowsOf(b)
  BY <1>1, NewWork, Rows DEF BatchPhases
<1>5. Founded(s)'
  BY <1>2, <1>4, WorkIsFounded
<1> QED
  BY <1>1, <1>2, <1>3, <1>5, Step DEF createBatch, ImportType, RowTyped

LEMMA UploadType ==
  ASSUME ImportType, NEW r \in Requests, NEW b \in Batches, upload(r, b)
  PROVE  ImportType'
  BY CreateBatchType DEF upload

LEMMA ApplyAsBatchType ==
  ASSUME ImportType, NEW r \in Requests, applyAsBatch(r)
  PROVE  ImportType'
<1>1. req[r] \in Applying /\ event[req[r].event] # Absent
  BY Phases DEF applyAsBatch, at, ImportType, Founded
<1> QED
  BY <1>1, CreateBatchType DEF applyAsBatch, Applying

LEMMA ParseRowType ==
  ASSUME ImportType, NEW r \in Requests, parseRow(r)
  PROVE  ImportType'
<1>1. req[r].phase \in BatchPhases /\ req[r].phase = "parse" /\ req[r].todo # {}
  BY DEF parseRow, at, BatchPhases
<1> DEFINE b == req[r].batch
           k == Min(req[r].todo)
           st == validateImportRow(Lines[b][k])
           s == [req[r] EXCEPT !.todo = @ \ {k}, !.failed = IF st = "VALID" THEN @ ELSE @ + 1]
<1>2. /\ b \in Batches /\ k \in RowsOf(b) /\ st \in RowStatus /\ batch[b] # Absent
  BY <1>1, AtWork, Validated DEF RowStatus, Batch, Absent
<1>3. row' = [row EXCEPT ![b][k] = st] /\ become(r, s)
      /\ UNCHANGED <<invoice, batch, event, active, history, scope>>
  BY DEF parseRow
<1> HIDE DEF st, k
<1>4. /\ s \in Working /\ s.phase = "parse" /\ s.batch = b /\ s.event = req[r].event
      /\ s.todo = req[r].todo \ {k}
  <2>1. req[r] \in Working
    BY <1>1, AtWork
  <2>2. PICK n \in Nat : n = IF st = "VALID" THEN req[r].failed ELSE req[r].failed + 1
    BY <2>1 DEF Working
  <2>3. s = [req[r] EXCEPT !.todo = req[r].todo \ {k}, !.failed = n]
    BY <2>2
  <2> HIDE DEF s
  <2> QED
    BY <1>1, <2>1, <2>3 DEF Working
<1> HIDE DEF s
<1>5. RowTyped'
  BY <1>2, <1>3, RowWritten DEF ImportType
<1>6. PICK t : t = s
  OBVIOUS
<1>7. Founded(t)'
  <2>1. /\ req[r].todo \subseteq RowsOf(b)
        /\ req[r].event # NoEvent => event[req[r].event] # Absent
    BY <1>1, AtWork DEF Event, Absent
  <2>2. t \in Working /\ t.phase = "parse" /\ t.batch = b /\ t.event = req[r].event
        /\ t.todo \subseteq req[r].todo
    BY <1>4, <1>6
  <2>3. /\ t.todo \subseteq RowsOf(t.batch) /\ batch'[t.batch] # Absent
        /\ t.event # NoEvent => event'[t.event] # Absent
        /\ t.phase \in {"create", "mark"} => t.todo # {}
        /\ t.phase # "parse" => t.event = NoEvent
    BY <1>2, <1>3, <2>1, <2>2
  <2> QED
    BY <2>2, <2>3, WorkIsFounded
<1> QED
  BY <1>3, <1>5, <1>6, <1>7, Step DEF ImportType, Grows

LEMMA ParsedType ==
  ASSUME ImportType, NEW r \in Requests, parsed(r)
  PROVE  ImportType'
<1>1. req[r].phase \in BatchPhases
  BY DEF parsed, at, BatchPhases
<1> DEFINE b == req[r].batch
           e == req[r].event
<1>2. /\ b \in Batches /\ e \in Events \cup {NoEvent} /\ req[r].attempts \in Nat
      /\ e # NoEvent => event[e] # Absent
  BY <1>1, AtWork DEF Working, Event, Absent
<1>3. /\ batch' \in [Batches -> Batch \cup {Absent}] /\ batch'[b] # Absent
      /\ \A c \in Batches \ {b} : batch'[c] = batch[c]
  <2>1. batch[b] \in Batch /\ outcome(req[r].failed) \in BatchStatus
    BY <1>1, AtWork DEF outcome, BatchStatus
  <2>2. [batch[b] EXCEPT !.status = outcome(req[r].failed)] \in Batch
    BY <2>1 DEF Batch
  <2>3. batch' = [batch EXCEPT ![b] = [batch[b] EXCEPT !.status = outcome(req[r].failed)]]
    BY DEF parsed
  <2> QED
    BY <1>2, <2>2, <2>3 DEF ImportType, Batch, Absent
<1>4. history' \in [Events -> [applied : Nat, retried : Nat]]
  BY <1>2 DEF parsed, ImportType
<1>5. PICK s : s = IF e = NoEvent THEN Idle
                   ELSE [phase |-> "record", event |-> e, attempts |-> req[r].attempts, ok |-> TRUE]
  OBVIOUS
<1>6. Founded(s)'
  <2>1. CASE e = NoEvent
    BY <1>5, <2>1, IdleIsFounded
  <2>2. CASE e # NoEvent
    <3>1. s \in Recording /\ s.event = e
      BY <1>2, <1>5, <2>2 DEF Recording
    <3>2. s \in State /\ s \notin Working /\ s \notin Updating \cup Patching
      BY <3>1 DEF State, Recording, Working, Updating, Patching, BatchPhases
    <3>3. event'[e] # Absent
      BY <1>2, <2>2 DEF parsed
    <3> QED
      BY <3>1, <3>2, <3>3 DEF Founded
  <2> QED
    BY <2>1, <2>2
<1>7. become(r, s) /\ UNCHANGED <<invoice, row, event, active, scope>>
  BY <1>5 DEF parsed
<1> QED
  BY <1>3, <1>4, <1>6, <1>7, Step DEF ImportType, Grows, RowTyped

\* A request that processes or cancels a batch moves on.
LEMMA WorkStep ==
  ASSUME ImportType, NEW r \in Requests, NEW s \in Working, become(r, s),
         s.event = NoEvent, s.todo \subseteq RowsOf(s.batch), batch[s.batch] # Absent,
         s.phase \in {"create", "mark"} => s.todo # {},
         invoice' \in [Invoices -> Invoice \cup {Absent}], RowTyped',
         batch' \in [Batches -> Batch \cup {Absent}], Grows,
         UNCHANGED <<event, active, history, scope>>
  PROVE  ImportType' /\ req'[r] = s /\ \A q \in Requests \ {r} : req'[q] = req[q]
<1>1. s.batch \in Batches
  BY DEF Working
<1>2. Founded(s)'
  BY <1>1, WorkIsFounded DEF Grows
<1> QED
  BY <1>2, Step DEF ImportType

LEMMA ProcessType ==
  ASSUME ImportType, NEW r \in Requests, NEW b \in Batches, processValidRows(r, b)
  PROVE  /\ ImportType' /\ req'[r].phase = "row" /\ req'[r].batch = b
         /\ \A q \in Requests \ {r} : req'[q] = req[q]
<1>1. PICK s : s = working("row", b, NoEvent, 0, SelectRows(b, {"VALID"}))
  OBVIOUS
<1>2. SelectRows(b, {"VALID"}) \subseteq RowsOf(b)
  BY DEF SelectRows
<1>3. /\ s \in Working /\ s.phase = "row" /\ s.batch = b /\ s.event = NoEvent
      /\ s.todo \subseteq RowsOf(b)
  BY <1>1, <1>2, NewWork, Rows DEF BatchPhases
<1>4. become(r, s) /\ batch[b] # Absent /\ UNCHANGED <<invoice, batch, row, event, active, history, scope>>
  BY <1>1 DEF processValidRows
<1> QED
  BY <1>3, <1>4, WorkStep DEF ImportType, RowTyped, Grows

LEMMA ValidateAgainType ==
  ASSUME ImportType, NEW r \in Requests, validateAgain(r)
  PROVE  ImportType'
<1>1. req[r].phase \in BatchPhases /\ req[r].phase = "row" /\ req[r].todo # {}
  BY DEF validateAgain, at, BatchPhases
<1> DEFINE b == req[r].batch
           k == Min(req[r].todo)
           st == validateImportRow(Lines[b][k])
<1>2. /\ b \in Batches /\ k \in RowsOf(b) /\ st \in RowStatus /\ batch[b] # Absent
      /\ req[r] \in Working /\ req[r].event = NoEvent /\ req[r].todo \subseteq RowsOf(b)
  BY <1>1, AtWork, Validated DEF RowStatus, Batch, Absent
<1>3. CASE st = "VALID"
  <2>1. PICK s : s = [req[r] EXCEPT !.phase = "create"]
    OBVIOUS
  <2>2. /\ s \in Working /\ s.phase = "create" /\ s.batch = b /\ s.event = NoEvent
        /\ s.todo = req[r].todo
    BY <1>2, <2>1, SamePhase DEF BatchPhases
  <2>3. become(r, s) /\ UNCHANGED <<invoice, batch, row, event, active, history, scope>>
    BY <1>3, <2>1 DEF validateAgain
  <2> QED
    BY <1>1, <1>2, <2>2, <2>3, WorkStep DEF ImportType, RowTyped, Grows
<1>4. CASE st # "VALID"
  <2>1. PICK s : s = failedRow(req[r])
    OBVIOUS
  <2>2. /\ s \in Working /\ s.phase = "row" /\ s.batch = b /\ s.event = NoEvent
        /\ s.todo \subseteq req[r].todo
    BY <1>2, <2>1, NextRow
  <2>3. become(r, s) /\ row' = [row EXCEPT ![b][k] = st]
        /\ UNCHANGED <<invoice, batch, event, active, history, scope>>
    BY <1>4, <2>1 DEF validateAgain
  <2> HIDE DEF st, k
  <2>4. RowTyped'
    BY <1>2, <2>3, RowWritten DEF ImportType
  <2> QED
    BY <1>1, <1>2, <2>2, <2>3, <2>4, WorkStep DEF ImportType, Grows
<1> QED
  BY <1>3, <1>4

LEMMA CreatedIsTyped ==
  ASSUME NEW l \in Line, NEW b \in Batches
  PROVE  invoiceCreateData(l, b) \in Invoice /\ invoiceCreateData(l, b).batch = b
         /\ invoiceCreateData(l, b).reference = l.reference /\ invoiceCreateData(l, b).terms = l.terms
<1>1. PICK st \in InvoiceStatus : st = IF l.buyerApproved THEN "APPROVED" ELSE "RECEIVED"
  BY DEF InvoiceStatus
<1> QED
  BY <1>1 DEF invoiceCreateData, Line, Invoice, InvoiceStatus, Validation, Duplicate

\* What creating the invoice of a row does.
LEMMA CreateInvoiceType ==
  ASSUME ImportType, NEW r \in Requests, createInvoice(r)
  PROVE  ImportType'
<1>1. req[r].phase \in BatchPhases /\ req[r].phase = "create"
  BY DEF createInvoice, at, BatchPhases
<1> DEFINE b == req[r].batch
           k == Min(req[r].todo)
           i == Lines[b][k].invoice
<1>2. /\ b \in Batches /\ k \in RowsOf(b) /\ batch[b] # Absent /\ req[r].todo # {}
      /\ req[r] \in Working /\ req[r].event = NoEvent /\ req[r].todo \subseteq RowsOf(b)
  BY <1>1, AtWork DEF Batch, Absent
<1>3. Lines[b][k] \in Line /\ i \in Invoices
  BY <1>2, Rows DEF Line
<1>4. CASE invoice[i] = Absent
  <2>1. PICK s : s = [req[r] EXCEPT !.phase = "mark"]
    OBVIOUS
  <2>2. /\ s \in Working /\ s.phase = "mark" /\ s.batch = b /\ s.event = NoEvent
        /\ s.todo = req[r].todo
    BY <1>2, <2>1, SamePhase DEF BatchPhases
  <2>3. become(r, s) /\ invoice' = [invoice EXCEPT ![i] = invoiceCreateData(Lines[b][k], b)]
        /\ UNCHANGED <<row, batch, event, active, history, scope>>
    BY <1>4, <2>1 DEF createInvoice
  <2>4. invoice' \in [Invoices -> Invoice \cup {Absent}] /\ Grows
    BY <1>2, <1>3, <2>3, CreatedIsTyped DEF ImportType, Grows, Invoice, Absent
  <2> QED
    BY <1>2, <2>2, <2>3, <2>4, WorkStep DEF ImportType, RowTyped
<1>5. CASE invoice[i] # Absent
  <2>1. PICK s : s = failedRow(req[r])
    OBVIOUS
  <2>2. /\ s \in Working /\ s.phase = "row" /\ s.batch = b /\ s.event = NoEvent
        /\ s.todo \subseteq req[r].todo
    BY <1>2, <2>1, NextRow
  <2>3. become(r, s) /\ row' = [row EXCEPT ![b][k] = "FAILED"]
        /\ UNCHANGED <<invoice, batch, event, active, history, scope>>
    BY <1>5, <2>1 DEF createInvoice
  <2> HIDE DEF k
  <2>4. RowTyped'
    BY <1>2, <2>3, RowWritten DEF ImportType, RowStatus
  <2> QED
    BY <1>1, <1>2, <2>2, <2>3, <2>4, WorkStep DEF ImportType, Grows
<1> QED
  BY <1>4, <1>5

\* Marking a row, as imported or, without its audit entry, as failed.
LEMMA MarkType ==
  ASSUME ImportType, NEW r \in Requests, at(r, "mark"), NEW st \in {"IMPORTED", "FAILED"},
         NEW s \in {[nextRow(req[r]) EXCEPT !.imported = @ + 1], [failedRow(req[r]) EXCEPT !.imported = @ + 1]},
         row' = [row EXCEPT ![req[r].batch][Min(req[r].todo)] = st], become(r, s),
         UNCHANGED <<invoice, batch, event, active, history, scope>>
  PROVE  /\ ImportType' /\ req'[r].phase = "row" /\ req'[r].batch = req[r].batch
         /\ \A q \in Requests \ {r} : req'[q] = req[q]
<1>1. req[r].phase \in BatchPhases /\ req[r].phase = "mark"
  BY DEF at, BatchPhases
<1> DEFINE b == req[r].batch
           k == Min(req[r].todo)
<1>2. /\ b \in Batches /\ k \in RowsOf(b) /\ batch[b] # Absent
      /\ req[r] \in Working /\ req[r].event = NoEvent /\ req[r].todo \subseteq RowsOf(b)
  BY <1>1, AtWork DEF Batch, Absent
<1>3. /\ s \in Working /\ s.phase = "row" /\ s.batch = b /\ s.event = NoEvent
      /\ s.todo \subseteq req[r].todo
  <2>1. PICK q \in Working : q = req[r]
    BY <1>2
  <2>2. s \in {nextRow(q), failedRow(q), [nextRow(q) EXCEPT !.imported = @ + 1],
               [failedRow(q) EXCEPT !.imported = @ + 1]}
    BY <2>1
  <2>3. /\ s \in Working /\ s.phase = "row" /\ s.batch = q.batch
        /\ s.event = q.event /\ s.todo = q.todo \ {Min(q.todo)}
    BY <2>2, NextRow
  <2> QED
    BY <1>2, <2>1, <2>3
<1> HIDE DEF k
<1>4. RowTyped'
  BY <1>2, RowWritten DEF ImportType, RowStatus, k
<1> QED
  BY <1>2, <1>3, <1>4, WorkStep DEF ImportType, Grows

LEMMA ProcessedType ==
  ASSUME ImportType, NEW r \in Requests, processed(r)
  PROVE  ImportType'
<1>1. req[r].phase \in BatchPhases
  BY DEF processed, at, BatchPhases
<1>2. req[r].batch \in Batches /\ req[r].imported \in Nat /\ outcome(req[r].failed) \in BatchStatus
  BY <1>1, AtWork DEF Working, outcome, BatchStatus
<1>3. batch' \in [Batches -> Batch \cup {Absent}] /\ Grows
  BY <1>2 DEF processed, ImportType, Batch, Grows, Absent
<1> QED
  BY <1>3, Step, IdleIsFounded DEF processed, ImportType, RowTyped

LEMMA CancelType ==
  ASSUME ImportType, NEW r \in Requests, NEW b \in Batches, cancelBatch(r, b)
  PROVE  /\ ImportType' /\ req'[r].phase = "skip" /\ req'[r].batch = b
         /\ \A q \in Requests \ {r} : req'[q] = req[q]
<1>1. PICK s : s = working("skip", b, NoEvent, 0, {})
  OBVIOUS
<1>2. /\ s \in Working /\ s.phase = "skip" /\ s.batch = b /\ s.event = NoEvent /\ s.todo = {}
  BY <1>1, NewWork DEF BatchPhases
<1>3. batch' \in [Batches -> Batch \cup {Absent}] /\ Grows /\ batch[b] # Absent
  <2>1. [batch[b] EXCEPT !.status = "CANCELLED"] \in Batch
    BY DEF cancelBatch, ImportType, Batch, BatchStatus
  <2>2. batch' = [batch EXCEPT ![b] = [batch[b] EXCEPT !.status = "CANCELLED"]]
    BY DEF cancelBatch
  <2> QED
    BY <2>1, <2>2 DEF cancelBatch, ImportType, Grows, Batch, Absent
<1> QED
  BY <1>1, <1>2, <1>3, WorkStep DEF cancelBatch, ImportType, RowTyped

LEMMA SkipType ==
  ASSUME ImportType, NEW r \in Requests, skipRows(r)
  PROVE  ImportType'
<1>1. req[r].batch \in Batches
  BY AtWork DEF skipRows, at, BatchPhases
<1>2. RowTyped'
  BY <1>1 DEF skipRows, ImportType, RowTyped, RowStatus
<1> QED
  BY <1>2, Step, IdleIsFounded DEF skipRows, ImportType, Grows

\* A request that handles an event moves on.
LEMMA EventStep ==
  ASSUME ImportType, NEW r \in Requests,
         NEW s \in Receiving \cup Replaying \cup Applying \cup Recording, become(r, s),
         s \in Receiving \/ event'[s.event] # Absent,
         invoice' \in [Invoices -> Invoice \cup {Absent}],
         event' \in [Events -> Event \cup {Absent}],
         history' \in [Events -> [applied : Nat, retried : Nat]], Grows,
         UNCHANGED <<batch, row, active, scope>>
  PROVE  ImportType' /\ req'[r] = s /\ \A q \in Requests \ {r} : req'[q] = req[q]
<1>1. s \in State /\ s \notin Working /\ s \notin Updating \cup Patching
  BY DEF State, Working, Updating, Patching, Receiving, Replaying, Applying, Recording, BatchPhases
<1>2. s \in Replaying \cup Applying \cup Recording => s \notin Receiving
  BY DEF Receiving, Replaying, Applying, Recording
<1>3. Founded(s)'
  BY <1>1, <1>2 DEF Founded
<1> QED
  BY <1>3, Step DEF ImportType, RowTyped

LEMMA WebhookType ==
  ASSUME ImportType, NEW r \in Requests, NEW e \in Events, NEW signed \in BOOLEAN,
         processProviderWebhook(r, e, signed)
  PROVE  ImportType'
<1>1. PICK s : s = [phase |-> "receive", event |-> e, signed |-> signed]
  OBVIOUS
<1>2. s \in Receiving
  BY <1>1 DEF Receiving
<1> QED
  BY <1>1, <1>2, EventStep DEF processProviderWebhook, ImportType, Grows

\* The request that handles an event, by its phase.
LEMMA AtEvent ==
  ASSUME ImportType, NEW r \in Requests
  PROVE  /\ at(r, "receive") => req[r] \in Receiving /\ req[r].event \in Events /\ req[r].signed \in BOOLEAN
         /\ at(r, "replay") => req[r] \in Replaying /\ req[r].event \in Events /\ event[req[r].event] \in Event
         /\ at(r, "apply") => req[r] \in Applying /\ req[r].event \in Events /\ req[r].attempts \in Nat
                              /\ event[req[r].event] \in Event
         /\ at(r, "record") => req[r] \in Recording /\ req[r].event \in Events /\ req[r].attempts \in Nat
                              /\ req[r].ok \in BOOLEAN /\ event[req[r].event] \in Event
<1>1. Founded(req[r])
  BY DEF ImportType
<1>2. req[r] \in State
  BY <1>1 DEF Founded
<1>3. /\ at(r, "receive") => req[r] \in Receiving
      /\ at(r, "replay") => req[r] \in Replaying
      /\ at(r, "apply") => req[r] \in Applying
      /\ at(r, "record") => req[r] \in Recording
  BY <1>2, Phases DEF at
<1> QED
  BY <1>1, <1>3 DEF Founded, ImportType, Receiving, Replaying, Applying, Recording

LEMMA StoreEventType ==
  ASSUME ImportType, NEW r \in Requests, storeEvent(r)
  PROVE  ImportType'
<1> DEFINE e == req[r].event
           signed == req[r].signed
<1>1. e \in Events /\ signed \in BOOLEAN
  BY AtEvent DEF storeEvent
<1>2. CASE event[e] # Absent
  BY <1>2, Step, IdleIsFounded DEF storeEvent, ImportType, RowTyped, Grows
<1>3. CASE event[e] = Absent
  <2>1. PICK st \in {"PENDING", "FAILED"} : st = IF signed THEN "PENDING" ELSE "FAILED"
    OBVIOUS
  <2>2. event' = [event EXCEPT ![e] = [status |-> st, attempts |-> 0, signatureValid |-> signed]]
    BY <1>3, <2>1 DEF storeEvent
  <2>3. event' \in [Events -> Event \cup {Absent}] /\ event'[e] # Absent /\ Grows
    BY <1>1, <2>2 DEF ImportType, Event, EventStatus, Absent, Grows, storeEvent
  <2>4. CASE signed
    <3>1. PICK s : s = [phase |-> "replay", event |-> e]
      OBVIOUS
    <3>2. s \in Replaying /\ s.event = e /\ become(r, s)
      BY <1>1, <1>3, <2>4, <3>1 DEF Replaying, storeEvent
    <3> QED
      BY <2>3, <3>2, EventStep DEF storeEvent, ImportType
  <2>5. CASE ~signed
    BY <1>3, <2>3, <2>5, Step, IdleIsFounded DEF storeEvent, ImportType, RowTyped
  <2> QED
    BY <2>4, <2>5
<1> QED
  BY <1>2, <1>3

LEMMA RetryType ==
  ASSUME ImportType, NEW r \in Requests, NEW e \in Events, retryProviderWebhookEvent(r, e)
  PROVE  ImportType'
<1>1. PICK s : s = [phase |-> "replay", event |-> e]
  OBVIOUS
<1>2. s \in Replaying /\ s.event = e /\ become(r, s)
  BY <1>1 DEF Replaying, retryProviderWebhookEvent
<1>3. [event[e] EXCEPT !.status = "RETRYING"] \in Event
  BY DEF retryProviderWebhookEvent, ImportType, Event, EventStatus
<1>4. event' = [event EXCEPT ![e] = [event[e] EXCEPT !.status = "RETRYING"]]
  BY DEF retryProviderWebhookEvent
<1>5. event' \in [Events -> Event \cup {Absent}] /\ event'[e] # Absent /\ Grows
  BY <1>3, <1>4 DEF ImportType, Event, Absent, Grows, retryProviderWebhookEvent
<1>6. history' \in [Events -> [applied : Nat, retried : Nat]]
  BY DEF retryProviderWebhookEvent, ImportType
<1> QED
  BY <1>2, <1>5, <1>6, EventStep DEF retryProviderWebhookEvent, ImportType

LEMMA ReplayType ==
  ASSUME ImportType, NEW r \in Requests, replay(r)
  PROVE  ImportType'
<1>1. PICK s : s = [phase |-> "apply", event |-> req[r].event, attempts |-> event[req[r].event].attempts + 1]
  OBVIOUS
<1>2. /\ req[r].event \in Events /\ event[req[r].event] \in Event
  BY AtEvent DEF replay
<1>3. s \in Applying /\ s.event = req[r].event
  BY <1>1, <1>2 DEF Applying, Event
<1>4. event[s.event] # Absent
  BY <1>2, <1>3 DEF Event, Absent
<1> QED
  BY <1>1, <1>3, <1>4, EventStep DEF replay, ImportType, Grows

\* An invoice whose status or result is written keeps its batch and reference.
Kept(i, new) == /\ new \in Invoice /\ new.batch = invoice[i].batch
                /\ new.reference = invoice[i].reference /\ new.terms = invoice[i].terms

LEMMA Einvoiced ==
  ASSUME NEW i \in Invoices, invoice[i] \in Invoice, NEW result
  PROVE  Kept(i, einvoiced(i, result))
<1>1. PICK v \in Validation :
        v = IF result = "VALIDATED" THEN "EINVOICING_VALIDATED" ELSE "EINVOICING_EXCEPTION"
  BY DEF Validation
<1>2. einvoiced(i, result) = [invoice[i] EXCEPT !.validation = v]
  BY <1>1 DEF einvoiced
<1> QED
  BY <1>2 DEF Invoice, Kept

LEMMA StatusWritten ==
  ASSUME NEW i \in Invoices, invoice[i] \in Invoice, NEW st \in InvoiceStatus
  PROVE  Kept(i, [invoice[i] EXCEPT !.status = st])
  BY DEF Invoice, Kept

LEMMA ApplyToInvoiceType ==
  ASSUME ImportType, NEW r \in Requests, applyToInvoice(r)
  PROVE  /\ ImportType'
         /\ \A i \in Invoices : invoice[i] = Absent => invoice'[i] = Absent
         /\ \A i \in Invoices : invoice[i] # Absent =>
              /\ invoice'[i] # Absent /\ invoice'[i].batch = invoice[i].batch
              /\ invoice'[i].reference = invoice[i].reference
              /\ invoice'[i].terms = invoice[i].terms
<1> DEFINE e == req[r].event
           i == Callback[e].invoice
<1>1. e \in Events /\ event[e] \in Event /\ req[r].attempts \in Nat
  BY AtEvent DEF applyToInvoice
<1>2. ASSUME NEW ok \in BOOLEAN
      PROVE  recording(r, ok) \in Recording /\ recording(r, ok).event = e
  BY <1>1 DEF recording, Recording
<1>3. event[e] # Absent
  BY <1>1 DEF Event, Absent
<1>4. CASE findInvoiceForCallback(e) = {}
  <2>1. PICK s : s = recording(r, FALSE)
    OBVIOUS
  <2>2. s \in Recording /\ s.event = e /\ become(r, s) /\ UNCHANGED <<invoice, history, event>>
    BY <1>2, <1>4, <2>1 DEF applyToInvoice
  <2> QED
    BY <1>3, <2>2, EventStep DEF applyToInvoice, ImportType, Grows
<1>5. CASE findInvoiceForCallback(e) # {}
  <2>1. PICK s : s = recording(r, TRUE)
    OBVIOUS
  <2>2. s \in Recording /\ s.event = e /\ become(r, s)
    BY <1>2, <1>5, <2>1 DEF applyToInvoice
  <2>3. i \in Invoices /\ invoice[i] \in Invoice
    BY <1>5 DEF findInvoiceForCallback, Stored, ImportType
  <2>4. Kept(i, applyResult(i, Callback[e].result))
    BY <2>3, Einvoiced, StatusWritten DEF applyResult, InvoiceStatus
  <2>5. invoice' = [invoice EXCEPT ![i] = applyResult(i, Callback[e].result)]
    BY <1>5 DEF applyToInvoice
  <2>6. history' \in [Events -> [applied : Nat, retried : Nat]]
    <3>1. [history[e] EXCEPT !.applied = @ + 1] \in [applied : Nat, retried : Nat]
      BY <1>1 DEF ImportType
    <3>2. history' = [history EXCEPT ![e] = [history[e] EXCEPT !.applied = @ + 1]]
      BY <1>5 DEF applyToInvoice
    <3> QED
      BY <3>1, <3>2 DEF ImportType
  <2> DEFINE new == applyResult(i, Callback[e].result)
  <2> HIDE DEF i
  <2>11. new \in Invoice /\ new.batch = invoice[i].batch /\ new # Absent
         /\ new.reference = invoice[i].reference /\ new.terms = invoice[i].terms
    BY <2>4 DEF Kept, Invoice, Absent
  <2> HIDE DEF new
  <2>12. invoice' = [invoice EXCEPT ![i] = new]
    BY <2>5 DEF new
  <2>7. /\ invoice' \in [Invoices -> Invoice \cup {Absent}]
        /\ invoice'[i] # Absent /\ invoice'[i].batch = invoice[i].batch
        /\ invoice'[i].reference = invoice[i].reference
        /\ invoice'[i].terms = invoice[i].terms
        /\ \A j \in Invoices \ {i} : invoice'[j] = invoice[j]
    BY <2>3, <2>11, <2>12 DEF ImportType
  <2>8. Grows
    BY <2>3, <2>7 DEF Grows, applyToInvoice
  <2>9. invoice[i] # Absent
    BY <2>3 DEF Invoice, Absent
  <2>10. ImportType'
    BY <1>3, <2>2, <2>6, <2>7, <2>8, EventStep DEF applyToInvoice, ImportType
  <2> QED
    BY <2>3, <2>7, <2>9, <2>10
<1> QED
  BY <1>4, <1>5

LEMMA RecordType ==
  ASSUME ImportType, NEW r \in Requests, record(r)
  PROVE  /\ ImportType'
         /\ \A e \in Events : event[e] = Absent => event'[e] = Absent
         /\ \A e \in Events : event[e] # Absent => event'[e].signatureValid = event[e].signatureValid
         /\ \A e \in Events : e # req[r].event => event'[e] = event[e]
         /\ event'[req[r].event].status = "PROCESSED" => req[r].ok
<1> DEFINE e == req[r].event
<1>1. e \in Events /\ event[e] \in Event /\ req[r].attempts \in Nat
  BY AtEvent DEF record
<1>2. PICK st \in EventStatus :
        /\ st = IF req[r].ok THEN "PROCESSED" ELSE IF req[r].attempts >= MaxAttempts THEN "FAILED" ELSE "RETRYING"
        /\ st = "PROCESSED" => req[r].ok
  BY DEF EventStatus
<1>3. event' = [event EXCEPT ![e] = [[event[e] EXCEPT !.attempts = req[r].attempts] EXCEPT !.status = st]]
  BY <1>1, <1>2 DEF record, ImportType
<1> DEFINE new == [[event[e] EXCEPT !.attempts = req[r].attempts] EXCEPT !.status = st]
<1>4. new \in Event /\ new.signatureValid = event[e].signatureValid /\ new.status = st
  BY <1>1 DEF Event
<1> HIDE DEF new
<1>5. event' = [event EXCEPT ![e] = new]
  BY <1>3 DEF new
<1>6. event[e] # Absent /\ new # Absent
  BY <1>1, <1>4 DEF Event, Absent
<1>7. event' \in [Events -> Event \cup {Absent}] /\ event'[e] = new /\ \A f \in Events \ {e} : event'[f] = event[f]
  BY <1>1, <1>4, <1>5 DEF ImportType
<1>8. Grows
  BY <1>6, <1>7 DEF record, Grows
<1>9. ImportType'
  BY <1>7, <1>8, Step, IdleIsFounded DEF record, ImportType, RowTyped
<1> QED
  BY <1>1, <1>2, <1>4, <1>6, <1>7, <1>9

LEMMA ReadInvoiceType ==
  ASSUME ImportType, NEW r \in Requests, NEW op \in InvoiceOps, NEW i \in Invoices, readInvoice(r, op, i)
  PROVE  ImportType'
<1>1. PICK s : s = [phase |-> "update", op |-> op, invoice |-> i, seen |-> invoice[i].status,
                    duplicate |-> op = "runDuplicateCheck" /\ othersLike(i) # {}]
  OBVIOUS
<1>2. invoice[i].status \in InvoiceStatus \cup {"none"} /\ (invoice[i] = Absent => invoice[i].status = "none")
  BY DEF ImportType, Invoice, Absent
<1>3. PICK d \in BOOLEAN : d = (op = "runDuplicateCheck" /\ othersLike(i) # {})
  OBVIOUS
<1>4. s \in Updating /\ s.op = op /\ s.invoice = i /\ s.seen = invoice[i].status
  BY <1>1, <1>2, <1>3 DEF Updating
<1>5. op # "create" => invoice[i] # Absent /\ invoice[i].status # "none"
  <2>1. DOMAIN May = {"create", "approve", "remove"}
    BY DEF May
  <2>2. "none" \notin May["approve"] /\ "none" \notin May["remove"]
    BY DEF May, InvoiceStatus
  <2> QED
    BY <1>2, <2>1, <2>2 DEF readInvoice, mayBe
<1>6. become(r, s) /\ UNCHANGED <<invoice, batch, row, event, active, history, scope>>
  BY <1>1 DEF readInvoice
<1>7. s \in State /\ s \notin Working /\ s \notin Replaying \cup Applying \cup Recording \cup Patching
  BY <1>4 DEF State, Updating, Patching, Working, Replaying, Applying, Recording, BatchPhases
<1>8. Founded(s)'
  BY <1>4, <1>5, <1>6, <1>7 DEF Founded
<1> QED
  BY <1>6, <1>8, Step DEF ImportType, RowTyped, Grows

\* What a write to an invoice leaves: a new invoice has no batch, one that is
\* there keeps its batch and reference.
LEMMA WrittenType ==
  ASSUME ImportType, NEW q \in Updating, Founded(q)
  PROVE  IF invoice[q.invoice] = Absent THEN written(q) \in Invoice /\ written(q).batch = "manual"
                                        ELSE Kept(q.invoice, written(q))
<1> DEFINE i == q.invoice
<1>1. /\ i \in Invoices /\ q.op \in InvoiceOps /\ q.seen \in InvoiceStatus \cup {"none"}
      /\ q.duplicate \in BOOLEAN
      /\ invoice[i] = Absent => q.op = "create"
      /\ q.op # "create" => q.seen \in InvoiceStatus
  BY DEF Updating, Founded
<1>2. invoice[i] # Absent => invoice[i] \in Invoice
  BY <1>1 DEF ImportType
<1>3. CASE q.op = "create"
  <2>1. PICK e \in [reference : References, terms : Terms] : e = Entered[i]
    BY <1>1, ImportAssumption
  <2>2. create(i) = IF invoice[i] # Absent THEN invoice[i]
                    ELSE [status |-> "RECEIVED", reference |-> e.reference, terms |-> e.terms,
                          batch |-> "manual", validation |-> "PENDING", duplicate |-> "PENDING"]
    BY <2>1 DEF create
  <2>3. written(q) = create(i)
    BY <1>3 DEF written
  <2> QED
    BY <1>2, <2>2, <2>3 DEF Kept, Invoice, InvoiceStatus, Validation, Duplicate
<1>4. CASE q.op \in {"approve", "remove"}
  BY <1>1, <1>2, <1>4, StatusWritten DEF written, approve, remove, InvoiceStatus
<1>5. CASE q.op \in {"runEInvoicingValidation", "validateInvoice"}
  BY <1>1, <1>2, <1>5, Einvoiced DEF written, runEInvoicingValidation, validateInvoice
<1>6. CASE q.op = "runDuplicateCheck"
  <2>1. PICK d \in {"CLEAR", "DUPLICATE"} : d = IF q.duplicate THEN "DUPLICATE" ELSE "CLEAR"
    OBVIOUS
  <2>2. written(q) = [invoice[i] EXCEPT !.duplicate = d]
    BY <1>6, <2>1 DEF written, runDuplicateCheck
  <2> QED
    BY <1>1, <1>2, <1>6, <2>2 DEF Kept, Invoice, Duplicate
<1>7. CASE q.op = "confirmBuyerApproval"
  <2>1. PICK st \in InvoiceStatus : st = IF i \in ErpApproves THEN "APPROVED" ELSE q.seen
    BY <1>1, <1>7 DEF InvoiceStatus
  <2>2. written(q) = [invoice[i] EXCEPT !.status = st]
    BY <1>7, <2>1 DEF written, confirmBuyerApproval
  <2> QED
    BY <1>1, <1>2, <1>7, <2>2, StatusWritten
<1> QED
  BY <1>1, <1>3, <1>4, <1>5, <1>6, <1>7 DEF InvoiceOps

LEMMA WriteInvoiceType ==
  ASSUME ImportType, NEW r \in Requests, writeInvoice(r)
  PROVE  /\ ImportType'
         /\ \A i \in Invoices : invoice[i] = Absent => invoice'[i] = Absent \/ invoice'[i].batch = "manual"
         /\ \A i \in Invoices : invoice[i] # Absent =>
              /\ invoice'[i] # Absent /\ invoice'[i].batch = invoice[i].batch
              /\ invoice'[i].reference = invoice[i].reference
              /\ invoice'[i].terms = invoice[i].terms
<1>1. PICK q : q = req[r]
  OBVIOUS
<1>2. q \in Updating /\ Founded(q) /\ q.invoice \in Invoices
  BY <1>1, Phases DEF writeInvoice, at, ImportType, Founded, Updating
<1> DEFINE new == written(q)
<1>3. /\ new \in Invoice
      /\ invoice[q.invoice] = Absent => new.batch = "manual"
      /\ invoice[q.invoice] # Absent => /\ new.batch = invoice[q.invoice].batch
                                        /\ new.reference = invoice[q.invoice].reference
                                        /\ new.terms = invoice[q.invoice].terms
  BY <1>2, WrittenType DEF Kept
<1> HIDE DEF new
<1>4. invoice' = [invoice EXCEPT ![q.invoice] = new]
  BY <1>1 DEF writeInvoice, new
<1>5. new # Absent
  BY <1>3 DEF Invoice, Absent
<1>6. /\ invoice' \in [Invoices -> Invoice \cup {Absent}] /\ invoice'[q.invoice] = new
      /\ \A i \in Invoices \ {q.invoice} : invoice'[i] = invoice[i]
  BY <1>2, <1>3, <1>4 DEF ImportType
<1>7. Grows
  BY <1>5, <1>6 DEF Grows, writeInvoice
<1>8. ImportType'
  BY <1>6, <1>7, Step, IdleIsFounded DEF writeInvoice, ImportType, RowTyped
<1> QED
  BY <1>2, <1>3, <1>5, <1>6, <1>8 DEF ImportType

LEMMA PatchIsTyped ==
  ASSUME NEW p \in Patches
  PROVE  /\ p.invoice \in Invoices \cup {Keep} /\ p.reference \in References \cup {Keep}
         /\ p.terms \in Terms \cup {Keep} /\ p.status \in InvoiceStatus \cup {Keep}
         /\ p.validation \in Validation \cup {Keep} /\ p.duplicate \in Duplicate \cup {Keep}
<1>1. p \in Patch
  BY ImportAssumption
<1> QED
  BY <1>1 DEF Patch

\* What a PATCH makes of an invoice; without an amendment, only its status and
\* the outcomes of the checks differ.
LEMMA Patched ==
  ASSUME NEW i \in Invoices, invoice[i] \in Invoice, NEW p \in Patches
  PROVE  /\ patched(i, p) \in Invoice /\ given(p.invoice, i) \in Invoices
         /\ ~Amends(p) => Kept(i, patched(i, p)) /\ given(p.invoice, i) = i
<1>1. PICK st \in InvoiceStatus : st = given(p.status, invoice[i].status)
  BY PatchIsTyped DEF Invoice, given
<1>2. PICK ref \in References : ref = given(p.reference, invoice[i].reference)
  BY PatchIsTyped DEF Invoice, given
<1>3. PICK t \in Terms : t = given(p.terms, invoice[i].terms)
  BY PatchIsTyped DEF Invoice, given
<1>4. PICK v \in Validation : v = given(p.validation, invoice[i].validation)
  BY PatchIsTyped DEF Invoice, given
<1>5. PICK d \in Duplicate : d = given(p.duplicate, invoice[i].duplicate)
  BY PatchIsTyped DEF Invoice, given
<1>6. PICK b \in Batches \cup {"manual"} : b = invoice[i].batch
  BY DEF Invoice
<1>7. patched(i, p) = [status |-> st, batch |-> b, reference |-> ref, terms |-> t,
                       validation |-> v, duplicate |-> d]
  BY <1>1, <1>2, <1>3, <1>4, <1>5, <1>6 DEF patched
<1>8. ~Amends(p) => p.invoice = Keep /\ ref = invoice[i].reference /\ t = invoice[i].terms
  BY <1>2, <1>3 DEF Amends, given
<1>9. given(p.invoice, i) \in Invoices
  BY PatchIsTyped DEF given
<1> QED
  BY <1>6, <1>7, <1>8, <1>9 DEF Invoice, Kept, given

LEMMA ReadPatchedType ==
  ASSUME ImportType, NEW r \in Requests, NEW i \in Invoices, NEW p \in Patches, readPatched(r, i, p)
  PROVE  ImportType'
<1>1. PICK s : s = [phase |-> "patch", invoice |-> i, patch |-> p]
  OBVIOUS
<1>2. s \in Patching /\ s.invoice = i /\ s.patch = p
  BY <1>1 DEF Patching
<1>3. s \in State /\ s \notin Working /\ s \notin Replaying \cup Applying \cup Recording \cup Updating
  BY <1>2 DEF State, Updating, Patching, Working, Replaying, Applying, Recording, BatchPhases
<1>4. /\ become(r, s) /\ invoice[i] # Absent /\ (Amends(p) => "amend" \in scope)
      /\ UNCHANGED <<invoice, batch, row, event, active, history, scope>>
  BY <1>1 DEF readPatched
<1>5. Founded(s)'
  BY <1>2, <1>3, <1>4 DEF Founded, Amends
<1> QED
  BY <1>4, <1>5, Step DEF ImportType, RowTyped, Grows

\* A request that follows the record it works on to its new key.
LEMMA Follows ==
  ASSUME NEW s \in State, NEW i \in Invoices, NEW j \in Invoices, Holds(s, i), Founded(s),
         UNCHANGED scope, invoice'[j] # Absent
  PROVE  /\ Founded([s EXCEPT !.invoice = j])' /\ [s EXCEPT !.invoice = j].phase = s.phase
         /\ s.phase \in {"update", "patch"} /\ (j = i => [s EXCEPT !.invoice = j] = s)
<1> DEFINE t == [s EXCEPT !.invoice = j]
<1>1. CASE s.phase = "update"
  <2>1. s \in Updating /\ s.op # "create" /\ s.invoice = i
    BY <1>1, Phases DEF Holds
  <2>2. /\ t \in Updating /\ t.op = s.op /\ t.invoice = j /\ t.seen = s.seen /\ t.phase = s.phase
        /\ (j = i => t = s)
    BY <2>1 DEF Updating
  <2> HIDE DEF t
  <2>3. t \in State /\ t \notin Working /\ t \notin Replaying \cup Applying \cup Recording \cup Patching
    BY <2>2 DEF State, Updating, Patching, Working, Replaying, Applying, Recording, BatchPhases
  <2>4. s.seen # "none"
    BY <2>1 DEF Founded
  <2>5. PICK u : u = t
    OBVIOUS
  <2>6. Founded(u)'
    BY <2>1, <2>2, <2>3, <2>4, <2>5 DEF Founded
  <2> QED
    BY <1>1, <2>2, <2>5, <2>6 DEF t
<1>2. CASE s.phase = "patch"
  <2>1. s \in Patching /\ s.invoice = i
    BY <1>2, Phases DEF Holds
  <2>2. /\ t \in Patching /\ t.invoice = j /\ t.patch = s.patch /\ t.phase = s.phase
        /\ (j = i => t = s)
    BY <2>1 DEF Patching
  <2> HIDE DEF t
  <2>3. t \in State /\ t \notin Working /\ t \notin Replaying \cup Applying \cup Recording \cup Updating
    BY <2>2 DEF State, Updating, Patching, Working, Replaying, Applying, Recording, BatchPhases
  <2>4. Amends(s.patch) => "amend" \in scope
    BY <2>1 DEF Founded
  <2>5. PICK u : u = t
    OBVIOUS
  <2>6. Founded(u)'
    BY <2>1, <2>2, <2>3, <2>4, <2>5 DEF Founded, Amends
  <2> QED
    BY <1>2, <2>2, <2>5, <2>6 DEF t
<1> QED
  BY <1>1, <1>2 DEF Holds

\* What a PATCH leaves: requests on batches and events are where they were, and
\* without an amendment every invoice keeps what its row says of it.
LEMMA UpdateType ==
  ASSUME ImportType, NEW r \in Requests, update(r)
  PROVE  /\ ImportType' /\ req'[r] = Idle
         /\ \A q \in Requests \ {r} :
              \/ req'[q] = req[q]
              \/ req[q].phase \in {"update", "patch"} /\ req'[q].phase = req[q].phase
         /\ "amend" \notin scope =>
              /\ \A q \in Requests \ {r} : req'[q] = req[q]
              /\ \A k \in Invoices : invoice[k] = Absent => invoice'[k] = Absent
              /\ \A k \in Invoices : invoice[k] # Absent =>
                   /\ invoice'[k] # Absent /\ invoice'[k].batch = invoice[k].batch
                   /\ invoice'[k].reference = invoice[k].reference
                   /\ invoice'[k].terms = invoice[k].terms
<1>1. PICK s : s = req[r]
  OBVIOUS
<1>2. s \in Patching /\ Founded(s) /\ s.invoice \in Invoices /\ s.patch \in Patches
  BY <1>1, Phases DEF update, at, ImportType, Founded, Patching
<1>3. PICK i \in Invoices, p \in Patches : i = s.invoice /\ p = s.patch
  BY <1>2
<1>4. invoice[i] # Absent /\ invoice[i] \in Invoice /\ (Amends(p) => "amend" \in scope)
  BY <1>2, <1>3 DEF Founded, ImportType
<1>5. PICK j \in Invoices : j = given(p.invoice, i)
  BY <1>3, <1>4, Patched
<1>6. PICK new \in Invoice : new = patched(i, p) /\ (~Amends(p) => Kept(i, new) /\ j = i)
  BY <1>3, <1>4, <1>5, Patched
<1>7. UNCHANGED <<batch, row, event, active, history, scope>>
  BY DEF update
<1>8. CASE j # i /\ invoice[j] # Absent
  <2>1. become(r, Idle) /\ UNCHANGED invoice
    BY <1>1, <1>3, <1>5, <1>8 DEF update
  <2> QED
    BY <1>7, <2>1, Step, IdleIsFounded DEF ImportType, RowTyped, Grows
<1>9. CASE ~(j # i /\ invoice[j] # Absent)
  <2>1. /\ invoice' = [invoice EXCEPT ![i] = Absent, ![j] = new]
        /\ req' = [q \in Requests |-> IF q = r THEN Idle
                                       ELSE IF Holds(req[q], i) THEN [req[q] EXCEPT !.invoice = j]
                                       ELSE req[q]]
    BY <1>1, <1>3, <1>5, <1>6, <1>9 DEF update
  <2>2. new # Absent
    BY DEF Invoice, Absent
  <2>3. /\ invoice' \in [Invoices -> Invoice \cup {Absent}] /\ invoice'[j] = new
        /\ i # j => invoice'[i] = Absent
        /\ \A k \in Invoices \ {i, j} : invoice'[k] = invoice[k]
    BY <2>1 DEF ImportType
  <2>4. req'[r] = Idle /\ req' = [q \in Requests |-> req'[q]]
    BY <2>1
  <2>5. ASSUME NEW q \in Requests \ {r}
        PROVE  /\ Founded(req[q])'
               /\ \/ req'[q] = req[q]
                  \/ req[q].phase \in {"update", "patch"} /\ req'[q].phase = req[q].phase
               /\ j = i => req'[q] = req[q]
    <3>1. PICK t : t = req[q]
      OBVIOUS
    <3>2. Founded(t) /\ t \in State
      BY <3>1 DEF ImportType, Founded
    <3>3. CASE Holds(t, i)
      <4>1. PICK u : u = [t EXCEPT !.invoice = j]
        OBVIOUS
      <4>2. req'[q] = u
        BY <2>1, <3>1, <3>3, <4>1
      <4>3. /\ Founded(u)' /\ u.phase = t.phase /\ t.phase \in {"update", "patch"}
            /\ (j = i => u = t)
        <5>1. [t EXCEPT !.invoice = j].phase = t.phase /\ t.phase \in {"update", "patch"}
              /\ (j = i => [t EXCEPT !.invoice = j] = t) /\ Founded([t EXCEPT !.invoice = j])'
          BY <1>7, <2>2, <2>3, <3>2, <3>3, Follows
        <5> QED
          BY <4>1, <5>1
      <4> QED
        BY <3>1, <4>2, <4>3
    <3>4. CASE ~Holds(t, i)
      <4>1. req'[q] = t
        BY <2>1, <3>1, <3>4
      <4>2. t \in Updating /\ t.op # "create" => t.invoice \in Invoices \ {i}
        BY <3>2, <3>4, Phases DEF Holds, Updating
      <4>3. t \in Patching => t.invoice \in Invoices \ {i}
        BY <3>2, <3>4, Phases DEF Holds, Patching
      <4>4. \A k \in Invoices \ {i} : invoice[k] # Absent => invoice'[k] # Absent
        BY <2>2, <2>3
      <4>5. Founded(t)'
        BY <1>7, <3>2, <4>2, <4>3, <4>4 DEF Founded, Amends
      <4> QED
        BY <3>1, <4>1, <4>5
    <3> QED
      BY <3>3, <3>4
  <2>6. ASSUME NEW q \in Requests PROVE Founded(req[q])'
    BY <2>4, <2>5, <2>6, IdleIsFounded
  <2>7. ImportType'
    BY <1>7, <2>3, <2>4, <2>6 DEF ImportType, RowTyped
  <2>8. "amend" \notin scope => j = i /\ Kept(i, new)
    BY <1>4, <1>6
  <2> QED
    BY <1>4, <2>2, <2>3, <2>4, <2>5, <2>7, <2>8 DEF Kept
<1> QED
  BY <1>8, <1>9

LEMMA FinanceType ==
  ASSUME ImportType, NEW i \in Invoices, finance(i)
  PROVE  /\ ImportType'
         /\ \A j \in Invoices : invoice[j] = Absent => invoice'[j] = Absent
         /\ \A j \in Invoices : invoice[j] # Absent =>
              /\ invoice'[j] # Absent /\ invoice'[j].batch = invoice[j].batch
              /\ invoice'[j].reference = invoice[j].reference
              /\ invoice'[j].terms = invoice[j].terms
<1>1. invoice[i] \in Invoice
  BY DEF finance, ImportType, Absent
<1> DEFINE new == [invoice[i] EXCEPT !.status = "FINANCED"]
<1>2. new \in Invoice /\ new.batch = invoice[i].batch /\ new # Absent /\ invoice[i] # Absent
      /\ new.reference = invoice[i].reference /\ new.terms = invoice[i].terms
  BY <1>1 DEF Invoice, InvoiceStatus, Absent
<1>3. invoice' = [invoice EXCEPT ![i] = new]
  BY DEF finance
<1> HIDE DEF new
<1>4. /\ invoice' \in [Invoices -> Invoice \cup {Absent}] /\ invoice'[i] = new
      /\ \A j \in Invoices \ {i} : invoice'[j] = invoice[j]
  BY <1>2, <1>3 DEF ImportType
<1>5. Grows
  BY <1>2, <1>4 DEF Grows, finance
<1>6. ImportType'
  BY <1>4, <1>5, StepElsewhere DEF finance, ImportType
<1> QED
  BY <1>2, <1>4, <1>6

LEMMA StepType == ImportType /\ [Next]_vars => ImportType'
<1> SUFFICES ASSUME ImportType, [Next]_vars PROVE ImportType'
  OBVIOUS
<1>1. ASSUME NEW r \in Requests, NEW b \in Batches, upload(r, b) \/ processValidRows(r, b) \/ cancelBatch(r, b)
      PROVE  ImportType'
  BY <1>1, UploadType, ProcessType, CancelType
<1>2. ASSUME NEW r \in Requests, NEW e \in Events,
             (\E signed \in BOOLEAN : processProviderWebhook(r, e, signed)) \/ retryProviderWebhookEvent(r, e)
      PROVE  ImportType'
  BY <1>2, WebhookType, RetryType
<1>3. ASSUME NEW r \in Requests, NEW op \in InvoiceOps, NEW i \in Invoices, readInvoice(r, op, i)
      PROVE  ImportType'
  BY <1>3, ReadInvoiceType
<1>10. ASSUME NEW r \in Requests, NEW i \in Invoices, NEW p \in Patches, readPatched(r, i, p)
       PROVE  ImportType'
  BY <1>10, ReadPatchedType
<1>4. ASSUME NEW r \in Requests, Proceed(r) PROVE ImportType'
  <2>1. CASE markImported(r)
    <3>1. PICK s : s = [nextRow(req[r]) EXCEPT !.imported = @ + 1]
      OBVIOUS
    <3> QED
      BY <2>1, <3>1, MarkType DEF markImported
  <2>2. CASE parseRow(r) \/ parsed(r) \/ validateAgain(r) \/ createInvoice(r) \/ processed(r) \/ skipRows(r)
    BY <2>2, ParseRowType, ParsedType, ValidateAgainType, CreateInvoiceType, ProcessedType, SkipType
  <2>3. CASE storeEvent(r) \/ replay(r) \/ applyToInvoice(r) \/ applyAsBatch(r) \/ record(r)
             \/ writeInvoice(r) \/ update(r)
    BY <2>3, StoreEventType, ReplayType, ApplyToInvoiceType, ApplyAsBatchType, RecordType, WriteInvoiceType,
       UpdateType
  <2> QED
    BY <1>4, <2>1, <2>2, <2>3 DEF Proceed
<1>5. ASSUME NEW r \in Requests, auditFails(r) PROVE ImportType'
  <2>1. PICK s : s = [failedRow(req[r]) EXCEPT !.imported = @ + 1]
    OBVIOUS
  <2> QED
    BY <1>5, <2>1, MarkType DEF auditFails
<1>6. ASSUME NEW r \in Requests, crash(r) PROVE ImportType'
  BY <1>6, Step, IdleIsFounded DEF crash, ImportType, RowTyped, Grows
<1>7. ASSUME NEW i \in Invoices, finance(i) PROVE ImportType'
  BY <1>7, FinanceType
<1>8. ASSUME NEW s \in Suppliers, addParticipant(s) PROVE ImportType'
  BY <1>8, StepElsewhere DEF addParticipant, ImportType, Grows
<1>9. CASE UNCHANGED vars
  BY <1>9, StepElsewhere DEF vars, ImportType, Grows
<1> QED
  BY <1>1, <1>2, <1>3, <1>4, <1>5, <1>6, <1>7, <1>8, <1>9, <1>10 DEF Next

\* Every record has the type the schema gives it, and a request in flight works
\* on records that exist, whatever overlaps.
THEOREM TypeCorrect == Spec => []ImportType
  BY InitType, StepType, PTL DEF Spec
-----------------------------------------------------------------------------
(* The invoice of a row *)

Claim(s) == Lines[s.batch][Min(s.todo)].invoice

\* A row marked as imported, and one about to be, has an invoice of its batch
\* which no other such row has.
OwnInv ==
  /\ \A b \in Batches : \A k \in RowsOf(b) : row[b][k] = "IMPORTED" =>
       invoice[Lines[b][k].invoice] # Absent /\ invoice[Lines[b][k].invoice].batch = b
  /\ \A b, c \in Batches : \A k \in RowsOf(b), j \in RowsOf(c) :
       /\ row[b][k] = "IMPORTED" /\ row[c][j] = "IMPORTED"
       /\ Lines[b][k].invoice = Lines[c][j].invoice
       => b = c /\ k = j
  /\ \A r \in Requests : at(r, "mark") =>
       /\ invoice[Claim(req[r])] # Absent /\ invoice[Claim(req[r])].batch = req[r].batch
       /\ \A b \in Batches : \A k \in RowsOf(b) :
            row[b][k] = "IMPORTED" => Lines[b][k].invoice # Claim(req[r])
  /\ \A r, q \in Requests : r # q /\ at(r, "mark") /\ at(q, "mark") => Claim(req[r]) # Claim(req[q])

\* The same, unless a PATCH may amend an invoice.
Owned == "amend" \notin scope => OwnInv

LEMMA OwnImplies == Owned => RowOwnsItsInvoice
  BY DEF Owned, OwnInv, RowOwnsItsInvoice, Imported, lineOf

LEMMA OwnInit == Init => Owned
  BY DEF Init, Owned, OwnInv, at, Idle

InvoicesKept ==
  \A i \in Invoices : invoice[i] # Absent => invoice'[i] # Absent /\ invoice'[i].batch = invoice[i].batch

LEMMA ClaimIsInvoice ==
  ASSUME ImportType, NEW r \in Requests, at(r, "mark")
  PROVE  Claim(req[r]) \in Invoices
<1>1. /\ req[r].batch \in Batches /\ Min(req[r].todo) \in RowsOf(req[r].batch)
  BY AtWork DEF at, BatchPhases
<1> QED
  BY <1>1, Rows DEF Claim, Line

\* A step that marks nothing and creates no invoice for a row.
LEMMA OwnShrinks ==
  ASSUME ImportType, OwnInv, InvoicesKept,
         \A b \in Batches : \A k \in RowsOf(b) : row'[b][k] = "IMPORTED" => row[b][k] = "IMPORTED",
         \A q \in Requests : req'[q].phase = "mark" => req'[q] = req[q]
  PROVE  OwnInv'
<1>1. \A b \in Batches : \A k \in RowsOf(b) : Lines[b][k].invoice \in Invoices
  BY Rows DEF Line
<1>2. \A r \in Requests : at(r, "mark")' => at(r, "mark") /\ req'[r] = req[r] /\ Claim(req[r]) \in Invoices
  BY ClaimIsInvoice DEF at
<1>3. \A r \in Requests : at(r, "mark")' => Claim(req[r])' = Claim(req[r])
  BY <1>2 DEF Claim
<1>4. \A b \in Batches : \A k \in RowsOf(b) : row'[b][k] = "IMPORTED" =>
        invoice'[Lines[b][k].invoice] # Absent /\ invoice'[Lines[b][k].invoice].batch = b
  BY <1>1 DEF OwnInv, InvoicesKept
<1>5. \A b, c \in Batches : \A k \in RowsOf(b), j \in RowsOf(c) :
       /\ row'[b][k] = "IMPORTED" /\ row'[c][j] = "IMPORTED"
       /\ Lines[b][k].invoice = Lines[c][j].invoice
       => b = c /\ k = j
  BY DEF OwnInv
<1>6. ASSUME NEW r \in Requests, at(r, "mark")'
      PROVE  /\ invoice'[Claim(req[r])] # Absent /\ invoice'[Claim(req[r])].batch = req[r].batch
             /\ \A b \in Batches : \A k \in RowsOf(b) :
                  row'[b][k] = "IMPORTED" => Lines[b][k].invoice # Claim(req[r])
  BY <1>2, <1>6 DEF OwnInv, InvoicesKept
<1>7. \A r, q \in Requests : r # q /\ at(r, "mark")' /\ at(q, "mark")' => Claim(req[r]) # Claim(req[q])
  BY <1>2 DEF OwnInv
<1> QED
  BY <1>2, <1>3, <1>4, <1>5, <1>6, <1>7 DEF OwnInv

\* The invoice of a row is created: nobody had one with its key.
LEMMA OwnCreates ==
  ASSUME ImportType, OwnInv, NEW r \in Requests, NEW b \in Batches, NEW i \in Invoices,
         invoice[i] = Absent, invoice'[i] # Absent, invoice'[i].batch = b,
         \A j \in Invoices \ {i} : invoice'[j] = invoice[j],
         UNCHANGED row, req'[r].batch = b, Claim(req'[r]) = i,
         \A q \in Requests \ {r} : req'[q] = req[q]
  PROVE  OwnInv'
<1>1. \A c \in Batches : \A k \in RowsOf(c) : Lines[c][k].invoice \in Invoices
  BY Rows DEF Line
<1>2. \A q \in Requests \ {r} : at(q, "mark")' =>
        /\ at(q, "mark") /\ req'[q] = req[q] /\ Claim(req[q]) \in Invoices
        /\ Claim(req[q]) # i /\ Claim(req[q])' = Claim(req[q])
  BY ClaimIsInvoice DEF at, OwnInv, Claim
<1>3. \A c \in Batches : \A k \in RowsOf(c) : row[c][k] = "IMPORTED" => Lines[c][k].invoice # i
  BY DEF OwnInv
<1>4. Claim(req[r])' = i
  BY DEF Claim
<1>5. \A c \in Batches : \A k \in RowsOf(c) : row'[c][k] = "IMPORTED" =>
        invoice'[Lines[c][k].invoice] # Absent /\ invoice'[Lines[c][k].invoice].batch = c
  BY <1>1, <1>3 DEF OwnInv
<1>6. \A c, d \in Batches : \A k \in RowsOf(c), j \in RowsOf(d) :
       /\ row'[c][k] = "IMPORTED" /\ row'[d][j] = "IMPORTED"
       /\ Lines[c][k].invoice = Lines[d][j].invoice
       => c = d /\ k = j
  BY DEF OwnInv
<1>7. ASSUME NEW q \in Requests, at(q, "mark")'
      PROVE  /\ invoice'[Claim(req[q])'] # Absent /\ invoice'[Claim(req[q])'].batch = req'[q].batch
             /\ \A c \in Batches : \A k \in RowsOf(c) :
                  row'[c][k] = "IMPORTED" => Lines[c][k].invoice # Claim(req[q])'
  <2>1. CASE q = r
    BY <1>3, <1>4, <2>1
  <2>2. CASE q # r
    BY <1>2, <1>7, <2>2 DEF OwnInv
  <2> QED
    BY <2>1, <2>2
<1>8. \A p, q \in Requests : p # q /\ at(p, "mark")' /\ at(q, "mark")' => Claim(req[p])' # Claim(req[q])'
  BY <1>2, <1>4 DEF OwnInv
<1> QED
  BY <1>5, <1>6, <1>7, <1>8 DEF OwnInv

\* A row is marked by the request that created its invoice.
LEMMA OwnMarks ==
  ASSUME ImportType, OwnInv, NEW r \in Requests, at(r, "mark"), NEW st \in {"IMPORTED", "FAILED"},
         row' = [row EXCEPT ![req[r].batch][Min(req[r].todo)] = st], UNCHANGED invoice,
         req'[r].phase = "row", \A q \in Requests \ {r} : req'[q] = req[q]
  PROVE  OwnInv'
<1> DEFINE b == req[r].batch
           k == Min(req[r].todo)
<1>1. b \in Batches /\ k \in RowsOf(b)
  BY AtWork DEF at, BatchPhases
<1>2. /\ row'[b][k] = st
      /\ \A c \in Batches : \A j \in RowsOf(c) : c # b \/ j # k => row'[c][j] = row[c][j]
  BY <1>1, RowWritten DEF ImportType, RowStatus
<1>3. Lines[b][k].invoice = Claim(req[r])
  BY DEF Claim
<1>4. /\ invoice[Claim(req[r])] # Absent /\ invoice[Claim(req[r])].batch = b
      /\ \A c \in Batches : \A j \in RowsOf(c) : row[c][j] = "IMPORTED" => Lines[c][j].invoice # Lines[b][k].invoice
  BY <1>3 DEF OwnInv
<1>5. \A q \in Requests : at(q, "mark")' => q # r /\ at(q, "mark") /\ req'[q] = req[q]
                                            /\ Claim(req[q]) # Lines[b][k].invoice /\ Claim(req[q])' = Claim(req[q])
  BY <1>3 DEF at, OwnInv, Claim
<1> HIDE DEF b, k
<1>6. \A c \in Batches : \A j \in RowsOf(c) : row'[c][j] = "IMPORTED" =>
        invoice'[Lines[c][j].invoice] # Absent /\ invoice'[Lines[c][j].invoice].batch = c
  BY <1>2, <1>3, <1>4 DEF OwnInv
<1>7. \A c, d \in Batches : \A j \in RowsOf(c), l \in RowsOf(d) :
       /\ row'[c][j] = "IMPORTED" /\ row'[d][l] = "IMPORTED"
       /\ Lines[c][j].invoice = Lines[d][l].invoice
       => c = d /\ j = l
  BY <1>2, <1>4 DEF OwnInv
<1>8. ASSUME NEW q \in Requests, at(q, "mark")'
      PROVE  /\ invoice'[Claim(req[q])'] # Absent /\ invoice'[Claim(req[q])'].batch = req'[q].batch
             /\ \A c \in Batches : \A j \in RowsOf(c) :
                  row'[c][j] = "IMPORTED" => Lines[c][j].invoice # Claim(req[q])'
  BY <1>2, <1>5, <1>8 DEF OwnInv
<1>9. \A p, q \in Requests : p # q /\ at(p, "mark")' /\ at(q, "mark")' => Claim(req[p])' # Claim(req[q])'
  BY <1>5 DEF OwnInv
<1> QED
  BY <1>6, <1>7, <1>8, <1>9 DEF OwnInv

\* One step per action.
LEMMA OwnStep == ImportType /\ OwnInv /\ "amend" \notin scope /\ [Next]_vars => OwnInv'
<1> SUFFICES ASSUME ImportType, OwnInv, "amend" \notin scope, [Next]_vars PROVE OwnInv'
  OBVIOUS
<1>0. \A r \in Requests : \A s : become(r, s) => req'[r] = s /\ \A q \in Requests \ {r} : req'[q] = req[q]
  BY DEF become, ImportType
\* Steps that leave rows and invoices alone and bring no request to "mark".
<1>1. ASSUME NEW r \in Requests, NEW s, become(r, s), s.phase # "mark", UNCHANGED <<invoice, row>> PROVE OwnInv'
  BY <1>0, <1>1, OwnShrinks DEF InvoicesKept
<1>2. ASSUME NEW r \in Requests, NEW b \in Batches, NEW e, NEW a, createBatch(r, b, e, a), UNCHANGED <<invoice, row>>
      PROVE  OwnInv'
  BY <1>1, <1>2 DEF createBatch, working
<1>3. ASSUME NEW r \in Requests, NEW b \in Batches, upload(r, b) \/ processValidRows(r, b) \/ cancelBatch(r, b)
      PROVE  OwnInv'
  BY <1>1, <1>2, <1>3 DEF upload, processValidRows, cancelBatch, working
<1>4. ASSUME NEW r \in Requests, parseRow(r) PROVE OwnInv'
  <2> DEFINE b == req[r].batch
             k == Min(req[r].todo)
             st == validateImportRow(Lines[b][k])
  <2>1. /\ b \in Batches /\ k \in RowsOf(b) /\ req[r] \in Working /\ req[r].phase = "parse"
    BY <1>4, AtWork DEF parseRow, at, BatchPhases
  <2>2. st \in RowStatus /\ st # "IMPORTED"
    BY Validated DEF RowStatus
  <2>3. row' = [row EXCEPT ![b][k] = st] /\ UNCHANGED invoice
    BY <1>4 DEF parseRow
  <2>4. req'[r].phase = "parse" /\ \A q \in Requests \ {r} : req'[q] = req[q]
    <3>1. PICK T, n : req' = [req EXCEPT ![r] = [req[r] EXCEPT !.todo = T, !.failed = n]]
      BY <1>4 DEF parseRow, become
    <3>2. req'[r] = [req[r] EXCEPT !.todo = T, !.failed = n] /\ \A q \in Requests \ {r} : req'[q] = req[q]
      BY <3>1 DEF ImportType
    <3> QED
      BY <2>1, <3>2 DEF Working
  <2> HIDE DEF st, k
  <2>6. \A c \in Batches : \A j \in RowsOf(c) : row'[c][j] = "IMPORTED" => row[c][j] = "IMPORTED"
    BY <2>1, <2>2, <2>3, RowWritten DEF ImportType
  <2> QED
    BY <2>3, <2>4, <2>6, OwnShrinks DEF InvoicesKept
<1>5. ASSUME NEW r \in Requests, parsed(r) PROVE OwnInv'
  BY <1>1, <1>5 DEF parsed, Idle
<1>6. ASSUME NEW r \in Requests, validateAgain(r) PROVE OwnInv'
  <2> DEFINE b == req[r].batch
             k == Min(req[r].todo)
             st == validateImportRow(Lines[b][k])
  <2>1. /\ b \in Batches /\ k \in RowsOf(b) /\ req[r] \in Working
    BY <1>6, AtWork DEF validateAgain, at, BatchPhases
  <2>2. st \in RowStatus /\ st # "IMPORTED"
    BY Validated DEF RowStatus
  <2>3. CASE st = "VALID"
    <3>1. [req[r] EXCEPT !.phase = "create"].phase # "mark"
      BY <2>1, SamePhase DEF BatchPhases
    <3> QED
      BY <1>1, <1>6, <2>3, <3>1 DEF validateAgain
  <2>4. CASE st # "VALID"
    <3>1. row' = [row EXCEPT ![b][k] = st] /\ become(r, failedRow(req[r])) /\ UNCHANGED invoice
      BY <1>6, <2>4 DEF validateAgain
    <3>2. req'[r].phase = "row" /\ \A q \in Requests \ {r} : req'[q] = req[q]
      <4>1. PICK s : s = failedRow(req[r])
        OBVIOUS
      <4>2. s.phase = "row"
        BY <2>1, <4>1, NextRow
      <4>3. become(r, s)
        BY <3>1, <4>1
      <4> QED
        BY <1>0, <4>2, <4>3
    <3> HIDE DEF st, k
    <3>3. \A c \in Batches : \A j \in RowsOf(c) : row'[c][j] = "IMPORTED" => row[c][j] = "IMPORTED"
      BY <2>1, <2>2, <3>1, RowWritten DEF ImportType
    <3> QED
      BY <3>1, <3>2, <3>3, OwnShrinks DEF InvoicesKept
  <2> QED
    BY <2>3, <2>4
<1>7. ASSUME NEW r \in Requests, createInvoice(r) PROVE OwnInv'
  <2> DEFINE b == req[r].batch
             k == Min(req[r].todo)
             i == Lines[b][k].invoice
  <2>1. /\ b \in Batches /\ k \in RowsOf(b) /\ req[r] \in Working
    BY <1>7, AtWork DEF createInvoice, at, BatchPhases
  <2>2. Lines[b][k] \in Line /\ i \in Invoices
    BY <2>1, Rows DEF Line
  <2>3. CASE invoice[i] = Absent
    <3>1. /\ invoice' = [invoice EXCEPT ![i] = invoiceCreateData(Lines[b][k], b)]
          /\ become(r, [req[r] EXCEPT !.phase = "mark"]) /\ UNCHANGED row
      BY <1>7, <2>3 DEF createInvoice
    <3>2. /\ invoice'[i] # Absent /\ invoice'[i].batch = b
          /\ \A j \in Invoices \ {i} : invoice'[j] = invoice[j]
      BY <2>1, <2>2, <3>1, CreatedIsTyped DEF ImportType, Invoice, Absent
    <3>3. req'[r].batch = b /\ req'[r].todo = req[r].todo /\ \A q \in Requests \ {r} : req'[q] = req[q]
      <4>1. PICK s : s = [req[r] EXCEPT !.phase = "mark"]
        OBVIOUS
      <4>2. s.batch = b /\ s.todo = req[r].todo
        BY <2>1, <4>1, SamePhase DEF BatchPhases
      <4>3. become(r, s)
        BY <3>1, <4>1
      <4> QED
        BY <1>0, <4>2, <4>3
    <3>4. Claim(req'[r]) = i
      BY <3>3 DEF Claim
    <3> QED
      BY <2>1, <2>2, <2>3, <3>1, <3>2, <3>3, <3>4, OwnCreates
  <2>4. CASE invoice[i] # Absent
    <3>1. row' = [row EXCEPT ![b][k] = "FAILED"] /\ become(r, failedRow(req[r])) /\ UNCHANGED invoice
      BY <1>7, <2>4 DEF createInvoice
    <3>2. req'[r].phase = "row" /\ \A q \in Requests \ {r} : req'[q] = req[q]
      <4>1. PICK s : s = failedRow(req[r])
        OBVIOUS
      <4>2. s.phase = "row"
        BY <2>1, <4>1, NextRow
      <4>3. become(r, s)
        BY <3>1, <4>1
      <4> QED
        BY <1>0, <4>2, <4>3
    <3> HIDE DEF k
    <3>3. \A c \in Batches : \A j \in RowsOf(c) : row'[c][j] = "IMPORTED" => row[c][j] = "IMPORTED"
      BY <2>1, <3>1, RowWritten DEF ImportType, RowStatus
    <3> QED
      BY <3>1, <3>2, <3>3, OwnShrinks DEF InvoicesKept
  <2> QED
    BY <2>3, <2>4
<1>8. ASSUME NEW r \in Requests, markImported(r) PROVE OwnInv'
  <2>1. PICK s : s = [nextRow(req[r]) EXCEPT !.imported = @ + 1]
    OBVIOUS
  <2>2. req'[r].phase = "row" /\ \A q \in Requests \ {r} : req'[q] = req[q]
    BY <1>8, <2>1, MarkType DEF markImported
  <2> QED
    BY <1>8, <2>2, OwnMarks DEF markImported
<1>9. ASSUME NEW r \in Requests, auditFails(r) PROVE OwnInv'
  <2>1. PICK s : s = [failedRow(req[r]) EXCEPT !.imported = @ + 1]
    OBVIOUS
  <2>2. req'[r].phase = "row" /\ \A q \in Requests \ {r} : req'[q] = req[q]
    BY <1>9, <2>1, MarkType DEF auditFails
  <2> QED
    BY <1>9, <2>2, OwnMarks DEF auditFails
<1>10. ASSUME NEW r \in Requests, processed(r) \/ storeEvent(r) \/ replay(r) \/ record(r) \/ crash(r)
       PROVE  OwnInv'
  BY <1>1, <1>10 DEF processed, storeEvent, replay, record, crash, Idle
<1>11. ASSUME NEW r \in Requests, applyAsBatch(r) PROVE OwnInv'
  BY <1>2, <1>11 DEF applyAsBatch
<1>12. ASSUME NEW r \in Requests, skipRows(r) PROVE OwnInv'
  <2>1. req[r].batch \in Batches
    BY <1>12, AtWork DEF skipRows, at, BatchPhases
  <2>2. \A c \in Batches : \A j \in RowsOf(c) : row'[c][j] = "IMPORTED" => row[c][j] = "IMPORTED"
    BY <1>12, <2>1 DEF skipRows, ImportType, RowTyped
  <2> QED
    BY <1>0, <1>12, <2>2, OwnShrinks DEF skipRows, InvoicesKept, Idle
<1>13. ASSUME NEW r \in Requests, NEW e \in Events,
              (\E signed \in BOOLEAN : processProviderWebhook(r, e, signed)) \/ retryProviderWebhookEvent(r, e)
       PROVE  OwnInv'
  BY <1>1, <1>13 DEF processProviderWebhook, retryProviderWebhookEvent
<1>14. ASSUME NEW r \in Requests, applyToInvoice(r) PROVE OwnInv'
  <2>1. InvoicesKept
    BY <1>14, ApplyToInvoiceType DEF InvoicesKept
  <2>2. UNCHANGED row /\ \E ok \in BOOLEAN : become(r, recording(r, ok))
    BY <1>14 DEF applyToInvoice
  <2> QED
    BY <1>0, <2>1, <2>2, OwnShrinks DEF recording
<1>15. ASSUME NEW r \in Requests, writeInvoice(r) PROVE OwnInv'
  <2>1. InvoicesKept
    BY <1>15, WriteInvoiceType DEF InvoicesKept
  <2> QED
    BY <1>0, <1>15, <2>1, OwnShrinks DEF writeInvoice, Idle
<1>16. ASSUME NEW r \in Requests, NEW op \in InvoiceOps, NEW i \in Invoices, readInvoice(r, op, i) PROVE OwnInv'
  BY <1>1, <1>16 DEF readInvoice
<1>17. ASSUME NEW i \in Invoices, finance(i) PROVE OwnInv'
  <2>1. InvoicesKept
    BY <1>17, FinanceType DEF InvoicesKept
  <2> QED
    BY <1>17, <2>1, OwnShrinks DEF finance
<1>18. ASSUME NEW s \in Suppliers, addParticipant(s) PROVE OwnInv'
  BY <1>18, OwnShrinks DEF addParticipant, InvoicesKept
<1>19. CASE UNCHANGED vars
  BY <1>19, OwnShrinks DEF vars, InvoicesKept
<1>20. ASSUME NEW r \in Requests, NEW i \in Invoices, NEW p \in Patches, readPatched(r, i, p) PROVE OwnInv'
  BY <1>1, <1>20 DEF readPatched
<1>21. ASSUME NEW r \in Requests, update(r) PROVE OwnInv'
  <2>1. InvoicesKept /\ req'[r] = Idle /\ \A q \in Requests \ {r} : req'[q] = req[q]
    BY <1>21, UpdateType DEF InvoicesKept
  <2> QED
    BY <1>21, <2>1, OwnShrinks DEF update, Idle
<1> QED
  BY <1>3, <1>4, <1>5, <1>6, <1>7, <1>8, <1>9, <1>10, <1>11, <1>12, <1>13, <1>14, <1>15, <1>16,
     <1>17, <1>18, <1>19, <1>20, <1>21 DEF Next, Proceed

LEMMA ScopeStays == [Next]_vars => UNCHANGED scope
<1> SUFFICES ASSUME [Next]_vars PROVE scope' = scope
  OBVIOUS
<1>1. ASSUME NEW r \in Requests, Proceed(r) PROVE scope' = scope
  BY <1>1 DEF Proceed, parseRow, parsed, validateAgain, createInvoice, markImported, processed, skipRows,
     storeEvent, replay, applyToInvoice, applyAsBatch, record, writeInvoice, update
<1>2. ASSUME NEW r \in Requests, NEW b \in Batches, upload(r, b) \/ processValidRows(r, b) \/ cancelBatch(r, b)
      PROVE  scope' = scope
  BY <1>2 DEF upload, processValidRows, cancelBatch
<1>3. ASSUME NEW r \in Requests, NEW e \in Events,
             (\E signed \in BOOLEAN : processProviderWebhook(r, e, signed)) \/ retryProviderWebhookEvent(r, e)
      PROVE  scope' = scope
  BY <1>3 DEF processProviderWebhook, retryProviderWebhookEvent
<1>4. ASSUME NEW r \in Requests, NEW i \in Invoices,
             (\E op \in InvoiceOps : readInvoice(r, op, i)) \/ (\E p \in Patches : readPatched(r, i, p))
      PROVE  scope' = scope
  BY <1>4 DEF readInvoice, readPatched
<1>5. ASSUME NEW r \in Requests, auditFails(r) \/ crash(r) PROVE scope' = scope
  BY <1>5 DEF auditFails, crash
<1>6. CASE (\E i \in Invoices : finance(i)) \/ (\E q \in Suppliers : addParticipant(q)) \/ UNCHANGED vars
  BY <1>6 DEF finance, addParticipant, vars
<1> QED
  BY <1>1, <1>2, <1>3, <1>4, <1>5, <1>6 DEF Next

LEMMA OwnedStep == ImportType /\ Owned /\ [Next]_vars => Owned'
  BY OwnStep, ScopeStays DEF Owned

-----------------------------------------------------------------------------
(* Cancelled batches *)

\* Requests of a serial batch do not overlap, and of a cancelled one only the
\* cancellation is under way.
SerialInv ==
  /\ \A b \in Serial : \A r, q \in Requests : OnBatch(r, b) /\ OnBatch(q, b) => r = q
  /\ \A b \in Serial : \A r \in Requests : OnBatch(r, b) /\ batch[b].status = "CANCELLED" => at(r, "skip")

CancelledStays ==
  \A b \in Serial : batch[b] # Absent /\ batch[b].status = "CANCELLED" =>
    /\ batch'[b].status = "CANCELLED"
    /\ \A k \in RowsOf(b) : row'[b][k] = "IMPORTED" => row[b][k] = "IMPORTED"

LEMMA SerialInit == Init => SerialInv
  BY DEF Init, SerialInv, OnBatch, Idle, BatchPhases

\* Another's step: a request goes on with its batch or leaves it, and only one
\* that is not cancelling writes the batch or marks a row of it.
LEMMA SerialGoesOn ==
  ASSUME ImportType, SerialInv, NEW r \in Requests, NEW s, become(r, s),
         s.phase \in BatchPhases => /\ req[r].phase \in BatchPhases \ {"skip"} /\ s.batch = req[r].batch,
         \A b \in Serial : batch'[b] = batch[b]
                           \/ (OnBatch(r, b) /\ ~at(r, "skip") /\ batch'[b].status # "CANCELLED"),
         \A b \in Serial : \A k \in RowsOf(b) : row'[b][k] = "IMPORTED" =>
            row[b][k] = "IMPORTED" \/ (OnBatch(r, b) /\ ~at(r, "skip"))
  PROVE  SerialInv' /\ CancelledStays
<1>1. req'[r] = s /\ \A q \in Requests \ {r} : req'[q] = req[q]
  BY DEF become, ImportType
<1>2. \A b \in Serial, q \in Requests : OnBatch(q, b)' => OnBatch(q, b)
  BY <1>1 DEF OnBatch
<1>3. \A b \in Serial : OnBatch(r, b)' => ~at(r, "skip")
  BY <1>1 DEF OnBatch, at
<1>4. \A b \in Serial : batch[b].status = "CANCELLED" => ~(OnBatch(r, b) /\ ~at(r, "skip"))
  BY DEF SerialInv
<1>5. CancelledStays
  BY <1>4 DEF CancelledStays
<1>6. ASSUME NEW b \in Serial, NEW q \in Requests, OnBatch(q, b)', batch'[b].status = "CANCELLED"
      PROVE  at(q, "skip")'
  <2>1. batch'[b] = batch[b] \/ (OnBatch(r, b) /\ ~at(r, "skip") /\ batch'[b].status # "CANCELLED")
    OBVIOUS
  <2>2. batch'[b] = batch[b] /\ batch[b].status = "CANCELLED"
    BY <1>6, <2>1
  <2>3. at(q, "skip")
    BY <1>2, <1>6, <2>2 DEF SerialInv
  <2>4. q # r
    BY <1>3, <1>6, <2>3
  <2> QED
    BY <1>1, <2>3, <2>4 DEF at
<1> QED
  BY <1>2, <1>5, <1>6 DEF SerialInv

\* A request takes up a batch no other works on.
LEMMA SerialTakesUp ==
  ASSUME ImportType, SerialInv, NEW r \in Requests, NEW s, become(r, s), NEW b \in Batches,
         s.phase \in BatchPhases, s.batch = b, ~(req[r].phase \in BatchPhases),
         b \in Serial => \A q \in Requests : ~OnBatch(q, b),
         b \in Serial /\ batch'[b].status = "CANCELLED" => s.phase = "skip",
         b \in Serial /\ batch[b].status = "CANCELLED" => batch'[b].status = "CANCELLED",
         \A c \in Batches \ {b} : batch'[c] = batch[c], UNCHANGED row
  PROVE  SerialInv' /\ CancelledStays
<1>1. req'[r] = s /\ \A q \in Requests \ {r} : req'[q] = req[q]
  BY DEF become, ImportType
<1>2. \A q \in Requests, c \in Serial : OnBatch(q, c)' =>
        IF q = r THEN c = b ELSE OnBatch(q, c) /\ c # b
  BY <1>1 DEF OnBatch
<1>3. Serial \subseteq Batches
  BY ImportAssumption
<1>4. CancelledStays
  BY <1>3 DEF CancelledStays
<1>5. \A c \in Serial : \A p, q \in Requests : OnBatch(p, c)' /\ OnBatch(q, c)' => p = q
  BY <1>2 DEF SerialInv
<1>6. ASSUME NEW c \in Serial, NEW q \in Requests, OnBatch(q, c)', batch'[c].status = "CANCELLED"
      PROVE  at(q, "skip")'
  <2>1. CASE q = r
    BY <1>1, <1>2, <1>6, <2>1 DEF at
  <2>2. CASE q # r
    <3>1. OnBatch(q, c) /\ c # b
      BY <1>2, <1>6, <2>2
    <3>2. batch'[c] = batch[c]
      BY <1>3, <3>1
    <3>3. at(q, "skip")
      BY <1>6, <3>1, <3>2 DEF SerialInv
    <3> QED
      BY <1>1, <2>2, <3>3 DEF at
  <2> QED
    BY <2>1, <2>2
<1> QED
  BY <1>4, <1>5, <1>6 DEF SerialInv

\* A step of a request that works on no batch before it and on none after it.
LEMMA SerialElsewhere ==
  ASSUME ImportType, SerialInv, UNCHANGED <<batch, row>>,
         UNCHANGED req \/ \E r \in Requests : \E s : become(r, s) /\ s.phase \notin BatchPhases
  PROVE  SerialInv' /\ CancelledStays
<1>1. CancelledStays
  BY DEF CancelledStays
<1>2. CASE UNCHANGED req
  BY <1>1, <1>2 DEF SerialInv, OnBatch, at
<1>3. CASE ~UNCHANGED req
  <2>1. PICK r \in Requests : \E s : become(r, s) /\ s.phase \notin BatchPhases
    BY <1>3
  <2>2. PICK s : become(r, s) /\ s.phase \notin BatchPhases
    BY <2>1
  <2> QED
    BY <2>2, SerialGoesOn
<1> QED
  BY <1>2, <1>3

\* A PATCH concerns no request that works on a batch.
LEMMA SerialUpdated ==
  ASSUME ImportType, SerialInv, NEW r \in Requests, update(r)
  PROVE  SerialInv' /\ CancelledStays
<1>1. \A q \in Requests : req'[q].phase \in BatchPhases => req'[q] = req[q]
  BY UpdateType DEF Idle, BatchPhases
<1>2. UNCHANGED <<batch, row>>
  BY DEF update
<1>3. CancelledStays
  BY <1>2 DEF CancelledStays
<1> QED
  BY <1>1, <1>2, <1>3 DEF SerialInv, OnBatch, at, BatchPhases

\* One step per action; it goes on with its batch, takes one up, or is elsewhere.
LEMMA SerialStep == ImportType /\ SerialInv /\ [Next]_vars => SerialInv' /\ CancelledStays
<1> SUFFICES ASSUME ImportType, SerialInv, [Next]_vars PROVE SerialInv' /\ CancelledStays
  OBVIOUS
<1> DEFINE Goal == SerialInv' /\ CancelledStays
<1> SUFFICES Goal
  OBVIOUS
<1>0. \A r \in Requests : req[r] = Idle \/ at(r, "apply") => req[r].phase \notin BatchPhases
  BY DEF Idle, at, BatchPhases
\* A request at work on a batch, cancelling none.
<1>1. ASSUME NEW r \in Requests, req[r].phase \in BatchPhases \ {"skip"}
      PROVE  /\ req[r] \in Working /\ OnBatch(r, req[r].batch) /\ ~at(r, "skip")
             /\ req[r].batch \in Batches /\ req[r].todo # {} => Min(req[r].todo) \in RowsOf(req[r].batch)
  BY <1>1, AtWork DEF OnBatch, at
<1>2. ASSUME NEW r \in Requests, req[r].phase \in BatchPhases \ {"skip"}, NEW s, become(r, s),
             s.phase \in BatchPhases => s.batch = req[r].batch,
             UNCHANGED batch \/ \E st \in BatchStatus \ {"CANCELLED"} :
               /\ batch'[req[r].batch].status = st
               /\ \A c \in Batches \ {req[r].batch} : batch'[c] = batch[c],
             \/ UNCHANGED row
             \/ /\ req[r].todo # {}
                /\ \E st \in RowStatus : row' = [row EXCEPT ![req[r].batch][Min(req[r].todo)] = st]
      PROVE  Goal
  <2>1. \A b \in Serial : batch'[b] = batch[b] \/ (OnBatch(r, b) /\ ~at(r, "skip") /\ batch'[b].status # "CANCELLED")
    BY <1>1, <1>2, ImportAssumption
  <2>2. ASSUME NEW b \in Serial, NEW k \in RowsOf(b), row'[b][k] = "IMPORTED"
        PROVE  row[b][k] = "IMPORTED" \/ (OnBatch(r, b) /\ ~at(r, "skip"))
    <3>1. CASE UNCHANGED row
      BY <2>2, <3>1
    <3>2. CASE b = req[r].batch
      BY <1>1, <1>2, <3>2
    <3>3. CASE ~UNCHANGED row /\ b # req[r].batch
      <4>1. PICK st \in RowStatus : row' = [row EXCEPT ![req[r].batch][Min(req[r].todo)] = st]
        BY <1>2, <3>3
      <4>2. row'[b] = row[b]
        BY <3>3, <4>1, ImportAssumption DEF ImportType, RowTyped
      <4> QED
        BY <2>2, <4>2
    <3> QED
      BY <3>1, <3>2, <3>3
  <2> QED
    BY <1>2, <2>1, <2>2, SerialGoesOn
\* A new batch.
<1>3. ASSUME NEW r \in Requests, NEW b \in Batches, NEW e, NEW a, createBatch(r, b, e, a), UNCHANGED row,
             req[r].phase \notin BatchPhases
      PROVE  Goal
  <2>1. PICK s : s = working("parse", b, e, a, RowsOf(b))
    OBVIOUS
  <2>2. s.phase = "parse" /\ s.phase \in BatchPhases /\ s.batch = b /\ become(r, s)
    BY <1>3, <2>1 DEF createBatch, working, BatchPhases
  <2>3. \A q \in Requests : ~OnBatch(q, b)
    BY <1>3, AtWork DEF OnBatch, createBatch, Batch, Absent
  <2>4. /\ batch'[b].status = "PROCESSING" /\ \A c \in Batches \ {b} : batch'[c] = batch[c]
        /\ batch[b].status # "CANCELLED"
    BY <1>3 DEF createBatch, ImportType, Absent
  <2> QED
    BY <1>3, <2>2, <2>3, <2>4, SerialTakesUp
<1> HIDE DEF Goal
<1>4. ASSUME NEW r \in Requests, NEW b \in Batches, upload(r, b) PROVE Goal
  BY <1>0, <1>3, <1>4 DEF upload
<1>5. ASSUME NEW r \in Requests, applyAsBatch(r) PROVE Goal
  BY <1>0, <1>3, <1>5 DEF applyAsBatch
<1>6. ASSUME NEW r \in Requests, NEW b \in Batches, free(b), req[r] = Idle,
             NEW s, become(r, s), s.phase \in BatchPhases, s.batch = b, UNCHANGED row,
             batch'[b].status = "CANCELLED" => s.phase = "skip",
             batch[b].status = "CANCELLED" => batch'[b].status = "CANCELLED",
             \A c \in Batches \ {b} : batch'[c] = batch[c]
      PROVE  Goal
  BY <1>0, <1>6, SerialTakesUp DEF free, Goal
<1>7. ASSUME NEW r \in Requests, NEW b \in Batches, processValidRows(r, b) PROVE Goal
  <2>1. PICK s : s = working("row", b, NoEvent, 0, SelectRows(b, {"VALID"}))
    OBVIOUS
  <2>2. s.phase = "row" /\ s.phase \in BatchPhases /\ s.batch = b /\ become(r, s)
    BY <1>7, <2>1 DEF processValidRows, working, BatchPhases
  <2> QED
    BY <1>6, <1>7, <2>2 DEF processValidRows
<1>8. ASSUME NEW r \in Requests, NEW b \in Batches, cancelBatch(r, b) PROVE Goal
  <2>1. PICK s : s = working("skip", b, NoEvent, 0, {})
    OBVIOUS
  <2>2. s.phase = "skip" /\ s.phase \in BatchPhases /\ s.batch = b /\ become(r, s)
    BY <1>8, <2>1 DEF cancelBatch, working, BatchPhases
  <2>3. batch'[b].status = "CANCELLED" /\ \A c \in Batches \ {b} : batch'[c] = batch[c]
    BY <1>8 DEF cancelBatch, ImportType, Batch, Absent
  <2> QED
    BY <1>6, <1>8, <2>2, <2>3 DEF cancelBatch
<1>9. ASSUME NEW r \in Requests, parseRow(r) PROVE Goal
  <2>1. req[r].phase \in BatchPhases \ {"skip"} /\ req[r].todo # {}
    BY <1>9 DEF parseRow, at, BatchPhases
  <2>2. PICK T, n : become(r, [req[r] EXCEPT !.todo = T, !.failed = n])
    BY <1>9 DEF parseRow
  <2>3. PICK s : s = [req[r] EXCEPT !.todo = T, !.failed = n]
    OBVIOUS
  <2>4. s.batch = req[r].batch
    BY <1>1, <2>1, <2>3 DEF Working
  <2>5. \E st \in RowStatus : row' = [row EXCEPT ![req[r].batch][Min(req[r].todo)] = st]
    BY <1>9, Validated DEF parseRow, RowStatus
  <2> QED
    BY <1>2, <1>9, <2>1, <2>2, <2>3, <2>4, <2>5 DEF parseRow
<1>10. ASSUME NEW r \in Requests, parsed(r) \/ processed(r) PROVE Goal
  <2>1. req[r].phase \in BatchPhases \ {"skip"}
    BY <1>10 DEF parsed, processed, at, BatchPhases
  <2>2. PICK s : become(r, s) /\ s.phase \notin BatchPhases
    BY <1>10 DEF parsed, processed, Idle, BatchPhases
  <2>3. outcome(req[r].failed) \in BatchStatus \ {"CANCELLED"}
    BY DEF outcome, BatchStatus
  <2>4. batch[req[r].batch] \in Batch /\ req[r].batch \in Batches
    BY <2>1, AtWork
  <2>5. /\ batch'[req[r].batch].status = outcome(req[r].failed)
        /\ \A c \in Batches \ {req[r].batch} : batch'[c] = batch[c]
        /\ UNCHANGED row
    BY <1>10, <2>4 DEF parsed, processed, ImportType, Batch
  <2> QED
    BY <1>2, <2>1, <2>2, <2>3, <2>5
<1>11. ASSUME NEW r \in Requests, validateAgain(r) \/ createInvoice(r) PROVE Goal
  <2>1. req[r].phase \in BatchPhases \ {"skip"} /\ req[r].todo # {}
    BY <1>11, AtWork DEF validateAgain, createInvoice, at, BatchPhases
  <2>2. PICK s \in {[req[r] EXCEPT !.phase = "create"], [req[r] EXCEPT !.phase = "mark"], failedRow(req[r])} :
          become(r, s)
    BY <1>11 DEF validateAgain, createInvoice
  <2>3. s.batch = req[r].batch
    <3>1. req[r] \in Working
      BY <1>1, <2>1
    <3>2. CASE s = failedRow(req[r])
      BY <3>1, <3>2, NextRow
    <3>3. CASE s = [req[r] EXCEPT !.phase = "create"] \/ s = [req[r] EXCEPT !.phase = "mark"]
      BY <3>1, <3>3 DEF Working
    <3> QED
      BY <2>2, <3>2, <3>3
  <2>4. UNCHANGED row \/ \E st \in RowStatus : row' = [row EXCEPT ![req[r].batch][Min(req[r].todo)] = st]
    BY <1>11, Validated DEF validateAgain, createInvoice, RowStatus
  <2> QED
    BY <1>2, <1>11, <2>1, <2>2, <2>3, <2>4 DEF validateAgain, createInvoice
<1>12. ASSUME NEW r \in Requests, markImported(r) \/ auditFails(r) PROVE Goal
  <2>1. req[r].phase \in BatchPhases \ {"skip"} /\ req[r].todo # {}
    BY <1>12, AtWork DEF markImported, auditFails, at, BatchPhases
  <2>2. PICK s \in {[nextRow(req[r]) EXCEPT !.imported = @ + 1], [failedRow(req[r]) EXCEPT !.imported = @ + 1]} :
          become(r, s)
    BY <1>12 DEF markImported, auditFails
  <2>3. s.batch = req[r].batch
    BY <1>1, <2>1, <2>2, NextRow
  <2>4. \E st \in RowStatus : row' = [row EXCEPT ![req[r].batch][Min(req[r].todo)] = st]
    BY <1>12 DEF markImported, auditFails, RowStatus
  <2> QED
    BY <1>2, <1>12, <2>1, <2>2, <2>3, <2>4 DEF markImported, auditFails
<1>13. ASSUME NEW r \in Requests, skipRows(r) PROVE Goal
  <2>1. req[r].batch \in Batches
    BY <1>13, AtWork DEF skipRows, at, BatchPhases
  <2>2. \A c \in Batches : \A j \in RowsOf(c) : row'[c][j] = "IMPORTED" => row[c][j] = "IMPORTED"
    BY <1>13, <2>1 DEF skipRows, ImportType, RowTyped
  <2>3. become(r, Idle) /\ UNCHANGED batch /\ Idle.phase \notin BatchPhases
    BY <1>13 DEF skipRows, Idle, BatchPhases
  <2> QED
    BY <2>2, <2>3, SerialGoesOn, ImportAssumption DEF Goal
<1>14. ASSUME UNCHANGED <<batch, row>>,
              UNCHANGED req \/ \E r \in Requests : \E s : become(r, s) /\ s.phase \notin BatchPhases
       PROVE  Goal
  BY <1>14, SerialElsewhere DEF Goal
<1>15. ASSUME NEW r \in Requests,
              \/ storeEvent(r) \/ replay(r) \/ applyToInvoice(r) \/ record(r) \/ writeInvoice(r) \/ crash(r)
              \/ \E e \in Events : \/ \E signed \in BOOLEAN : processProviderWebhook(r, e, signed)
                                   \/ retryProviderWebhookEvent(r, e)
              \/ \E op \in InvoiceOps, i \in Invoices : readInvoice(r, op, i)
       PROVE  Goal
  <2>1. UNCHANGED <<batch, row>>
    BY <1>15 DEF storeEvent, replay, applyToInvoice, record, writeInvoice, crash,
       processProviderWebhook, retryProviderWebhookEvent, readInvoice
  <2>2. CASE storeEvent(r) \/ writeInvoice(r) \/ crash(r) \/ record(r) \/ replay(r)
    BY <1>14, <2>1, <2>2 DEF storeEvent, writeInvoice, crash, record, replay, Idle, BatchPhases
  <2>3. CASE applyToInvoice(r)
    BY <1>14, <2>1, <2>3 DEF applyToInvoice, recording, BatchPhases
  <2>4. CASE \E e \in Events : \/ \E signed \in BOOLEAN : processProviderWebhook(r, e, signed)
                               \/ retryProviderWebhookEvent(r, e)
    <3>1. PICK e \in Events : \/ \E signed \in BOOLEAN : processProviderWebhook(r, e, signed)
                             \/ retryProviderWebhookEvent(r, e)
      BY <2>4
    <3>2. CASE retryProviderWebhookEvent(r, e)
      BY <1>14, <2>1, <3>2 DEF retryProviderWebhookEvent, BatchPhases
    <3>3. ASSUME NEW signed \in BOOLEAN, processProviderWebhook(r, e, signed) PROVE Goal
      BY <1>14, <2>1, <3>3 DEF processProviderWebhook, BatchPhases
    <3> QED
      BY <3>1, <3>2, <3>3
  <2>5. CASE \E op \in InvoiceOps, i \in Invoices : readInvoice(r, op, i)
    BY <1>14, <2>1, <2>5 DEF readInvoice, BatchPhases
  <2> QED
    BY <1>15, <2>2, <2>3, <2>4, <2>5
<1>16. CASE \/ \E i \in Invoices : finance(i)
            \/ \E s \in Suppliers : addParticipant(s)
            \/ UNCHANGED vars
  BY <1>14, <1>16 DEF finance, addParticipant, vars
<1>17. ASSUME NEW r \in Requests, NEW i \in Invoices, NEW p \in Patches, readPatched(r, i, p) PROVE Goal
  BY <1>14, <1>17 DEF readPatched, BatchPhases
<1>18. ASSUME NEW r \in Requests, update(r) PROVE Goal
  BY <1>18, SerialUpdated DEF Goal
<1> QED
  BY <1>4, <1>5, <1>7, <1>8, <1>9, <1>10, <1>11, <1>12, <1>13, <1>15, <1>16, <1>17, <1>18 DEF Next, Proceed

\* cancelBatch: once a batch is cancelled it stays so and imports nothing more,
\* if its requests do not overlap.
THEOREM CancelledStaysCancelled == Spec => CancelledImportsNothing
<1>1. CancelledStays <=> (\A b \in Serial : batch[b] # Absent /\ batch[b].status = "CANCELLED" =>
         /\ batch'[b].status = "CANCELLED"
         /\ \A k \in RowsOf(b) : row'[b][k] = "IMPORTED" => row[b][k] = "IMPORTED")
  BY DEF CancelledStays
<1> QED
  BY <1>1, InitType, StepType, SerialInit, SerialStep, PTL DEF Spec, CancelledImportsNothing
-----------------------------------------------------------------------------
(* Rows and invoices of serial batches *)

\* A request that turns the rows of a serial batch into invoices.
Processing(s) == s.phase \in {"row", "create", "mark"} /\ s.batch \in Serial

ImportedRows(b) == {k \in RowsOf(b) : row[b][k] = "IMPORTED"}

\* One at a time, and the rows it has left are still valid; of a batch that is
\* not there, or still parsed, no row is imported.
WorkInv ==
  /\ \A r, q \in Requests : Processing(req[r]) /\ Processing(req[q]) => r = q
  /\ \A r \in Requests : Processing(req[r]) =>
       \A k \in req[r].todo : row[req[r].batch][k] = "VALID"
  /\ \A r \in Requests : at(r, "parse") /\ req[r].batch \in Serial =>
       \A k \in RowsOf(req[r].batch) : row[req[r].batch][k] # "IMPORTED"
  /\ \A b \in Batches : batch[b] = Absent => \A k \in RowsOf(b) : row[b][k] # "IMPORTED"

\* What a batch claims, or a request is about to claim for it, is imported.
ClaimsInv ==
  "auditFailure" \notin scope =>
    /\ \A b \in Serial : batch[b] # Absent => batch[b].importedRows <= Cardinality(ImportedRows(b))
    /\ \A r \in Requests : Processing(req[r]) => req[r].imported <= Cardinality(ImportedRows(req[r].batch))

bears(stored, l) == stored.reference = l.reference /\ stored.terms = l.terms

\* Unless a PATCH amends it, the invoice of an imported row keeps its reference
\* and terms, so a request that has validated a row has found none like it, and
\* none was imported since.
LikeInv == "amend" \notin scope =>
  /\ \A b \in Batches : \A k \in RowsOf(b) : row[b][k] = "IMPORTED" =>
       bears(invoice[Lines[b][k].invoice], Lines[b][k])
  /\ \A r \in Requests : at(r, "mark") =>
       bears(invoice[Claim(req[r])], Lines[req[r].batch][Min(req[r].todo)])
  /\ \A b, c \in Serial : \A k \in RowsOf(b), j \in RowsOf(c) :
       row[b][k] = "IMPORTED" /\ row[c][j] = "IMPORTED" /\ sameInvoice(Lines[b][k], Lines[c][j])
       => b = c /\ k = j
  /\ \A r \in Requests : Processing(req[r]) /\ ~at(r, "row") =>
       \A c \in Serial : \A j \in RowsOf(c) : row[c][j] = "IMPORTED" =>
         ~sameInvoice(Lines[req[r].batch][Min(req[r].todo)], Lines[c][j])

\* An invoice of a batch has its row, or a request that is about to mark it.
HasRowInv ==
  {"crash", "auditFailure", "amend"} \cap scope = {} =>
    \A b \in Serial : \A i \in Invoices : invoice[i] # Absent /\ invoice[i].batch = b =>
      \/ \E k \in RowsOf(b) : row[b][k] = "IMPORTED" /\ Lines[b][k].invoice = i
      \/ \E r \in Requests : at(r, "mark") /\ req[r].batch = b /\ Claim(req[r]) = i

AgreeInv == WorkInv /\ ClaimsInv /\ LikeInv /\ HasRowInv

\* The imported rows of a serial batch can be counted.
LEMMA SerialRows ==
  ASSUME NEW b \in Serial
  PROVE  /\ b \in Batches /\ IsFiniteSet(ImportedRows(b)) /\ Cardinality(ImportedRows(b)) \in Nat
<1>1. b \in Batches
  BY ImportAssumption
<1>2. IsFiniteSet(ImportedRows(b))
  BY <1>1, Rows, FS_Subset DEF ImportedRows
<1> QED
  BY <1>1, <1>2, FS_CardinalityType

LEMMA AgreeImplies == ImportType /\ Owned /\ AgreeInv => RowsAndInvoicesAgree
<1> SUFFICES ASSUME ImportType, Owned, AgreeInv PROVE RowsAndInvoicesAgree
  OBVIOUS
<1>1. NoHiddenDuplicate
  <2>1. ASSUME NEW x \in Imported, NEW y \in Imported, "amend" \notin scope, x # y, x[1] \in Serial, y[1] \in Serial
        PROVE  ~sameInvoice(lineOf(x), lineOf(y))
    <3>1. PICK b \in Batches, k \in RowsOf(x[1]) : x = <<b, k>> /\ row[b][k] = "IMPORTED"
      BY DEF Imported
    <3>2. PICK c \in Batches, j \in RowsOf(y[1]) : y = <<c, j>> /\ row[c][j] = "IMPORTED"
      BY DEF Imported
    <3> QED
      BY <2>1, <3>1, <3>2 DEF AgreeInv, LikeInv, lineOf
  <2> QED
    BY <2>1 DEF NoHiddenDuplicate
<1>2. NeverOverclaims
  BY DEF AgreeInv, ClaimsInv, ImportedRows, NeverOverclaims
<1>3. InvoiceHasItsRow
  <2> SUFFICES ASSUME {"crash", "auditFailure", "amend"} \cap scope = {}, NEW b \in Serial,
                      \A r \in Requests : ~OnBatch(r, b),
                      NEW i \in Invoices, invoice[i] # Absent, invoice[i].batch = b
               PROVE  \E x \in Imported : x[1] = b /\ lineOf(x).invoice = i
    BY DEF InvoiceHasItsRow
  <2>1. \A r \in Requests : ~(at(r, "mark") /\ req[r].batch = b)
    BY DEF OnBatch, at, BatchPhases
  <2>2. PICK k \in RowsOf(b) : row[b][k] = "IMPORTED" /\ Lines[b][k].invoice = i
    BY <2>1 DEF AgreeInv, HasRowInv
  <2>3. <<b, k>> \in Imported
    BY <2>2, SerialRows DEF Imported
  <2> QED
    BY <2>2, <2>3 DEF lineOf
<1> QED
  BY <1>1, <1>2, <1>3, TypeImplies, OwnImplies DEF RowsAndInvoicesAgree

LEMMA AgreeInit == Init => AgreeInv
<1> SUFFICES ASSUME Init PROVE AgreeInv
  OBVIOUS
<1>1. \A b \in Batches : \A k \in RowsOf(b) : row[b][k] # "IMPORTED"
  BY DEF Init
<1>2. \A r \in Requests : ~Processing(req[r]) /\ ~at(r, "mark") /\ ~at(r, "parse")
  BY DEF Init, Processing, at, Idle
<1>3. batch = [b \in Batches |-> Absent] /\ invoice = [i \in Invoices |-> Absent] /\ Serial \subseteq Batches
  BY ImportAssumption DEF Init
<1> QED
  BY <1>1, <1>2, <1>3 DEF AgreeInv, WorkInv, ClaimsInv, LikeInv, HasRowInv
-----------------------------------------------------------------------------
\* A step of r that imports nothing: it may write rows of its batch that are
\* not imported, create the invoice it is about to mark, and close its batch.
Moves(r) ==
  /\ UNCHANGED scope /\ \A q \in Requests \ {r} : req'[q] = req[q]
  /\ \A b \in Batches : \A k \in RowsOf(b) :
       \/ row'[b][k] = row[b][k]
       \/ /\ row'[b][k] # "IMPORTED"
          /\ b \in Serial => row[b][k] # "IMPORTED" /\ r \in Requests /\ OnBatch(r, b)
  /\ \A i \in Invoices : invoice[i] # Absent =>
       /\ invoice'[i] # Absent /\ invoice'[i].batch = invoice[i].batch
       /\ invoice'[i].reference = invoice[i].reference
       /\ invoice'[i].terms = invoice[i].terms
  /\ \A i \in Invoices : \A b \in Serial :
       invoice[i] = Absent /\ invoice'[i] # Absent /\ invoice'[i].batch = b =>
         r \in Requests /\ req'[r].phase = "mark" /\ req'[r].batch = b /\ Claim(req'[r]) = i
  /\ \A b \in Batches : batch'[b] = Absent => batch[b] = Absent
  /\ \A b \in Serial : "auditFailure" \notin scope /\ batch'[b] # Absent =>
       \/ batch[b] # Absent /\ batch'[b].importedRows = batch[b].importedRows
       \/ batch'[b].importedRows = 0
       \/ /\ r \in Requests /\ Processing(req[r]) /\ req[r].batch = b
          /\ batch'[b].importedRows = req[r].imported
  /\ r \in Requests =>
       /\ Processing(req'[r]) =>
            /\ \A k \in req'[r].todo : row'[req'[r].batch][k] = "VALID"
            /\ \/ /\ Processing(req[r]) /\ req'[r].batch = req[r].batch
                  /\ "auditFailure" \notin scope => req'[r].imported = req[r].imported
               \/ (\A q \in Requests : ~Processing(req[q])) /\ req'[r].imported = 0
            /\ req'[r].phase # "row" /\ "amend" \notin scope =>
                 \A c \in Serial : \A j \in RowsOf(c) : row[c][j] = "IMPORTED" =>
                   ~sameInvoice(Lines[req'[r].batch][Min(req'[r].todo)], Lines[c][j])
       /\ req'[r].phase = "parse" /\ req'[r].batch \in Serial =>
            \A k \in RowsOf(req'[r].batch) : row[req'[r].batch][k] # "IMPORTED"
       /\ req'[r].phase = "mark" => req'[r] = req[r] \/
            (/\ Claim(req'[r]) \in Invoices
             /\ bears(invoice'[Claim(req'[r])], Lines[req'[r].batch][Min(req'[r].todo)]))
       /\ at(r, "mark") => req'[r] = req[r] \/ {"crash", "auditFailure"} \cap scope # {}

LEMMA AgreeMoves ==
  ASSUME ImportType, SerialInv, Owned, AgreeInv, NEW r, Moves(r)
  PROVE  AgreeInv'
<1>1. \A b \in Batches : \A k \in RowsOf(b) : row'[b][k] = "IMPORTED" => row[b][k] = "IMPORTED"
  BY DEF Moves
<1>2. \A b \in Serial : \A k \in RowsOf(b) : row[b][k] = "IMPORTED" => row'[b][k] = "IMPORTED"
  BY SerialRows DEF Moves
<1>3. \A q \in Requests : q # r => req'[q] = req[q]
  BY DEF Moves
<1>4. ASSUME NEW p \in Requests, p # r, NEW b \in Serial, OnBatch(p, b), NEW k \in RowsOf(b)
      PROVE  row'[b][k] = row[b][k]
  BY <1>4, SerialRows DEF Moves, SerialInv
<1>5. \A p \in Requests : Processing(req[p]) => OnBatch(p, req[p].batch) /\ req[p].batch \in Serial
  BY DEF Processing, OnBatch, BatchPhases
<1>6. WorkInv'
  <2>1. \A p, q \in Requests : Processing(req'[p]) /\ Processing(req'[q]) => p = q
    BY <1>3 DEF Moves, AgreeInv, WorkInv
  <2>2. ASSUME NEW p \in Requests, Processing(req'[p]), NEW k \in req'[p].todo
        PROVE  row'[req'[p].batch][k] = "VALID"
    <3>1. CASE p = r
      BY <2>2, <3>1 DEF Moves
    <3>2. CASE p # r
      <4>1. req'[p] = req[p] /\ req[p].phase \in BatchPhases
        BY <1>3, <2>2, <3>2 DEF Processing, BatchPhases
      <4>2. k \in RowsOf(req[p].batch) /\ row[req[p].batch][k] = "VALID"
        BY <2>2, <4>1, AtWork DEF AgreeInv, WorkInv
      <4> QED
        BY <1>4, <1>5, <2>2, <3>2, <4>1, <4>2
    <3> QED
      BY <3>1, <3>2
  <2>3. ASSUME NEW p \in Requests, req'[p].phase = "parse", req'[p].batch \in Serial,
               NEW k \in RowsOf(req'[p].batch)
        PROVE  row'[req'[p].batch][k] # "IMPORTED"
    <3>1. row[req'[p].batch][k] # "IMPORTED"
      BY <1>3, <2>3 DEF Moves, AgreeInv, WorkInv, at
    <3> QED
      BY <1>1, <2>3, <3>1, SerialRows
  <2>4. \A b \in Batches : batch'[b] = Absent => \A k \in RowsOf(b) : row'[b][k] # "IMPORTED"
    BY <1>1 DEF Moves, AgreeInv, WorkInv
  <2>5. \A p \in Requests : Processing(req[p])' = Processing(req'[p]) /\ at(p, "parse")' = (req'[p].phase = "parse")
    BY DEF Processing, at
  <2> QED
    BY <2>1, <2>2, <2>3, <2>4, <2>5 DEF WorkInv
<1>7. ClaimsInv'
  <2> SUFFICES ASSUME "auditFailure" \notin scope
               PROVE  /\ \A b \in Serial : batch'[b] # Absent => batch'[b].importedRows <= Cardinality(ImportedRows(b)')
                      /\ \A p \in Requests : Processing(req'[p]) =>
                           req'[p].imported <= Cardinality(ImportedRows(req[p].batch)')
    BY DEF ClaimsInv, Moves, Processing
  <2>1. \A b \in Serial : ImportedRows(b)' = ImportedRows(b)
    BY <1>1, <1>2, SerialRows DEF ImportedRows
  <2>2. \A b \in Serial : batch[b] # Absent => batch[b].importedRows <= Cardinality(ImportedRows(b))
    BY DEF AgreeInv, ClaimsInv
  <2>3. \A p \in Requests : Processing(req[p]) => req[p].imported <= Cardinality(ImportedRows(req[p].batch))
    BY DEF AgreeInv, ClaimsInv
  <2>4. ASSUME NEW b \in Serial, batch'[b] # Absent
        PROVE  batch'[b].importedRows <= Cardinality(ImportedRows(b)')
    BY <2>1, <2>2, <2>3, <2>4, SerialRows DEF Moves
  <2>5. ASSUME NEW p \in Requests, Processing(req'[p])
        PROVE  req'[p].imported <= Cardinality(ImportedRows(req[p].batch)')
    <3>1. req'[p].batch \in Serial
      BY <2>5 DEF Processing
    <3>3. PICK b \in Serial : b = req'[p].batch
      BY <3>1
    <3>4. ImportedRows(req[p].batch)' = ImportedRows(b)
      BY <2>1, <3>3 DEF ImportedRows
    <3>5. CASE p # r
      BY <1>3, <2>3, <2>5, <3>3, <3>4, <3>5
    <3>6. CASE p = r
      <4>1. \/ Processing(req[r]) /\ req[r].batch = b /\ req'[r].imported = req[r].imported
            \/ req'[r].imported = 0
        BY <2>5, <3>3, <3>6 DEF Moves
      <4> QED
        BY <2>3, <3>4, <3>6, <4>1, SerialRows
    <3> QED
      BY <3>5, <3>6
  <2> QED
    BY <2>4, <2>5
<1>8. LikeInv'
  <2> SUFFICES ASSUME "amend" \notin scope PROVE LikeInv'
    BY DEF LikeInv, Moves
  <2>1. \A b \in Batches : \A k \in RowsOf(b) : row'[b][k] = "IMPORTED" =>
         bears(invoice'[Lines[b][k].invoice], Lines[b][k])
    <3>1. \A b \in Batches : \A k \in RowsOf(b) : Lines[b][k].invoice \in Invoices
      BY Rows DEF Line
    <3> QED
      BY <1>1, <3>1 DEF Moves, AgreeInv, LikeInv, Owned, OwnInv, bears
  <2>2. ASSUME NEW p \in Requests, req'[p].phase = "mark"
        PROVE  bears(invoice'[Claim(req'[p])], Lines[req'[p].batch][Min(req'[p].todo)])
    <3>1. CASE req'[p] = req[p]
      <4>1. at(p, "mark")
        BY <2>2, <3>1 DEF at
      <4>2. Claim(req[p]) \in Invoices /\ invoice[Claim(req[p])] # Absent
        BY <4>1, ClaimIsInvoice DEF Owned, OwnInv
      <4>3. bears(invoice[Claim(req[p])], Lines[req[p].batch][Min(req[p].todo)])
        BY <4>1 DEF AgreeInv, LikeInv
      <4> QED
        BY <3>1, <4>2, <4>3 DEF Moves, bears
    <3>2. CASE req'[p] # req[p]
      BY <1>3, <2>2, <3>2 DEF Moves
    <3> QED
      BY <3>1, <3>2
  <2>3. \A b, c \in Serial : \A k \in RowsOf(b), j \in RowsOf(c) :
          row'[b][k] = "IMPORTED" /\ row'[c][j] = "IMPORTED" /\ sameInvoice(Lines[b][k], Lines[c][j])
          => b = c /\ k = j
    BY <1>1, SerialRows DEF AgreeInv, LikeInv
  <2>4. ASSUME NEW p \in Requests, Processing(req'[p]), req'[p].phase # "row",
               NEW c \in Serial, NEW j \in RowsOf(c), row'[c][j] = "IMPORTED"
        PROVE  ~sameInvoice(Lines[req'[p].batch][Min(req'[p].todo)], Lines[c][j])
    <3>1. row[c][j] = "IMPORTED"
      BY <1>1, <2>4, SerialRows
    <3>2. CASE p = r
      BY <2>4, <3>1, <3>2 DEF Moves
    <3>3. CASE p # r
      BY <1>3, <2>4, <3>1, <3>3 DEF AgreeInv, LikeInv, at
    <3> QED
      BY <3>2, <3>3
  <2>5. \A p \in Requests : /\ Processing(req[p])' = Processing(req'[p]) /\ at(p, "row")' = (req'[p].phase = "row")
                            /\ at(p, "mark")' = (req'[p].phase = "mark") /\ Claim(req[p])' = Claim(req'[p])
    BY DEF Processing, at, Claim
  <2> QED
    BY <2>1, <2>2, <2>3, <2>4, <2>5 DEF LikeInv, sameInvoice, bears
<1>9. HasRowInv'
  <2> SUFFICES ASSUME {"crash", "auditFailure", "amend"} \cap scope = {}, NEW b \in Serial, NEW i \in Invoices,
                      invoice'[i] # Absent, invoice'[i].batch = b
               PROVE  \/ \E k \in RowsOf(b) : row'[b][k] = "IMPORTED" /\ Lines[b][k].invoice = i
                      \/ \E p \in Requests : req'[p].phase = "mark" /\ req'[p].batch = b /\ Claim(req'[p]) = i
    BY DEF HasRowInv, Moves, at, Claim
  <2>1. CASE invoice[i] = Absent
    BY <2>1 DEF Moves
  <2>2. CASE invoice[i] # Absent
    <3>1. \/ \E k \in RowsOf(b) : row[b][k] = "IMPORTED" /\ Lines[b][k].invoice = i
          \/ \E p \in Requests : at(p, "mark") /\ req[p].batch = b /\ Claim(req[p]) = i
      BY <2>2 DEF Moves, AgreeInv, HasRowInv
    <3>2. CASE \E k \in RowsOf(b) : row[b][k] = "IMPORTED" /\ Lines[b][k].invoice = i
      BY <1>2, <3>2
    <3>3. CASE \E p \in Requests : at(p, "mark") /\ req[p].batch = b /\ Claim(req[p]) = i
      <4>1. PICK p \in Requests : at(p, "mark") /\ req[p].batch = b /\ Claim(req[p]) = i
        BY <3>3
      <4>2. req'[p] = req[p]
        BY <1>3, <4>1 DEF Moves
      <4> QED
        BY <4>1, <4>2 DEF at
    <3> QED
      BY <3>1, <3>2, <3>3
  <2> QED
    BY <2>1, <2>2
<1> QED
  BY <1>6, <1>7, <1>8, <1>9 DEF AgreeInv

\* The counts a request carries on.
LEMMA NextCount ==
  ASSUME NEW s \in Working
  PROVE  /\ failedRow(s).imported = s.imported
         /\ [nextRow(s) EXCEPT !.imported = @ + 1].imported = s.imported + 1
<1> DEFINE m == Min(s.todo)
<1> HIDE DEF m
<1>1. [s EXCEPT !.phase = "row", !.todo = @ \ {m}] \in Working
      /\ [s EXCEPT !.phase = "row", !.todo = @ \ {m}].imported = s.imported
  BY DEF Working, BatchPhases
<1>2. nextRow(s) = [s EXCEPT !.phase = "row", !.todo = @ \ {m}]
  BY DEF nextRow, m
<1>3. nextRow(s) \in Working /\ nextRow(s).imported = s.imported
  BY <1>1, <1>2
<1> QED
  BY <1>3 DEF failedRow, Working

\* A request marks the row whose invoice it has created.
LEMMA AgreeMarks ==
  ASSUME ImportType, SerialInv, Owned, AgreeInv, NEW r \in Requests, markImported(r)
  PROVE  AgreeInv'
<1>0. at(r, "mark") /\ req[r].phase \in BatchPhases /\ req[r].todo # {}
  BY AtWork DEF markImported, at, BatchPhases
<1>1. PICK s : s = [nextRow(req[r]) EXCEPT !.imported = @ + 1]
  OBVIOUS
<1>2. PICK b \in Batches, k \in Nat : b = req[r].batch /\ k = Min(req[r].todo)
  BY <1>0, AtWork
<1>3. k \in RowsOf(b) /\ k \in req[r].todo /\ batch[b] \in Batch /\ req[r] \in Working
  BY <1>0, <1>2, AtWork
<1>4. s.phase = "row" /\ s.batch = b /\ s.todo = req[r].todo \ {k} /\ s.imported = req[r].imported + 1
  BY <1>1, <1>2, <1>3, NextRow, NextCount
<1>5. row' = [row EXCEPT ![b][k] = "IMPORTED"] /\ become(r, s) /\ UNCHANGED <<invoice, batch, scope>>
  BY <1>1, <1>2 DEF markImported
<1>6. req'[r] = s /\ \A q \in Requests : q # r => req'[q] = req[q]
  BY <1>5 DEF become, ImportType
<1>7. /\ row'[b][k] = "IMPORTED"
      /\ \A c \in Batches : \A j \in RowsOf(c) : c # b \/ j # k => row'[c][j] = row[c][j]
  BY <1>3, <1>5, RowWritten DEF ImportType, RowStatus
<1>8. b \in Serial => Processing(req[r]) /\ row[b][k] = "VALID" /\ OnBatch(r, b)
  BY <1>0, <1>2, <1>3 DEF Processing, AgreeInv, WorkInv, OnBatch, at
<1>9. \A p \in Requests : /\ Processing(req[p])' = Processing(req'[p]) /\ at(p, "row")' = (req'[p].phase = "row")
                          /\ at(p, "parse")' = (req'[p].phase = "parse")
                          /\ at(p, "mark")' = (req'[p].phase = "mark") /\ Claim(req[p])' = Claim(req'[p])
  BY DEF Processing, at, Claim
\* Of a serial batch nobody else is processing, or parsing this one.
<1>10. ASSUME NEW p \in Requests, p # r, Processing(req'[p]) PROVE Processing(req[p]) /\ req[p].batch # b /\ b \notin Serial
  BY <1>6, <1>8, <1>10 DEF AgreeInv, WorkInv, Processing
<1>11. Processing(req'[r]) => Processing(req[r])
  BY <1>2, <1>4, <1>6, <1>8 DEF Processing
<1>12. WorkInv'
  <2>1. \A p, q \in Requests : Processing(req'[p]) /\ Processing(req'[q]) => p = q
    BY <1>6, <1>11 DEF AgreeInv, WorkInv
  <2>2. ASSUME NEW p \in Requests, Processing(req'[p]), NEW j \in req'[p].todo
        PROVE  row'[req'[p].batch][j] = "VALID"
    <3>1. CASE p = r
      <4>1. j \in req[r].todo /\ j # k /\ j \in RowsOf(b) /\ row[b][j] = "VALID"
        BY <1>0, <1>2, <1>4, <1>6, <1>11, <2>2, <3>1, AtWork DEF AgreeInv, WorkInv
      <4> QED
        BY <1>4, <1>6, <1>7, <3>1, <4>1
    <3>2. CASE p # r
      <4>1. req'[p] = req[p] /\ Processing(req[p]) /\ req[p].batch # b
        BY <1>6, <1>10, <2>2, <3>2
      <4>2. j \in RowsOf(req[p].batch) /\ req[p].batch \in Batches /\ row[req[p].batch][j] = "VALID"
        BY <2>2, <4>1, AtWork DEF Processing, BatchPhases, AgreeInv, WorkInv
      <4> QED
        BY <1>7, <4>1, <4>2
    <3> QED
      BY <3>1, <3>2
  <2>3. ASSUME NEW p \in Requests, req'[p].phase = "parse", req'[p].batch \in Serial,
               NEW j \in RowsOf(req'[p].batch)
        PROVE  row'[req'[p].batch][j] # "IMPORTED"
    <3>1. p # r /\ req'[p] = req[p]
      BY <1>4, <1>6, <2>3
    <3>2. req[p].batch # b
      BY <1>8, <2>3, <3>1 DEF SerialInv, OnBatch, BatchPhases
    <3>3. row[req[p].batch][j] # "IMPORTED" /\ req[p].batch \in Batches
      BY <2>3, <3>1, SerialRows DEF AgreeInv, WorkInv, at
    <3> QED
      BY <1>7, <2>3, <3>1, <3>2, <3>3
  <2>4. \A c \in Batches : batch'[c] = Absent => \A j \in RowsOf(c) : row'[c][j] # "IMPORTED"
    BY <1>3, <1>5, <1>7 DEF AgreeInv, WorkInv, Batch, Absent
  <2> QED
    BY <1>9, <2>1, <2>2, <2>3, <2>4 DEF WorkInv
<1>13. ClaimsInv'
  <2> SUFFICES ASSUME "auditFailure" \notin scope
               PROVE  /\ \A c \in Serial : batch'[c] # Absent => batch'[c].importedRows <= Cardinality(ImportedRows(c)')
                      /\ \A p \in Requests : Processing(req'[p]) =>
                           req'[p].imported <= Cardinality(ImportedRows(req[p].batch)')
    BY <1>5, <1>9 DEF ClaimsInv
  <2>1. \A c \in Serial : c # b => ImportedRows(c)' = ImportedRows(c)
    BY <1>7, SerialRows DEF ImportedRows
  <2>2. b \in Serial => ImportedRows(b)' = ImportedRows(b) \cup {k} /\ k \notin ImportedRows(b)
    BY <1>3, <1>7, <1>8 DEF ImportedRows
  <2>3. b \in Serial => Cardinality(ImportedRows(b)') = Cardinality(ImportedRows(b)) + 1
    BY <2>2, SerialRows, FS_AddElement
  <2>4. \A c \in Serial : batch[c] # Absent => /\ batch[c].importedRows <= Cardinality(ImportedRows(c))
                                               /\ batch[c].importedRows \in Nat
    BY SerialRows DEF AgreeInv, ClaimsInv, ImportType, Batch
  <2>5. \A p \in Requests : Processing(req[p]) => req[p].imported <= Cardinality(ImportedRows(req[p].batch))
    BY DEF AgreeInv, ClaimsInv
  <2>6. ASSUME NEW c \in Serial, batch'[c] # Absent
        PROVE  batch'[c].importedRows <= Cardinality(ImportedRows(c)')
    <3>1. batch[c] # Absent /\ batch'[c] = batch[c]
      BY <1>5, <2>6
    <3> QED
      BY <2>1, <2>3, <2>4, <3>1, SerialRows
  <2>7. ASSUME NEW p \in Requests, Processing(req'[p])
        PROVE  req'[p].imported <= Cardinality(ImportedRows(req[p].batch)')
    <3>1. PICK c \in Serial : c = req'[p].batch
      BY <2>7 DEF Processing
    <3>2. ImportedRows(req[p].batch)' = ImportedRows(c)'
      BY <3>1 DEF ImportedRows
    <3>3. CASE p = r
      <4>1. c = b /\ req'[r].imported = req[r].imported + 1 /\ Processing(req[r]) /\ req[r].imported \in Nat
        BY <1>3, <1>4, <1>6, <1>11, <2>7, <3>1, <3>3 DEF Working
      <4>2. req[r].imported <= Cardinality(ImportedRows(b))
        BY <1>2, <2>5, <4>1
      <4> QED
        BY <2>3, <3>2, <3>3, <4>1, <4>2, SerialRows
    <3>4. CASE p # r
      <4>1. req'[p] = req[p] /\ Processing(req[p]) /\ c # b /\ c = req[p].batch
        BY <1>6, <1>10, <2>7, <3>1, <3>4
      <4> QED
        BY <2>1, <2>5, <3>2, <4>1
    <3> QED
      BY <3>3, <3>4
  <2> QED
    BY <2>6, <2>7
<1>14. "amend" \notin scope => bears(invoice[Lines[b][k].invoice], Lines[b][k])
  BY <1>0, <1>2 DEF AgreeInv, LikeInv, Claim
<1>15. "amend" \notin scope /\ b \in Serial => \A c \in Serial : \A j \in RowsOf(c) : row[c][j] = "IMPORTED" =>
         ~sameInvoice(Lines[b][k], Lines[c][j]) /\ ~sameInvoice(Lines[c][j], Lines[b][k])
  <2>1. "amend" \notin scope /\ b \in Serial => \A c \in Serial : \A j \in RowsOf(c) : row[c][j] = "IMPORTED" =>
          ~sameInvoice(Lines[b][k], Lines[c][j])
    BY <1>0, <1>2, <1>8 DEF AgreeInv, LikeInv, at
  <2> QED
    BY <2>1 DEF sameInvoice
<1>16. LikeInv'
  <2> SUFFICES ASSUME "amend" \notin scope PROVE LikeInv'
    BY <1>5 DEF LikeInv
  <2>1. \A c \in Batches : \A j \in RowsOf(c) : row'[c][j] = "IMPORTED" =>
         bears(invoice'[Lines[c][j].invoice], Lines[c][j])
    BY <1>5, <1>7, <1>14 DEF AgreeInv, LikeInv
  <2>2. ASSUME NEW p \in Requests, req'[p].phase = "mark"
        PROVE  bears(invoice'[Claim(req'[p])], Lines[req'[p].batch][Min(req'[p].todo)])
    <3>1. req'[p] = req[p] /\ at(p, "mark")
      BY <1>4, <1>6, <2>2 DEF at
    <3> QED
      BY <1>5, <3>1 DEF AgreeInv, LikeInv
  <2>3. \A c, d \in Serial : \A j \in RowsOf(c), l \in RowsOf(d) :
          row'[c][j] = "IMPORTED" /\ row'[d][l] = "IMPORTED" /\ sameInvoice(Lines[c][j], Lines[d][l])
          => c = d /\ j = l
    <3> SUFFICES ASSUME NEW c \in Serial, NEW d \in Serial, NEW j \in RowsOf(c), NEW l \in RowsOf(d),
                        row'[c][j] = "IMPORTED", row'[d][l] = "IMPORTED", sameInvoice(Lines[c][j], Lines[d][l])
                 PROVE  c = d /\ j = l
      OBVIOUS
    <3>1. c \in Batches /\ d \in Batches
      BY SerialRows
    <3>2. CASE c = b /\ j = k
      BY <1>7, <1>15, <3>1, <3>2
    <3>3. CASE d = b /\ l = k
      BY <1>7, <1>15, <3>1, <3>3
    <3>4. CASE (c # b \/ j # k) /\ (d # b \/ l # k)
      BY <1>7, <3>1, <3>4 DEF AgreeInv, LikeInv
    <3> QED
      BY <3>2, <3>3, <3>4
  <2>4. ASSUME NEW p \in Requests, Processing(req'[p]), req'[p].phase # "row",
               NEW c \in Serial, NEW j \in RowsOf(c), row'[c][j] = "IMPORTED"
        PROVE  ~sameInvoice(Lines[req'[p].batch][Min(req'[p].todo)], Lines[c][j])
    <3>1. p # r /\ req'[p] = req[p] /\ Processing(req[p]) /\ c # b
      BY <1>4, <1>6, <1>10, <2>4
    <3>2. row[c][j] = "IMPORTED"
      BY <1>7, <2>4, <3>1, SerialRows
    <3> QED
      BY <2>4, <3>1, <3>2 DEF AgreeInv, LikeInv, at
  <2>5. \A p \in Requests : /\ Processing(req[p])' = Processing(req'[p]) /\ at(p, "row")' = (req'[p].phase = "row")
                            /\ at(p, "mark")' = (req'[p].phase = "mark") /\ Claim(req[p])' = Claim(req'[p])
    BY <1>9
  <2> QED
    BY <2>1, <2>2, <2>3, <2>4, <2>5 DEF LikeInv, sameInvoice, bears
<1>17. HasRowInv'
  <2> SUFFICES ASSUME {"crash", "auditFailure", "amend"} \cap scope = {}, NEW c \in Serial, NEW i \in Invoices,
                      invoice[i] # Absent, invoice[i].batch = c
               PROVE  \/ \E j \in RowsOf(c) : row'[c][j] = "IMPORTED" /\ Lines[c][j].invoice = i
                      \/ \E p \in Requests : req'[p].phase = "mark" /\ req'[p].batch = c /\ Claim(req'[p]) = i
    <3>1. UNCHANGED <<invoice, scope>>
      BY <1>5
    <3> QED
      BY <3>1 DEF HasRowInv, at, Claim
  <2>1. \/ \E j \in RowsOf(c) : row[c][j] = "IMPORTED" /\ Lines[c][j].invoice = i
        \/ \E p \in Requests : at(p, "mark") /\ req[p].batch = c /\ Claim(req[p]) = i
    BY DEF AgreeInv, HasRowInv
  <2>2. CASE \E j \in RowsOf(c) : row[c][j] = "IMPORTED" /\ Lines[c][j].invoice = i
    BY <1>7, <2>2, SerialRows
  <2>3. CASE \E p \in Requests : at(p, "mark") /\ req[p].batch = c /\ Claim(req[p]) = i
    <3>1. PICK p \in Requests : at(p, "mark") /\ req[p].batch = c /\ Claim(req[p]) = i
      BY <2>3
    <3>2. CASE p = r
      BY <1>2, <1>3, <1>7, <3>1, <3>2 DEF Claim
    <3>3. CASE p # r
      BY <1>6, <3>1, <3>3 DEF at
    <3> QED
      BY <3>2, <3>3
  <2> QED
    BY <2>1, <2>2, <2>3
<1> QED
  BY <1>12, <1>13, <1>16, <1>17 DEF AgreeInv

\* A step that leaves batches and rows alone; whoever was about to mark a row
\* crashes.
LEMMA AgreeElsewhere ==
  ASSUME ImportType, SerialInv, Owned, AgreeInv, UNCHANGED <<batch, row, scope>>,
         NEW r, NEW s, UNCHANGED req \/ (r \in Requests /\ become(r, s)),
         UNCHANGED req \/ s.phase \notin BatchPhases,
         UNCHANGED req \/ ~at(r, "mark") \/ "crash" \in scope,
         \A i \in Invoices : invoice[i] = Absent => invoice'[i] = Absent \/ invoice'[i].batch = "manual",
         \A i \in Invoices : invoice[i] # Absent =>
           /\ invoice'[i] # Absent /\ invoice'[i].batch = invoice[i].batch
           /\ invoice'[i].reference = invoice[i].reference
           /\ invoice'[i].terms = invoice[i].terms
  PROVE  AgreeInv'
<1>1. "manual" \notin Serial
  BY ImportAssumption
<1>3. CASE UNCHANGED req
  <2>1. \A q \in Requests : Processing(req'[q]) = Processing(req[q])
    BY <1>3
  <2>2. \A q \in Requests : Processing(req[q]) /\ req[q].phase # "row" /\ "amend" \notin scope =>
          \A c \in Serial : \A j \in RowsOf(c) : row[c][j] = "IMPORTED" =>
            ~sameInvoice(Lines[req[q].batch][Min(req[q].todo)], Lines[c][j])
    BY DEF AgreeInv, LikeInv, at
  <2>3. Moves(r)
    BY <1>1, <1>3, <2>1, <2>2 DEF Moves, AgreeInv, WorkInv, at
  <2> QED
    BY <2>3, AgreeMoves
<1>4. CASE ~UNCHANGED req
  <2>1. req'[r] = s /\ \A q \in Requests \ {r} : req'[q] = req[q]
    BY <1>4 DEF become, ImportType
  <2>2. ~Processing(req'[r]) /\ req'[r].phase # "parse" /\ req'[r].phase # "mark"
    BY <1>4, <2>1 DEF Processing, BatchPhases
  <2>3. at(r, "mark") => {"crash", "auditFailure"} \cap scope # {}
    BY <1>4
  <2>4. Moves(r)
    BY <1>1, <2>1, <2>2, <2>3 DEF Moves
  <2> QED
    BY <2>4, AgreeMoves
<1> QED
  BY <1>3, <1>4

\* What validation lets through is like no row that is imported.
LEMMA ValidIsNew ==
  ASSUME ImportType, Owned, AgreeInv, "amend" \notin scope, NEW l \in Line, validateImportRow(l) = "VALID"
  PROVE  \A c \in Serial : \A j \in RowsOf(c) : row[c][j] = "IMPORTED" => ~sameInvoice(l, Lines[c][j])
<1> SUFFICES ASSUME NEW c \in Serial, NEW j \in RowsOf(c), row[c][j] = "IMPORTED"
             PROVE  ~sameInvoice(l, Lines[c][j])
  OBVIOUS
<1>1. PICK d : d = Lines[c][j].invoice
  OBVIOUS
<1>2. /\ d \in Stored /\ bears(invoice[d], Lines[c][j])
  BY <1>1, SerialRows, Rows DEF Line, Owned, OwnInv, AgreeInv, LikeInv, Stored
<1>3. detectDuplicateInvoice(l) = {}
  BY DEF validateImportRow
<1>4. /\ ~(l.reference # NoReference /\ invoice[d].reference = l.reference)
      /\ ~(<<l.invoice, d>> \in Similar /\ invoice[d].terms = l.terms)
  BY <1>2, <1>3 DEF detectDuplicateInvoice, withReference
<1> QED
  BY <1>1, <1>2, <1>4 DEF sameInvoice, bears

\* A request gives a row up, with its reason.
LEMMA AgreeFails ==
  ASSUME ImportType, SerialInv, Owned, AgreeInv, NEW r \in Requests,
         req[r].phase \in {"row", "create", "mark"}, req[r].todo # {},
         NEW st \in RowStatus \ {"IMPORTED"}, row' = [row EXCEPT ![req[r].batch][Min(req[r].todo)] = st],
         NEW s, become(r, s), UNCHANGED <<invoice, batch, scope>>,
         \/ s = failedRow(req[r]) /\ ~at(r, "mark")
         \/ s = [failedRow(req[r]) EXCEPT !.imported = @ + 1] /\ "auditFailure" \in scope
  PROVE  AgreeInv'
<1>1. PICK b \in Batches, k \in Nat : b = req[r].batch /\ k = Min(req[r].todo)
  BY AtWork DEF BatchPhases
<1>2. k \in RowsOf(b) /\ k \in req[r].todo /\ req[r].todo \subseteq RowsOf(b) /\ req[r] \in Working
  BY <1>1, AtWork DEF BatchPhases
<1>3. s.phase = "row" /\ s.batch = b /\ s.todo = req[r].todo \ {k}
      /\ ("auditFailure" \notin scope => s.imported = req[r].imported)
  <2>1. PICK q \in Working : q = req[r]
    BY <1>2
  <2>2. s \in {nextRow(q), failedRow(q), [nextRow(q) EXCEPT !.imported = @ + 1],
               [failedRow(q) EXCEPT !.imported = @ + 1]}
    BY <2>1
  <2>3. s.phase = "row" /\ s.batch = q.batch /\ s.todo = q.todo \ {Min(q.todo)}
    BY <2>2, NextRow
  <2>4. failedRow(q).imported = q.imported
    BY NextCount
  <2> QED
    BY <1>1, <2>1, <2>3, <2>4
<1>4. /\ row'[b][k] = st
      /\ \A c \in Batches : \A j \in RowsOf(c) : c # b \/ j # k => row'[c][j] = row[c][j]
  <2>1. row' = [row EXCEPT ![b][k] = st]
    BY <1>1
  <2> QED
    BY <1>1, <1>2, <2>1 DEF ImportType, RowTyped
<1>5. req'[r] = s /\ \A q \in Requests \ {r} : req'[q] = req[q]
  BY DEF become, ImportType
<1>6. b \in Serial => Processing(req[r]) /\ OnBatch(r, b) /\ \A j \in req[r].todo : row[b][j] = "VALID"
  BY <1>1 DEF Processing, AgreeInv, WorkInv, OnBatch, BatchPhases
<1>7. \A c \in Batches : \A j \in RowsOf(c) :
        \/ row'[c][j] = row[c][j]
        \/ /\ row'[c][j] # "IMPORTED"
           /\ c \in Serial => row[c][j] # "IMPORTED" /\ OnBatch(r, c)
  BY <1>2, <1>4, <1>6
<1>8. Processing(req'[r]) =>
        /\ Processing(req[r]) /\ req'[r].batch = req[r].batch
        /\ "auditFailure" \notin scope => req'[r].imported = req[r].imported
        /\ \A j \in req'[r].todo : row'[req'[r].batch][j] = "VALID"
  BY <1>1, <1>2, <1>3, <1>4, <1>5, <1>6 DEF Processing
<1>9. at(r, "mark") => {"crash", "auditFailure"} \cap scope # {}
  OBVIOUS
<1>10. req'[r].phase = "row"
  BY <1>3, <1>5
<1>11. \A i \in Invoices : invoice'[i] = invoice[i]
  OBVIOUS
<1>12. Moves(r)
  BY <1>5, <1>7, <1>8, <1>9, <1>10, <1>11 DEF Moves
<1> QED
  BY <1>12, AgreeMoves

\* A batch is created.
LEMMA AgreeCreates ==
  ASSUME ImportType, SerialInv, Owned, AgreeInv, NEW r \in Requests, NEW b \in Batches, NEW e, NEW a,
         createBatch(r, b, e, a), ~at(r, "mark"), UNCHANGED <<invoice, row, scope>>
  PROVE  AgreeInv'
<1>1. req'[r] = working("parse", b, e, a, RowsOf(b)) /\ \A q \in Requests \ {r} : req'[q] = req[q]
  BY DEF createBatch, become, ImportType
<1>2. req'[r].phase = "parse" /\ req'[r].batch = b
  BY <1>1 DEF working
<1>3. /\ batch[b] = Absent /\ batch'[b] # Absent /\ batch'[b].importedRows = 0
      /\ \A c \in Batches \ {b} : batch'[c] = batch[c]
  BY DEF createBatch, ImportType, Absent
<1>4. \A k \in RowsOf(b) : row[b][k] # "IMPORTED"
  BY <1>3 DEF AgreeInv, WorkInv
<1>5. ~Processing(req'[r])
  BY <1>2 DEF Processing
<1>6. \A c \in Serial : c \in Batches
  BY SerialRows
<1>7. Moves(r)
  BY <1>1, <1>2, <1>3, <1>4, <1>5, <1>6 DEF Moves
<1> QED
  BY <1>7, AgreeMoves

\* One step per action.
\* An amendment changes neither batches nor rows, nor who works on them.
LEMMA AgreeAmended ==
  ASSUME ImportType, AgreeInv, NEW r \in Requests, update(r), "amend" \in scope
  PROVE  AgreeInv'
<1>1. /\ \A q \in Requests : req'[q].phase \in BatchPhases => req'[q] = req[q]
      /\ UNCHANGED <<batch, row, scope>>
  BY UpdateType DEF Idle, BatchPhases, update
<1>2. \A q \in Requests : /\ Processing(req[q])' = Processing(req'[q]) /\ (Processing(req'[q]) => req'[q] = req[q])
                          /\ at(q, "parse")' => at(q, "parse") /\ req'[q] = req[q]
  BY <1>1 DEF Processing, at, BatchPhases
<1>3. WorkInv'
  BY <1>1, <1>2 DEF AgreeInv, WorkInv
<1>4. ClaimsInv'
  BY <1>1, <1>2 DEF AgreeInv, ClaimsInv, ImportedRows
<1> QED
  BY <1>1, <1>3, <1>4 DEF AgreeInv, LikeInv, HasRowInv

LEMMA AgreeStep == ImportType /\ SerialInv /\ Owned /\ AgreeInv /\ [Next]_vars => AgreeInv'
<1> SUFFICES ASSUME ImportType, SerialInv, Owned, AgreeInv, [Next]_vars PROVE AgreeInv'
  OBVIOUS
<1>0. \A r \in Requests : \A s : become(r, s) => req'[r] = s /\ \A q \in Requests \ {r} : req'[q] = req[q]
  BY DEF become, ImportType
<1>1. ASSUME NEW r \in Requests, NEW b \in Batches, upload(r, b) PROVE AgreeInv'
  BY <1>1, AgreeCreates DEF upload, at, Idle
<1>2. ASSUME NEW r \in Requests, applyAsBatch(r) PROVE AgreeInv'
  BY <1>2, AgreeCreates DEF applyAsBatch, at
<1>3. ASSUME NEW r \in Requests, NEW b \in Batches, processValidRows(r, b) PROVE AgreeInv'
  <2>1. PICK s : s = working("row", b, NoEvent, 0, SelectRows(b, {"VALID"}))
    OBVIOUS
  <2>2. s.phase = "row" /\ s.batch = b /\ s.imported = 0 /\ s.todo = {k \in RowsOf(b) : row[b][k] = "VALID"}
    BY <2>1 DEF working, SelectRows
  <2>3. req'[r] = s /\ \A q \in Requests \ {r} : req'[q] = req[q]
    BY <1>0, <1>3, <2>1 DEF processValidRows
  <2>4. ~at(r, "mark") /\ UNCHANGED <<invoice, batch, row, scope>>
    BY <1>3 DEF processValidRows, at, Idle
  <2>5. Processing(req'[r]) => \A q \in Requests : ~Processing(req[q])
    BY <1>3, <2>2, <2>3 DEF processValidRows, free, Processing, OnBatch, BatchPhases
  <2>6. \A k \in req'[r].todo : row'[req'[r].batch][k] = "VALID"
    BY <2>2, <2>3, <2>4
  <2>7. req'[r].phase = "row" /\ req'[r].imported = 0
    BY <2>2, <2>3
  <2>8. Moves(r)
    BY <2>3, <2>4, <2>5, <2>6, <2>7 DEF Moves
  <2> QED
    BY <2>8, AgreeMoves
<1>4. ASSUME NEW r \in Requests, NEW b \in Batches, cancelBatch(r, b) PROVE AgreeInv'
  <2>1. req'[r] = working("skip", b, NoEvent, 0, {}) /\ \A q \in Requests \ {r} : req'[q] = req[q]
    BY <1>0, <1>4 DEF cancelBatch
  <2>2. req'[r].phase = "skip" /\ ~Processing(req'[r])
    BY <2>1 DEF working, Processing
  <2>3. ~at(r, "mark") /\ UNCHANGED <<invoice, row, scope>>
    BY <1>4 DEF cancelBatch, at, Idle
  <2>4. \A c \in Batches : batch'[c] # Absent <=> batch[c] # Absent
    BY <1>4, CancelType DEF cancelBatch, ImportType, Batch, Absent
  <2>5. \A c \in Batches : batch[c] # Absent => batch'[c].importedRows = batch[c].importedRows
    BY <1>4 DEF cancelBatch, ImportType, Batch, Absent
  <2>6. \A c \in Serial : c \in Batches
    BY SerialRows
  <2>7. Moves(r)
    BY <2>1, <2>2, <2>3, <2>4, <2>5, <2>6 DEF Moves
  <2> QED
    BY <2>7, AgreeMoves
<1>5. ASSUME NEW r \in Requests, parseRow(r) PROVE AgreeInv'
  <2>1. at(r, "parse") /\ req[r].phase \in BatchPhases /\ req[r].todo # {}
    BY <1>5 DEF parseRow, at, BatchPhases
  <2>2. PICK b \in Batches, k \in Nat : b = req[r].batch /\ k = Min(req[r].todo)
    BY <2>1, AtWork
  <2>3. k \in RowsOf(b) /\ req[r] \in Working
    BY <2>1, <2>2, AtWork
  <2>4. PICK st \in RowStatus : st # "IMPORTED" /\ row' = [row EXCEPT ![b][k] = st]
    BY <1>5, <2>2, Validated DEF parseRow, RowStatus
  <2>5. UNCHANGED <<invoice, batch, scope>>
    BY <1>5 DEF parseRow
  <2>6. req'[r].phase = "parse" /\ req'[r].batch = b /\ \A q \in Requests \ {r} : req'[q] = req[q]
    <3>1. PICK T, n : become(r, [req[r] EXCEPT !.todo = T, !.failed = n])
      BY <1>5 DEF parseRow
    <3>2. req'[r] = [req[r] EXCEPT !.todo = T, !.failed = n] /\ \A q \in Requests \ {r} : req'[q] = req[q]
      BY <3>1 DEF become, ImportType
    <3> QED
      BY <2>1, <2>2, <2>3, <3>2 DEF Working, at
  <2>7. \A c \in Batches : \A j \in RowsOf(c) : c # b \/ j # k => row'[c][j] = row[c][j]
    BY <2>3, <2>4, RowWritten DEF ImportType
  <2>8. row'[b][k] = st
    BY <2>3, <2>4 DEF ImportType, RowTyped
  <2>9. b \in Serial => OnBatch(r, b) /\ \A j \in RowsOf(b) : row[b][j] # "IMPORTED"
    BY <2>1, <2>2 DEF OnBatch, AgreeInv, WorkInv
  <2>10. \A c \in Batches : \A j \in RowsOf(c) :
           \/ row'[c][j] = row[c][j]
           \/ row'[c][j] # "IMPORTED" /\ (c \in Serial => row[c][j] # "IMPORTED" /\ OnBatch(r, c))
    BY <2>3, <2>4, <2>7, <2>8, <2>9
  <2>11. ~Processing(req'[r]) /\ ~at(r, "mark")
    BY <2>1, <2>6 DEF Processing, at
  <2>12. Moves(r)
    BY <2>5, <2>6, <2>9, <2>10, <2>11 DEF Moves
  <2> QED
    BY <2>12, AgreeMoves
<1>6. ASSUME NEW r \in Requests, parsed(r) PROVE AgreeInv'
  <2>1. req[r].phase \in BatchPhases /\ ~at(r, "mark")
    BY <1>6 DEF parsed, at, BatchPhases
  <2>2. PICK s : become(r, s) /\ s.phase \in {"idle", "record"}
    BY <1>6 DEF parsed, Idle
  <2>3. req'[r].phase \in {"idle", "record"} /\ \A q \in Requests \ {r} : req'[q] = req[q]
    BY <1>0, <2>2
  <2>4. UNCHANGED <<invoice, row, scope>>
    BY <1>6 DEF parsed
  <2>5. PICK b \in Batches, o \in BatchStatus :
          batch[b] \in Batch /\ batch' = [batch EXCEPT ![b] = [batch[b] EXCEPT !.status = o]]
    BY <1>6, <2>1, AtWork DEF parsed, outcome, BatchStatus
  <2>6. \A c \in Batches : batch[c] # Absent => batch'[c] # Absent /\ batch'[c].importedRows = batch[c].importedRows
    BY <2>5 DEF ImportType, Batch, Absent
  <2>7. \A c \in Batches : batch'[c] # Absent => batch[c] # Absent
    BY <2>5 DEF ImportType, Batch, Absent
  <2>8. \A c \in Serial : c \in Batches
    BY SerialRows
  <2>9. ~Processing(req'[r])
    BY <2>3 DEF Processing
  <2>10. Moves(r)
    BY <2>1, <2>3, <2>4, <2>6, <2>7, <2>8, <2>9 DEF Moves
  <2> QED
    BY <2>10, AgreeMoves
<1>7. ASSUME NEW r \in Requests, validateAgain(r) PROVE AgreeInv'
  <2>1. at(r, "row") /\ req[r].phase = "row" /\ req[r].phase \in BatchPhases /\ req[r].todo # {}
    BY <1>7 DEF validateAgain, at, BatchPhases
  <2>2. PICK b \in Batches, k \in Nat : b = req[r].batch /\ k = Min(req[r].todo)
    BY <2>1, AtWork
  <2>3. k \in RowsOf(b) /\ req[r] \in Working /\ Lines[b][k] \in Line
    BY <2>1, <2>2, AtWork, Rows
  <2>4. PICK st \in RowStatus \ {"IMPORTED"} : st = validateImportRow(Lines[b][k])
    BY Validated DEF RowStatus
  <2>5. CASE st # "VALID"
    <3>1. PICK s : s = failedRow(req[r])
      OBVIOUS
    <3>2. row' = [row EXCEPT ![req[r].batch][Min(req[r].todo)] = st] /\ become(r, s)
          /\ UNCHANGED <<invoice, batch, scope>>
      BY <1>7, <2>2, <2>4, <2>5, <3>1 DEF validateAgain
    <3>3. ~at(r, "mark")
      BY <2>1 DEF at
    <3> QED
      BY <2>1, <3>1, <3>2, <3>3, AgreeFails
  <2>6. CASE st = "VALID"
    <3>1. PICK s : s = [req[r] EXCEPT !.phase = "create"]
      OBVIOUS
    <3>2. become(r, s) /\ UNCHANGED <<invoice, batch, row, scope>>
      BY <1>7, <2>2, <2>4, <2>6, <3>1 DEF validateAgain
    <3>3. s.phase = "create" /\ s.batch = b /\ s.todo = req[r].todo /\ s.imported = req[r].imported
      BY <2>2, <2>3, <3>1 DEF Working
    <3>4. req'[r] = s /\ \A q \in Requests \ {r} : req'[q] = req[q]
      BY <3>2 DEF become, ImportType
    <3>5. "amend" \notin scope => \A c \in Serial : \A j \in RowsOf(c) : row[c][j] = "IMPORTED" =>
            ~sameInvoice(Lines[b][k], Lines[c][j])
      BY <2>3, <2>4, <2>6, ValidIsNew
    <3>6. Processing(req'[r]) =>
            /\ Processing(req[r]) /\ req'[r].batch = req[r].batch /\ req'[r].imported = req[r].imported
            /\ \A j \in req'[r].todo : row'[req'[r].batch][j] = "VALID"
      BY <2>1, <2>2, <3>2, <3>3, <3>4 DEF Processing, AgreeInv, WorkInv
    <3>7. req'[r].batch = b /\ Min(req'[r].todo) = k /\ req'[r].phase = "create"
      BY <2>2, <3>3, <3>4
    <3>8. ~at(r, "mark")
      BY <2>1 DEF at
    <3>9. Moves(r)
      BY <3>2, <3>4, <3>5, <3>6, <3>7, <3>8 DEF Moves
    <3> QED
      BY <3>9, AgreeMoves
  <2> QED
    BY <2>5, <2>6
<1>8. ASSUME NEW r \in Requests, createInvoice(r) PROVE AgreeInv'
  <2>1. at(r, "create") /\ req[r].phase = "create" /\ req[r].phase \in BatchPhases /\ req[r].todo # {}
    BY <1>8, AtWork DEF createInvoice, at, BatchPhases
  <2>2. PICK b \in Batches, k \in Nat : b = req[r].batch /\ k = Min(req[r].todo)
    BY <2>1, AtWork
  <2>3. k \in RowsOf(b) /\ req[r] \in Working /\ Lines[b][k] \in Line
    BY <2>1, <2>2, AtWork, Rows
  <2>4. PICK i \in Invoices : i = Lines[b][k].invoice
    BY <2>3 DEF Line
  <2>5. CASE invoice[i] # Absent
    <3>1. PICK s : s = failedRow(req[r])
      OBVIOUS
    <3>2. row' = [row EXCEPT ![req[r].batch][Min(req[r].todo)] = "FAILED"] /\ become(r, s)
          /\ UNCHANGED <<invoice, batch, scope>>
      BY <1>8, <2>2, <2>4, <2>5, <3>1 DEF createInvoice
    <3>3. ~at(r, "mark") /\ "FAILED" \in RowStatus \ {"IMPORTED"}
      BY <2>1 DEF at, RowStatus
    <3> QED
      BY <2>1, <3>1, <3>2, <3>3, AgreeFails
  <2>6. CASE invoice[i] = Absent
    <3>1. PICK s : s = [req[r] EXCEPT !.phase = "mark"]
      OBVIOUS
    <3>2. /\ become(r, s) /\ UNCHANGED <<batch, row, scope>>
          /\ invoice' = [invoice EXCEPT ![i] = invoiceCreateData(Lines[b][k], b)]
      BY <1>8, <2>2, <2>4, <2>6, <3>1 DEF createInvoice
    <3>3. s.phase = "mark" /\ s.batch = b /\ s.todo = req[r].todo /\ s.imported = req[r].imported
      BY <2>2, <2>3, <3>1 DEF Working
    <3>4. req'[r] = s /\ \A q \in Requests \ {r} : req'[q] = req[q]
      BY <3>2 DEF become, ImportType
    <3>5. /\ invoice'[i].batch = b /\ bears(invoice'[i], Lines[b][k])
          /\ \A j \in Invoices \ {i} : invoice'[j] = invoice[j]
      BY <2>3, <3>2, CreatedIsTyped DEF ImportType, bears
    <3>6. Processing(req'[r]) =>
            /\ Processing(req[r]) /\ req'[r].batch = req[r].batch /\ req'[r].imported = req[r].imported
            /\ \A j \in req'[r].todo : row'[req'[r].batch][j] = "VALID"
            /\ "amend" \notin scope => \A c \in Serial : \A j \in RowsOf(c) : row[c][j] = "IMPORTED" =>
                 ~sameInvoice(Lines[b][k], Lines[c][j])
      BY <2>1, <2>2, <3>2, <3>3, <3>4 DEF Processing, AgreeInv, WorkInv, LikeInv, at
    <3>7. req'[r].batch = b /\ Min(req'[r].todo) = k /\ req'[r].phase = "mark" /\ Claim(req'[r]) = i
      BY <2>2, <2>4, <3>3, <3>4 DEF Claim
    <3>8. ~at(r, "mark")
      BY <2>1 DEF at
    <3>9. \A j \in Invoices : invoice[j] # Absent => invoice'[j] = invoice[j]
      BY <2>6, <3>5
    <3>10. \A j \in Invoices : \A c \in Serial :
             invoice[j] = Absent /\ invoice'[j] # Absent /\ invoice'[j].batch = c => j = i /\ c = b
      BY <3>5
    <3>11. Moves(r)
      BY <3>2, <3>4, <3>5, <3>6, <3>7, <3>8, <3>9, <3>10 DEF Moves
    <3> QED
      BY <3>11, AgreeMoves
  <2> QED
    BY <2>5, <2>6
<1>9. ASSUME NEW r \in Requests, markImported(r) PROVE AgreeInv'
  BY <1>9, AgreeMarks
<1>10. ASSUME NEW r \in Requests, auditFails(r) PROVE AgreeInv'
  <2>1. req[r].phase = "mark" /\ req[r].todo # {}
    BY <1>10, AtWork DEF auditFails, at, BatchPhases
  <2>2. PICK s : s = [failedRow(req[r]) EXCEPT !.imported = @ + 1]
    OBVIOUS
  <2>3. /\ row' = [row EXCEPT ![req[r].batch][Min(req[r].todo)] = "FAILED"] /\ become(r, s)
        /\ UNCHANGED <<invoice, batch, scope>> /\ "auditFailure" \in scope
    BY <1>10, <2>2 DEF auditFails
  <2>4. "FAILED" \in RowStatus \ {"IMPORTED"}
    BY DEF RowStatus
  <2> QED
    BY <2>1, <2>2, <2>3, <2>4, AgreeFails
<1>11. ASSUME NEW r \in Requests, processed(r) PROVE AgreeInv'
  <2>1. req[r].phase = "row" /\ req[r].phase \in BatchPhases /\ ~at(r, "mark")
    BY <1>11 DEF processed, at, BatchPhases
  <2>2. PICK b \in Batches : b = req[r].batch
    BY <2>1, AtWork
  <2>3. req'[r] = Idle /\ \A q \in Requests \ {r} : req'[q] = req[q]
    BY <1>0, <1>11 DEF processed
  <2>4. req'[r].phase = "idle" /\ ~Processing(req'[r])
    BY <2>3 DEF Idle, Processing
  <2>5. UNCHANGED <<invoice, row, scope>>
    BY <1>11 DEF processed
  <2>6. /\ batch'[b] = [status |-> outcome(req[r].failed), importedRows |-> req[r].imported]
        /\ \A c \in Batches \ {b} : batch'[c] = batch[c]
    BY <1>11, <2>2 DEF processed, ImportType
  <2>7. batch'[b] # Absent /\ batch'[b].importedRows = req[r].imported /\ batch[b] # Absent
    BY <2>1, <2>2, <2>6, AtWork DEF Batch, Absent
  <2>8. \A c \in Serial : c \in Batches
    BY SerialRows
  <2>9. b \in Serial => Processing(req[r])
    BY <2>1, <2>2 DEF Processing
  <2>10. Moves(r)
    BY <2>1, <2>2, <2>3, <2>4, <2>5, <2>6, <2>7, <2>8, <2>9 DEF Moves
  <2> QED
    BY <2>10, AgreeMoves
<1>12. ASSUME NEW r \in Requests, skipRows(r) PROVE AgreeInv'
  <2>1. req[r].phase = "skip" /\ req[r].phase \in BatchPhases /\ ~at(r, "mark")
    BY <1>12 DEF skipRows, at, BatchPhases
  <2>2. PICK b \in Batches : b = req[r].batch /\ OnBatch(r, b)
    BY <2>1, AtWork DEF OnBatch
  <2>3. req'[r] = Idle /\ \A q \in Requests \ {r} : req'[q] = req[q]
    BY <1>0, <1>12 DEF skipRows
  <2>4. req'[r].phase = "idle" /\ ~Processing(req'[r])
    BY <2>3 DEF Idle, Processing
  <2>5. UNCHANGED <<invoice, batch, scope>>
    BY <1>12 DEF skipRows
  <2>6. \A c \in Batches : \A j \in RowsOf(c) :
          \/ row'[c][j] = row[c][j]
          \/ c = b /\ row'[c][j] = "SKIPPED" /\ row[c][j] = "VALID"
    BY <1>12, <2>2 DEF skipRows, ImportType, RowTyped
  <2>7. Moves(r)
    BY <2>1, <2>2, <2>3, <2>4, <2>5, <2>6 DEF Moves
  <2> QED
    BY <2>7, AgreeMoves
\* Steps away from any batch.
<1>13. ASSUME UNCHANGED <<invoice, batch, row, scope>>,
              NEW r, NEW s, UNCHANGED req \/ (r \in Requests /\ become(r, s)),
              UNCHANGED req \/ s.phase \notin BatchPhases,
              UNCHANGED req \/ ~at(r, "mark") \/ "crash" \in scope
       PROVE  AgreeInv'
  BY <1>13, AgreeElsewhere
<1>14. ASSUME NEW r \in Requests, NEW e \in Events,
              (\E signed \in BOOLEAN : processProviderWebhook(r, e, signed)) \/ retryProviderWebhookEvent(r, e)
       PROVE  AgreeInv'
  <2>1. ASSUME NEW signed \in BOOLEAN, processProviderWebhook(r, e, signed) PROVE AgreeInv'
    BY <1>13, <2>1 DEF processProviderWebhook, at, Idle, BatchPhases
  <2>2. CASE retryProviderWebhookEvent(r, e)
    BY <1>13, <2>2 DEF retryProviderWebhookEvent, at, Idle, BatchPhases
  <2> QED
    BY <1>14, <2>1, <2>2
<1>15. ASSUME NEW r \in Requests, storeEvent(r) \/ replay(r) \/ record(r) \/ crash(r) PROVE AgreeInv'
  <2>1. PICK s : become(r, s) /\ s.phase \in {"idle", "replay", "apply"}
    BY <1>15 DEF storeEvent, replay, record, crash, Idle
  <2>2. (~at(r, "mark") \/ "crash" \in scope) /\ UNCHANGED <<invoice, batch, row, scope>>
    BY <1>15 DEF storeEvent, replay, record, crash, at
  <2> QED
    BY <1>13, <2>1, <2>2 DEF BatchPhases
<1>16. ASSUME NEW r \in Requests, NEW op \in InvoiceOps, NEW i \in Invoices, readInvoice(r, op, i) PROVE AgreeInv'
  <2>1. PICK s : become(r, s) /\ s.phase = "update"
    BY <1>16 DEF readInvoice
  <2>2. ~at(r, "mark") /\ UNCHANGED <<invoice, batch, row, scope>>
    BY <1>16 DEF readInvoice, at, Idle
  <2> QED
    BY <1>13, <2>1, <2>2 DEF BatchPhases
<1>17. ASSUME NEW r \in Requests, applyToInvoice(r) PROVE AgreeInv'
  <2>1. PICK s : become(r, s) /\ s.phase = "record"
    BY <1>17 DEF applyToInvoice, recording
  <2>2. ~at(r, "mark") /\ UNCHANGED <<batch, row, scope>>
    BY <1>17 DEF applyToInvoice, at
  <2>3. /\ \A i \in Invoices : invoice[i] = Absent => invoice'[i] = Absent
        /\ \A i \in Invoices : invoice[i] # Absent =>
             /\ invoice'[i] # Absent /\ invoice'[i].batch = invoice[i].batch
             /\ invoice'[i].reference = invoice[i].reference
             /\ invoice'[i].terms = invoice[i].terms
    BY <1>17, ApplyToInvoiceType
  <2> QED
    BY <2>1, <2>2, <2>3, AgreeElsewhere DEF BatchPhases
<1>18. ASSUME NEW r \in Requests, writeInvoice(r) PROVE AgreeInv'
  <2>1. PICK s : become(r, s) /\ s.phase = "idle"
    BY <1>18 DEF writeInvoice, Idle
  <2>2. ~at(r, "mark") /\ UNCHANGED <<batch, row, scope>>
    BY <1>18 DEF writeInvoice, at
  <2>3. /\ \A i \in Invoices : invoice[i] = Absent => invoice'[i] = Absent \/ invoice'[i].batch = "manual"
        /\ \A i \in Invoices : invoice[i] # Absent =>
             /\ invoice'[i] # Absent /\ invoice'[i].batch = invoice[i].batch
             /\ invoice'[i].reference = invoice[i].reference
             /\ invoice'[i].terms = invoice[i].terms
    BY <1>18, WriteInvoiceType
  <2> QED
    BY <2>1, <2>2, <2>3, AgreeElsewhere DEF BatchPhases
<1>19. ASSUME NEW i \in Invoices, finance(i) PROVE AgreeInv'
  <2>1. /\ \A j \in Invoices : invoice[j] = Absent => invoice'[j] = Absent
        /\ \A j \in Invoices : invoice[j] # Absent =>
             /\ invoice'[j] # Absent /\ invoice'[j].batch = invoice[j].batch
             /\ invoice'[j].reference = invoice[j].reference
             /\ invoice'[j].terms = invoice[j].terms
    BY <1>19, FinanceType
  <2>2. UNCHANGED <<batch, row, req, scope>>
    BY <1>19 DEF finance
  <2> QED
    BY <2>1, <2>2, AgreeElsewhere
<1>20. ASSUME NEW s \in Suppliers, addParticipant(s) PROVE AgreeInv'
  BY <1>13, <1>20 DEF addParticipant
<1>21. CASE UNCHANGED vars
  BY <1>13, <1>21 DEF vars
<1>22. ASSUME NEW r \in Requests, NEW i \in Invoices, NEW p \in Patches, readPatched(r, i, p) PROVE AgreeInv'
  <2>1. PICK s : become(r, s) /\ s.phase = "patch"
    BY <1>22 DEF readPatched
  <2>2. ~at(r, "mark") /\ UNCHANGED <<invoice, batch, row, scope>>
    BY <1>22 DEF readPatched, at, Idle
  <2> QED
    BY <1>13, <2>1, <2>2 DEF BatchPhases
<1>23. ASSUME NEW r \in Requests, update(r) PROVE AgreeInv'
  <2>1. CASE "amend" \in scope
    BY <1>23, <2>1, AgreeAmended
  <2>2. CASE "amend" \notin scope
    <3>1. /\ ImportType' /\ req'[r] = Idle /\ \A q \in Requests \ {r} : req'[q] = req[q]
          /\ \A i \in Invoices : invoice[i] = Absent => invoice'[i] = Absent
          /\ \A i \in Invoices : invoice[i] # Absent =>
               /\ invoice'[i] # Absent /\ invoice'[i].batch = invoice[i].batch
               /\ invoice'[i].reference = invoice[i].reference
               /\ invoice'[i].terms = invoice[i].terms
      BY <1>23, <2>2, UpdateType
    <3>2. become(r, Idle)
      BY <3>1 DEF ImportType, become
    <3>3. ~at(r, "mark") /\ UNCHANGED <<batch, row, scope>> /\ Idle.phase \notin BatchPhases
      BY <1>23 DEF update, at, Idle, BatchPhases
    <3> QED
      BY <3>1, <3>2, <3>3, AgreeElsewhere
  <2> QED
    BY <2>1, <2>2
<1> QED
  BY <1>1, <1>2, <1>3, <1>4, <1>5, <1>6, <1>7, <1>8, <1>9, <1>10, <1>11, <1>12, <1>14, <1>15, <1>16,
     <1>17, <1>18, <1>19, <1>20, <1>21, <1>22, <1>23 DEF Next, Proceed

\* invoice-import.service.ts: what the rows and the batches say is true of the
\* invoices, as long as no PATCH changes an invoice's number, parties, reference,
\* amount or due date; one that changes the status is harmless.  A row marked as
\* imported has an invoice of its own batch which no other has, however many
\* requests process the same batch and wherever they stop; of the batches processed
\* one at a time no two imported rows are each like the other, none claims more than
\* it imported (PATCH or not), and no invoice is without its row.
THEOREM RowsAndInvoicesAreTrue == Spec => []RowsAndInvoicesAgree
  BY InitType, StepType, OwnInit, OwnedStep, SerialInit, SerialStep, AgreeInit, AgreeStep, AgreeImplies, PTL DEF Spec
-----------------------------------------------------------------------------
(* Provider events *)

Underway == {"replay", "apply", "parse"}
Pending(e) == {r \in Requests : req[r].phase \in Underway /\ req[r].event = e}
Budget(e) == history[e].retried + (IF event[e] = Absent THEN 0 ELSE 1)

\* An event is applied, or about to be, once and once more for each retry;
\* what is or will be recorded as processed has been applied; and until an
\* operator retries it only a proven event gets that far.
EventInv ==
  \A e \in Events :
    /\ history[e].applied + Cardinality(Pending(e)) <= Budget(e)
    /\ event[e] # Absent /\ event[e].status = "PROCESSED" => history[e].applied > 0
    /\ \A r \in Requests : at(r, "record") /\ req[r].event = e /\ req[r].ok => history[e].applied > 0
    /\ history[e].retried = 0 /\ (history[e].applied > 0 \/ Pending(e) # {}) => event[e].signatureValid

LEMMA PendingCounts ==
  ASSUME NEW e
  PROVE  /\ IsFiniteSet(Pending(e)) /\ Cardinality(Pending(e)) \in Nat
         /\ IsFiniteSet(Pending(e)') /\ Cardinality(Pending(e)') \in Nat
<1>1. IsFiniteSet(Requests) /\ Pending(e) \subseteq Requests /\ Pending(e)' \subseteq Requests
  BY ImportAssumption DEF Pending
<1>2. IsFiniteSet(Pending(e)) /\ IsFiniteSet(Pending(e)')
  BY <1>1, FS_Subset
<1> QED
  BY <1>2, FS_CardinalityType

LEMMA HistoryTyped ==
  ASSUME ImportType, NEW e \in Events
  PROVE  history[e].applied \in Nat /\ history[e].retried \in Nat
  BY DEF ImportType

LEMMA EventImplies == ImportType /\ EventInv => EventsAppliedOnce
<1> SUFFICES ASSUME ImportType, EventInv, NEW e \in Events
             PROVE  /\ history[e].applied <= 1 + history[e].retried
                    /\ event[e] # Absent /\ event[e].status = "PROCESSED" => history[e].applied > 0
                    /\ history[e].applied > 0 /\ history[e].retried = 0 => event[e].signatureValid
  BY DEF EventsAppliedOnce, DeliveredOnce, ProcessedWasApplied, UnprovenNeedsRetry
<1>1. history[e].applied + Cardinality(Pending(e)) <= Budget(e)
  BY DEF EventInv
<1>2. history[e].applied <= 1 + history[e].retried
  BY <1>1, PendingCounts, HistoryTyped DEF Budget
<1> QED
  BY <1>2 DEF EventInv

LEMMA EventInit == Init => EventInv
<1> SUFFICES ASSUME Init, NEW e \in Events
             PROVE  /\ history[e].applied + Cardinality(Pending(e)) <= Budget(e)
                    /\ event[e] = Absent /\ history[e].applied = 0 /\ Pending(e) = {}
                    /\ \A r \in Requests : ~at(r, "record")
  BY DEF EventInv
<1>1. Pending(e) = {} /\ \A r \in Requests : ~at(r, "record")
  BY DEF Init, Pending, Idle, Underway, at
<1>2. event[e] = Absent /\ history[e].applied = 0 /\ history[e].retried = 0
  BY DEF Init
<1>3. Cardinality(Pending(e)) = 0
  BY <1>1, FS_EmptySet
<1> QED
  BY <1>1, <1>2, <1>3 DEF Budget

\* A request that comes to no event it was not at already.
LEMMA EventShrinks ==
  ASSUME ImportType, EventInv, NEW r \in Requests, NEW s, become(r, s), UNCHANGED history,
         s.phase \in Underway => req[r].phase \in Underway /\ s.event = req[r].event,
         \A e \in Events : s.phase = "record" /\ s.event = e /\ s.ok => history[e].applied > 0,
         \A e \in Events : event[e] # Absent =>
           event'[e] # Absent /\ event'[e].signatureValid = event[e].signatureValid,
         \A e \in Events : event'[e] # Absent /\ event'[e].status = "PROCESSED" =>
           (event[e] # Absent /\ event[e].status = "PROCESSED") \/ history[e].applied > 0
  PROVE  EventInv'
<1>1. req'[r] = s /\ \A q \in Requests \ {r} : req'[q] = req[q]
  BY DEF become, ImportType
<1> SUFFICES ASSUME NEW e \in Events
             PROVE  /\ history[e].applied + Cardinality(Pending(e)') <= Budget(e)'
                    /\ event'[e] # Absent /\ event'[e].status = "PROCESSED" => history[e].applied > 0
                    /\ \A q \in Requests : at(q, "record")' /\ req'[q].event = e /\ req'[q].ok =>
                         history[e].applied > 0
                    /\ history[e].retried = 0 /\ (history[e].applied > 0 \/ Pending(e)' # {}) =>
                         event'[e].signatureValid
  BY DEF EventInv
<1>2. Pending(e)' \subseteq Pending(e)
  BY <1>1 DEF Pending
<1>3. Cardinality(Pending(e)') <= Cardinality(Pending(e))
  BY <1>2, PendingCounts, FS_Subset
<1>4. Budget(e) <= Budget(e)'
  BY HistoryTyped DEF Budget
<1>5. history[e].applied + Cardinality(Pending(e)) <= Budget(e)
  BY DEF EventInv
<1>6. Budget(e) \in Nat /\ Budget(e)' \in Nat
  BY HistoryTyped DEF Budget
<1>7. history[e].applied + Cardinality(Pending(e)') <= Budget(e)'
  BY <1>3, <1>4, <1>5, <1>6, PendingCounts, HistoryTyped
<1>8. \A q \in Requests : at(q, "record")' /\ req'[q].event = e /\ req'[q].ok => history[e].applied > 0
  BY <1>1 DEF EventInv, at
<1>9. ASSUME history[e].retried = 0, history[e].applied > 0 \/ Pending(e)' # {} PROVE event'[e].signatureValid
  <2>1. event[e].signatureValid
    BY <1>2, <1>9 DEF EventInv
  <2>2. event[e] # Absent
    <3>1. CASE event[e] = Absent
      <4>1. history[e].applied + Cardinality(Pending(e)) <= 0
        BY <1>5, <1>9, <3>1 DEF Budget
      <4>2. history[e].applied = 0 /\ Cardinality(Pending(e)) = 0
        BY <4>1, PendingCounts, HistoryTyped
      <4>3. Pending(e) = {}
        BY <4>2, PendingCounts, FS_EmptySet
      <4> QED
        BY <1>2, <1>9, <4>2, <4>3
    <3> QED
      BY <3>1
  <2> QED
    BY <2>1, <2>2
<1> QED
  BY <1>7, <1>8, <1>9 DEF EventInv

LEMMA EventElsewhere ==
  ASSUME EventInv, UNCHANGED <<history, event, req>>
  PROVE  EventInv'
  BY DEF EventInv, Budget, Pending, at

\* A PATCH concerns no request that handles an event.
LEMMA EventUpdated ==
  ASSUME ImportType, EventInv, NEW r \in Requests, update(r)
  PROVE  EventInv'
<1>1. \A q \in Requests : req'[q].phase \in Underway \cup {"record"} => req'[q] = req[q]
  BY UpdateType DEF Idle, Underway
<1>2. \A q \in Requests : req[q].phase \in Underway => req'[q] = req[q]
  <2>1. req[r].phase = "patch"
    BY DEF update, at
  <2> QED
    BY <2>1, UpdateType DEF Underway
<1>3. \A e \in Events : Pending(e)' = Pending(e)
  BY <1>1, <1>2 DEF Pending
<1>4. UNCHANGED <<event, history>>
  BY DEF update
<1>5. \A q \in Requests : at(q, "record")' => at(q, "record") /\ req'[q] = req[q]
  BY <1>1 DEF at
<1> QED
  BY <1>3, <1>4, <1>5 DEF EventInv, Budget

\* A request comes to an event, which has room for one more: it is new and
\* proven, or it is being retried.
LEMMA EventAdds ==
  ASSUME ImportType, EventInv, NEW r \in Requests, NEW e \in Events, NEW s, become(r, s),
         s.phase = "replay", s.event = e, req[r].phase \notin Underway,
         \A f \in Events \ {e} : history'[f] = history[f] /\ event'[f] = event[f],
         history'[e].applied = history[e].applied, history'[e].retried \in Nat,
         Budget(e)' = Budget(e) + 1, event'[e].status # "PROCESSED",
         history'[e].retried = 0 => event'[e].signatureValid
  PROVE  EventInv'
<1>1. req'[r] = s /\ \A q \in Requests \ {r} : req'[q] = req[q]
  BY DEF become, ImportType
<1>2. \A q \in Requests : at(q, "record")' => at(q, "record") /\ req'[q] = req[q]
  BY <1>1 DEF at
<1>3. ASSUME NEW f \in Events \ {e} PROVE Pending(f)' = Pending(f) /\ Budget(f)' = Budget(f)
  BY <1>1, <1>3 DEF Pending, Budget
<1>4. Pending(e)' = Pending(e) \cup {r} /\ r \notin Pending(e)
  BY <1>1 DEF Pending, Underway
<1>5. Cardinality(Pending(e)') = Cardinality(Pending(e)) + 1
  BY <1>4, PendingCounts, FS_AddElement
<1>6. Budget(e) \in Nat
  BY HistoryTyped DEF Budget
<1>7. history[e].applied + Cardinality(Pending(e)) <= Budget(e)
  BY DEF EventInv
<1>8. history'[e].applied + Cardinality(Pending(e)') <= Budget(e)'
  BY <1>5, <1>6, <1>7, PendingCounts, HistoryTyped
<1>9. ASSUME NEW f \in Events \ {e}
      PROVE  /\ history'[f].applied + Cardinality(Pending(f)') <= Budget(f)'
             /\ event'[f] # Absent /\ event'[f].status = "PROCESSED" => history'[f].applied > 0
             /\ \A q \in Requests : at(q, "record")' /\ req'[q].event = f /\ req'[q].ok => history'[f].applied > 0
             /\ history'[f].retried = 0 /\ (history'[f].applied > 0 \/ Pending(f)' # {}) => event'[f].signatureValid
  BY <1>2, <1>3, <1>9 DEF EventInv
<1>10. \A q \in Requests : at(q, "record")' /\ req'[q].event = e /\ req'[q].ok => history'[e].applied > 0
  BY <1>2 DEF EventInv
<1> QED
  BY <1>8, <1>9, <1>10 DEF EventInv

\* A request applies its event and goes on to record it.
LEMMA EventApplied ==
  ASSUME ImportType, EventInv, NEW r \in Requests, NEW e \in Events, NEW s, become(r, s),
         s.phase = "record", s.event = e, req[r].phase \in Underway, req[r].event = e,
         history' = [history EXCEPT ![e].applied = @ + 1], UNCHANGED event
  PROVE  EventInv'
<1>1. req'[r] = s /\ \A q \in Requests \ {r} : req'[q] = req[q]
  BY DEF become, ImportType
<1>2. /\ history'[e].applied = history[e].applied + 1 /\ history'[e].retried = history[e].retried
      /\ \A f \in Events \ {e} : history'[f] = history[f]
  BY DEF ImportType
<1>3. \A q \in Requests : at(q, "record")' => q = r \/ (at(q, "record") /\ req'[q] = req[q])
  BY <1>1 DEF at
<1>4. ASSUME NEW f \in Events \ {e} PROVE Pending(f)' = Pending(f) /\ Budget(f)' = Budget(f)
  BY <1>1, <1>2, <1>4 DEF Pending, Budget, Underway
<1>5. Pending(e)' = Pending(e) \ {r} /\ r \in Pending(e) /\ Budget(e)' = Budget(e)
  BY <1>1, <1>2 DEF Pending, Underway, Budget
<1>6. Cardinality(Pending(e)') = Cardinality(Pending(e)) - 1
  BY <1>5, PendingCounts, FS_RemoveElement
<1>7. Budget(e) \in Nat /\ history[e].applied + Cardinality(Pending(e)) <= Budget(e)
  BY HistoryTyped DEF Budget, EventInv
<1>8. history'[e].applied + Cardinality(Pending(e)') <= Budget(e)'
  BY <1>2, <1>5, <1>6, <1>7, PendingCounts, HistoryTyped
<1>9. ASSUME NEW f \in Events \ {e}
      PROVE  /\ history'[f].applied + Cardinality(Pending(f)') <= Budget(f)'
             /\ event'[f] # Absent /\ event'[f].status = "PROCESSED" => history'[f].applied > 0
             /\ \A q \in Requests : at(q, "record")' /\ req'[q].event = f /\ req'[q].ok => history'[f].applied > 0
             /\ history'[f].retried = 0 /\ (history'[f].applied > 0 \/ Pending(f)' # {}) => event'[f].signatureValid
  <2>1. \A q \in Requests : at(q, "record")' /\ req'[q].event = f /\ req'[q].ok => history'[f].applied > 0
    BY <1>1, <1>2, <1>3, <1>9 DEF EventInv
  <2> QED
    BY <1>2, <1>4, <1>9, <2>1 DEF EventInv
<1>10. history'[e].applied > 0
  BY <1>2, HistoryTyped
<1>11. history'[e].retried = 0 => event'[e].signatureValid
  BY <1>2, <1>5 DEF EventInv
<1> QED
  BY <1>8, <1>9, <1>10, <1>11 DEF EventInv

\* One step per action.
LEMMA EventProgress == ImportType /\ EventInv /\ [Next]_vars => EventInv'
<1> SUFFICES ASSUME ImportType, EventInv, [Next]_vars PROVE EventInv'
  OBVIOUS
\* Steps that change no event and record none.
<1>1. ASSUME NEW r \in Requests, NEW s, become(r, s), UNCHANGED <<history, event>>,
             s.phase \notin {"replay", "apply", "parse", "record"}
      PROVE  EventInv'
  BY <1>1, EventShrinks DEF Underway
\* A new batch is the application of an event, or of none.
<1>2. ASSUME NEW r \in Requests, NEW b \in Batches, NEW e, NEW a, createBatch(r, b, e, a),
             UNCHANGED <<history, event>>, e \in Events => req[r].phase \in Underway /\ req[r].event = e,
             e \in Events \cup {NoEvent}
      PROVE  EventInv'
  <2>1. PICK s : s = working("parse", b, e, a, RowsOf(b))
    OBVIOUS
  <2>2. s.phase = "parse" /\ s.event = e /\ become(r, s)
    BY <1>2, <2>1 DEF createBatch, working
  <2>3. CASE e \in Events
    BY <1>2, <2>2, <2>3, EventShrinks DEF Underway
  <2>4. CASE e = NoEvent
    <3>1. req'[r] = s /\ \A q \in Requests \ {r} : req'[q] = req[q]
      BY <2>2 DEF become, ImportType
    <3>2. ASSUME NEW f \in Events PROVE Pending(f)' \subseteq Pending(f)
      BY <2>2, <2>4, <3>1, <3>2, ImportAssumption DEF Pending
    <3>3. \A q \in Requests : at(q, "record")' => at(q, "record") /\ req'[q] = req[q]
      BY <2>2, <3>1 DEF at
    <3>4. ASSUME NEW f \in Events
          PROVE  /\ history[f].applied + Cardinality(Pending(f)') <= Budget(f)
                 /\ history[f].retried = 0 /\ (history[f].applied > 0 \/ Pending(f)' # {}) => event[f].signatureValid
      <4>1. Cardinality(Pending(f)') <= Cardinality(Pending(f))
        BY <3>2, PendingCounts, FS_Subset
      <4>2. Budget(f) \in Nat /\ history[f].applied + Cardinality(Pending(f)) <= Budget(f)
        BY HistoryTyped DEF Budget, EventInv
      <4>3. history[f].applied + Cardinality(Pending(f)') <= Budget(f)
        BY <4>1, <4>2, PendingCounts, HistoryTyped
      <4> QED
        BY <3>2, <4>3 DEF EventInv
    <3>5. \A f \in Events : Budget(f)' = Budget(f)
      BY <1>2 DEF Budget
    <3> QED
      BY <1>2, <3>3, <3>4, <3>5 DEF EventInv
  <2> QED
    BY <1>2, <2>3, <2>4
<1>3. ASSUME NEW r \in Requests, NEW b \in Batches, upload(r, b) PROVE EventInv'
  BY <1>2, <1>3, ImportAssumption DEF upload
<1>4. ASSUME NEW r \in Requests, applyAsBatch(r) PROVE EventInv'
  <2>1. req[r].event \in Events /\ req[r].phase = "apply"
    BY <1>4, AtEvent DEF applyAsBatch, at
  <2> QED
    BY <1>2, <1>4, <2>1 DEF applyAsBatch, Underway
<1>5. ASSUME NEW r \in Requests, NEW b \in Batches, processValidRows(r, b) \/ cancelBatch(r, b) PROVE EventInv'
  BY <1>1, <1>5 DEF processValidRows, cancelBatch, working
<1>6. ASSUME NEW r \in Requests, parseRow(r) PROVE EventInv'
  <2>1. req[r] \in Working /\ req[r].phase = "parse"
    BY <1>6, AtWork DEF parseRow, at, BatchPhases
  <2>2. PICK T, n : become(r, [req[r] EXCEPT !.todo = T, !.failed = n])
    BY <1>6 DEF parseRow
  <2>3. PICK s : s = [req[r] EXCEPT !.todo = T, !.failed = n]
    OBVIOUS
  <2>4. s.phase = "parse" /\ s.event = req[r].event
    BY <2>1, <2>3 DEF Working
  <2>5. become(r, s)
    BY <2>2, <2>3
  <2>6. UNCHANGED <<history, event>>
    BY <1>6 DEF parseRow
  <2> QED
    BY <2>1, <2>4, <2>5, <2>6, EventShrinks DEF Underway
<1>7. ASSUME NEW r \in Requests, parsed(r) PROVE EventInv'
  <2>1. req[r] \in Working /\ req[r].phase = "parse" /\ req[r].event \in Events \cup {NoEvent}
    BY <1>7, AtWork DEF parsed, at, BatchPhases
  <2>2. CASE req[r].event = NoEvent
    BY <1>1, <1>7, <2>2 DEF parsed, Idle
  <2>3. CASE req[r].event # NoEvent
    <3>1. PICK s : s = [phase |-> "record", event |-> req[r].event, attempts |-> req[r].attempts, ok |-> TRUE]
      OBVIOUS
    <3>2. s.phase = "record" /\ s.event = req[r].event /\ become(r, s)
      BY <1>7, <2>3, <3>1 DEF parsed
    <3>3. history' = [history EXCEPT ![req[r].event].applied = @ + 1] /\ UNCHANGED event
      BY <1>7, <2>3 DEF parsed
    <3>4. PICK e \in Events : e = req[r].event
      BY <2>1, <2>3
    <3> QED
      BY <2>1, <3>2, <3>3, <3>4, EventApplied DEF Underway
  <2> QED
    BY <2>2, <2>3
<1>8. ASSUME NEW r \in Requests, validateAgain(r) \/ createInvoice(r) PROVE EventInv'
  <2>1. req[r] \in Working
    BY <1>8, AtWork DEF validateAgain, createInvoice, at, BatchPhases
  <2>2. PICK s \in {[req[r] EXCEPT !.phase = "create"], [req[r] EXCEPT !.phase = "mark"], failedRow(req[r])} :
          become(r, s)
    BY <1>8 DEF validateAgain, createInvoice
  <2>3. s.phase \in {"create", "mark", "row"}
    <3>1. CASE s = failedRow(req[r])
      BY <2>1, <3>1, NextRow
    <3>2. CASE s = [req[r] EXCEPT !.phase = "create"] \/ s = [req[r] EXCEPT !.phase = "mark"]
      BY <2>1, <3>2 DEF Working
    <3> QED
      BY <2>2, <3>1, <3>2
  <2>4. UNCHANGED <<history, event>>
    BY <1>8 DEF validateAgain, createInvoice
  <2> QED
    BY <1>1, <2>2, <2>3, <2>4
<1>9. ASSUME NEW r \in Requests, markImported(r) \/ auditFails(r) PROVE EventInv'
  <2>1. req[r] \in Working
    BY <1>9, AtWork DEF markImported, auditFails, at, BatchPhases
  <2>2. PICK s \in {[nextRow(req[r]) EXCEPT !.imported = @ + 1], [failedRow(req[r]) EXCEPT !.imported = @ + 1]} :
          become(r, s)
    BY <1>9 DEF markImported, auditFails
  <2>3. s.phase = "row"
    BY <2>1, <2>2, NextRow
  <2> QED
    BY <1>1, <1>9, <2>2, <2>3 DEF markImported, auditFails
<1>10. ASSUME NEW r \in Requests, processed(r) \/ skipRows(r) \/ writeInvoice(r) \/ crash(r) PROVE EventInv'
  BY <1>1, <1>10 DEF processed, skipRows, writeInvoice, crash, Idle
<1>11. ASSUME NEW r \in Requests, NEW op \in InvoiceOps, NEW i \in Invoices, readInvoice(r, op, i) PROVE EventInv'
  BY <1>1, <1>11 DEF readInvoice
<1>12. ASSUME NEW r \in Requests, NEW e \in Events, NEW signed \in BOOLEAN, processProviderWebhook(r, e, signed)
       PROVE  EventInv'
  BY <1>1, <1>12 DEF processProviderWebhook
<1>13. ASSUME NEW r \in Requests, storeEvent(r) PROVE EventInv'
  <2>1. PICK e \in Events, signed \in BOOLEAN :
          e = req[r].event /\ signed = req[r].signed /\ req[r].phase = "receive"
    BY <1>13, AtEvent DEF storeEvent, at
  <2>2. CASE event[e] # Absent
    BY <1>1, <1>13, <2>1, <2>2 DEF storeEvent, Idle
  <2>3. CASE event[e] = Absent
    <3>1. PICK st \in {"PENDING", "FAILED"} : st = IF signed THEN "PENDING" ELSE "FAILED"
      OBVIOUS
    <3>2. event' = [event EXCEPT ![e] = [status |-> st, attempts |-> 0, signatureValid |-> signed]]
      BY <1>13, <2>1, <2>3, <3>1 DEF storeEvent
    <3>3. /\ event'[e] = [status |-> st, attempts |-> 0, signatureValid |-> signed]
          /\ \A f \in Events \ {e} : event'[f] = event[f]
      BY <2>1, <3>2 DEF ImportType
    <3>4. event'[e] # Absent /\ event'[e].status = st /\ event'[e].signatureValid = signed
      BY <3>3 DEF Absent
    <3>5. UNCHANGED history
      BY <1>13 DEF storeEvent
    <3>6. CASE signed
      <4>1. PICK s : s = [phase |-> "replay", event |-> e]
        OBVIOUS
      <4>2. s.phase = "replay" /\ s.event = e /\ become(r, s)
        BY <1>13, <2>1, <2>3, <3>6, <4>1 DEF storeEvent
      <4>3. Budget(e) = history[e].retried /\ Budget(e)' = history[e].retried + 1
        BY <2>3, <3>4, <3>5, HistoryTyped DEF Budget
      <4>4. history'[e].retried \in Nat /\ event'[e].status # "PROCESSED" /\ event'[e].signatureValid
        BY <3>4, <3>5, <3>6, HistoryTyped
      <4>5. req[r].phase \notin Underway
        BY <2>1 DEF Underway
      <4> QED
        BY <3>3, <3>5, <4>2, <4>3, <4>4, <4>5, EventAdds
    <3>7. CASE ~signed
      <4>1. become(r, Idle)
        BY <1>13, <2>1, <2>3, <3>7 DEF storeEvent
      <4>2. Idle.phase \notin Underway /\ Idle.phase # "record"
        BY DEF Idle, Underway
      <4>3. \A f \in Events : event[f] # Absent =>
              event'[f] # Absent /\ event'[f].signatureValid = event[f].signatureValid
        BY <2>3, <3>3
      <4>4. \A f \in Events : event'[f] # Absent /\ event'[f].status = "PROCESSED" =>
              event[f] # Absent /\ event[f].status = "PROCESSED"
        BY <3>3, <3>4
      <4> QED
        BY <3>5, <4>1, <4>2, <4>3, <4>4, EventShrinks
    <3> QED
      BY <2>1, <3>6, <3>7
  <2> QED
    BY <2>2, <2>3
<1>14. ASSUME NEW r \in Requests, NEW e \in Events, retryProviderWebhookEvent(r, e) PROVE EventInv'
  <2>1. PICK s : s = [phase |-> "replay", event |-> e]
    OBVIOUS
  <2>2. s.phase = "replay" /\ s.event = e /\ become(r, s) /\ req[r].phase \notin Underway
    BY <1>14, <2>1 DEF retryProviderWebhookEvent, Idle, Underway
  <2>3. event[e] \in Event
    BY <1>14 DEF retryProviderWebhookEvent, ImportType
  <2>4. [event[e] EXCEPT !.status = "RETRYING"].status = "RETRYING" /\ [event[e] EXCEPT !.status = "RETRYING"] # Absent
    BY <2>3 DEF Event, Absent
  <2>5. event' = [event EXCEPT ![e] = [event[e] EXCEPT !.status = "RETRYING"]]
    BY <1>14 DEF retryProviderWebhookEvent
  <2>6. /\ event'[e].status = "RETRYING" /\ event'[e] # Absent
        /\ \A f \in Events \ {e} : event'[f] = event[f]
    BY <2>4, <2>5 DEF ImportType
  <2>7. [history[e] EXCEPT !.retried = @ + 1].retried = history[e].retried + 1
        /\ [history[e] EXCEPT !.retried = @ + 1].applied = history[e].applied
    BY DEF ImportType
  <2>8. /\ history'[e].retried = history[e].retried + 1 /\ history'[e].applied = history[e].applied
        /\ \A f \in Events \ {e} : history'[f] = history[f]
    BY <1>14, <2>7 DEF retryProviderWebhookEvent, ImportType
  <2>9. Budget(e)' = Budget(e) + 1 /\ history'[e].retried \in Nat /\ history'[e].retried # 0
    BY <1>14, <2>6, <2>8, HistoryTyped DEF Budget, retryProviderWebhookEvent
  <2> QED
    BY <2>2, <2>6, <2>8, <2>9, EventAdds
<1>15. ASSUME NEW r \in Requests, replay(r) PROVE EventInv'
  <2>1. PICK s : s = [phase |-> "apply", event |-> req[r].event, attempts |-> event[req[r].event].attempts + 1]
    OBVIOUS
  <2>2. s.phase = "apply" /\ s.event = req[r].event /\ become(r, s) /\ req[r].phase \in Underway
    BY <1>15, <2>1 DEF replay, at, Underway
  <2> QED
    BY <1>15, <2>2, EventShrinks DEF replay
<1>16. ASSUME NEW r \in Requests, applyToInvoice(r) PROVE EventInv'
  <2>1. req[r].event \in Events /\ req[r].phase \in Underway
    BY <1>16, AtEvent DEF applyToInvoice, at, Underway
  <2>2. CASE findInvoiceForCallback(req[r].event) = {}
    <3>1. PICK s : s = recording(r, FALSE)
      OBVIOUS
    <3>2. s.phase = "record" /\ ~s.ok /\ become(r, s) /\ UNCHANGED <<event, history>>
      BY <1>16, <2>2, <3>1 DEF applyToInvoice, recording
    <3> QED
      BY <3>2, EventShrinks DEF Underway
  <2>3. CASE findInvoiceForCallback(req[r].event) # {}
    <3>1. PICK s : s = recording(r, TRUE)
      OBVIOUS
    <3>2. s.phase = "record" /\ s.event = req[r].event /\ become(r, s)
      BY <1>16, <2>3, <3>1 DEF applyToInvoice, recording
    <3>3. history' = [history EXCEPT ![req[r].event].applied = @ + 1] /\ UNCHANGED event
      BY <1>16, <2>3 DEF applyToInvoice
    <3>4. PICK e \in Events : e = req[r].event
      BY <2>1
    <3> QED
      BY <2>1, <3>2, <3>3, <3>4, EventApplied
  <2> QED
    BY <2>2, <2>3
<1>17. ASSUME NEW r \in Requests, record(r) PROVE EventInv'
  <2>1. req[r].event \in Events
    BY <1>17, AtEvent DEF record
  <2>2. \A f \in Events : event[f] # Absent =>
          event'[f] # Absent /\ event'[f].signatureValid = event[f].signatureValid
    BY <1>17, RecordType, AtEvent DEF record, Event, Absent, ImportType
  <2>3. \A f \in Events : event'[f] # Absent /\ event'[f].status = "PROCESSED" =>
          (event[f] # Absent /\ event[f].status = "PROCESSED") \/ history[f].applied > 0
    BY <1>17, <2>1, RecordType DEF EventInv, record
  <2>4. become(r, Idle) /\ UNCHANGED history /\ Idle.phase \notin Underway /\ Idle.phase # "record"
    BY <1>17 DEF record, Idle, Underway
  <2> QED
    BY <2>2, <2>3, <2>4, EventShrinks
<1>18. CASE \/ \E i \in Invoices : finance(i)
            \/ \E s \in Suppliers : addParticipant(s)
            \/ UNCHANGED vars
  BY <1>18, EventElsewhere DEF finance, addParticipant, vars
<1>19. ASSUME NEW r \in Requests, NEW i \in Invoices, NEW p \in Patches, readPatched(r, i, p) PROVE EventInv'
  BY <1>1, <1>19 DEF readPatched
<1>20. ASSUME NEW r \in Requests, update(r) PROVE EventInv'
  BY <1>20, EventUpdated
<1> QED
  BY <1>3, <1>4, <1>5, <1>6, <1>7, <1>8, <1>9, <1>10, <1>11, <1>12, <1>13, <1>14, <1>15, <1>16,
     <1>17, <1>18, <1>19, <1>20 DEF Next, Proceed

\* processProviderWebhook: an event is applied at most once and once per retry,
\* only proven or retried, and called processed only if it was applied.
THEOREM EventsTakeEffectOnce == Spec => []EventsAppliedOnce
  BY InitType, StepType, EventInit, EventProgress, EventImplies, PTL DEF Spec
=============================================================================
