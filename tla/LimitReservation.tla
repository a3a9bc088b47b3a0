--------------------------- MODULE LimitReservation ---------------------------
(***************************************************************************)
(* The limit records that apps/api/src/financing/financing.service.ts moves *)
(* inside its transactions: accept reserves, fund utilises, collect and     *)
(* remove release, on the programme, the anchor, the supplier and the       *)
(* funders of one programme.                                               *)
(*                                                                         *)
(* PostgreSQL runs the transactions at READ COMMITTED: a SELECT sees what   *)
(* is committed when it runs and what its own transaction has written; an   *)
(* UPDATE locks its row until the end of its transaction and waits for the  *)
(* lock of another.  moveLimitAmount reads a record, computes, and writes   *)
(* absolute amounts, so what was committed between the two is overwritten.  *)
(*                                                                         *)
(* Requests on one financing do not overlap here, module Financing studies  *)
(* that; requests on different financings compete for the same records.     *)
(***************************************************************************)
EXTENDS Integers, Sequences, FiniteSetsExt

CONSTANTS
  Financings, Requests,
  Programme,        \* the dimension PROGRAMME
  AnchorOf,         \* buyer and supplier of each financing: the dimensions
  SupplierOf,       \*   ANCHOR and SUPPLIER
  Funders,          \* the active funders, in the order the query returns them
  Amount,           \* invoiceAmount of each financing
  Share,            \* moneyString(perFunder)
  ConfiguredLimit,  \* limit of each dimension in the programme, 0 for none
  Seeded,           \* dimensions that have a limit record from the start, where
                    \*   transactions follow one another and where they overlap
  Failures          \* a transaction may fail for a reason of its own

FunderSet == {Funders[k] : k \in 1..Len(Funders)}
CoreDimensions == {Programme} \cup {AnchorOf[f] : f \in Financings}
                              \cup {SupplierOf[f] : f \in Financings}
Dimensions == CoreDimensions \cup FunderSet

\* The scope of a record tells the programme, the anchors, the suppliers and the
\* funders apart, and a counterparty funds a programme once.
DimensionsDiffer ==
  /\ Programme \notin FunderSet
  /\ \A f \in Financings : /\ {AnchorOf[f], SupplierOf[f]} \cap ({Programme} \cup FunderSet) = {}
                           /\ \A g \in Financings : AnchorOf[f] # SupplierOf[g]
  /\ Funders \in Seq(FunderSet)
  /\ \A j, k \in 1..Len(Funders) : Funders[j] = Funders[k] => j = k

ASSUME LimitAssumption ==
  /\ DimensionsDiffer
  /\ IsFiniteSet(Financings)
  /\ Amount \in [Financings -> Nat \ {0}]
  /\ Share \in [Financings -> Nat \ {0}]
  /\ ConfiguredLimit \in [Dimensions -> Nat]
  /\ Seeded \in [BOOLEAN -> SUBSET {d \in Dimensions : ConfiguredLimit[d] > 0}]
  /\ "seed" \notin Requests
  /\ Failures \in BOOLEAN

\* A record is known by its dimension and by who created it.
Rows == Dimensions \X (Requests \cup {"seed"})
LimitRecord == [limit : Nat, reserved : Nat, utilised : Nat]
\* Neither a record nor a row.
NoRecord == [limit |-> 0, reserved |-> 0, utilised |-> 0]
NoRow == <<Programme, "seed">>

VARIABLES
  status,       \* of each financing, as committed
  allocations,  \* funding allocations per funder of each financing
  limitRecord,  \* the committed records
  createdAt,    \* when each record was created, 0 for those of the start
  snapshot,     \* the last exposure snapshot of each dimension
  req,          \* the transactions in progress
  alone         \* whether transactions follow one another in this behaviour

vars == <<status, allocations, limitRecord, createdAt, snapshot, req, alone>>

FinancingStatus == {"OFFERED", "ACCEPTED", "FUNDED", "DISBURSED", "COLLECTED", "CANCELLED"}
Ops == {"accept", "fund", "disburse", "collect", "remove"}

Idle == [phase |-> "idle"]

\* One statement of a transaction on a limit record.
Step == [kind : {"ensure", "move"}, dimension : Dimensions,
         reserved : Int, utilised : Int, requireAvailability : BOOLEAN]
InTransaction ==
  [phase : {"next", "write"}, op : Ops, target : Financings,
   todo : Seq(Step),                   \* statements to come
   row : Rows, seen : LimitRecord,     \* in phase "write": the record as read
   writes : [Rows -> LimitRecord]]     \* written and not committed

TypeOK ==
  /\ status \in [Financings -> FinancingStatus]
  /\ allocations \in [Financings -> Nat]
  /\ limitRecord \in [Rows -> LimitRecord]
  /\ createdAt \in [Rows -> Nat]
  /\ snapshot \in [Dimensions -> Nat]
  /\ req \in [Requests -> {Idle} \cup InTransaction]
  /\ alone \in BOOLEAN

newRecord(d) == [limit |-> ConfiguredLimit[d], reserved |-> 0, utilised |-> 0]
NothingWritten == [row \in Rows |-> NoRecord]

Init ==
  /\ alone \in BOOLEAN
  /\ status = [f \in Financings |-> "OFFERED"]
  /\ allocations = [f \in Financings |-> 0]
  /\ limitRecord = [row \in Rows |->
                      IF row[2] = "seed" /\ row[1] \in Seeded[alone] THEN newRecord(row[1])
                                                              ELSE NoRecord]
  /\ createdAt = [row \in Rows |-> 0]
  /\ snapshot = [d \in Dimensions |-> 0]
  /\ req = [r \in Requests |-> Idle]
-----------------------------------------------------------------------------
(* What each handler does to the limits *)

\* Mutation: the supplier before the anchor and the programme.
reversedDimensions(f) == <<SupplierOf[f], AnchorOf[f], Programme>>

coreLimitDimensions(f) == <<Programme, AnchorOf[f], SupplierOf[f]>>

ensure(d) == [kind |-> "ensure", dimension |-> d, reserved |-> 0,
              utilised |-> 0, requireAvailability |-> FALSE]
move(d, reserved, utilised) ==
  [kind |-> "move", dimension |-> d, reserved |-> reserved,
   utilised |-> utilised, requireAvailability |-> FALSE]
moveIfAvailable(d, reserved, utilised) ==
  [move(d, reserved, utilised) EXCEPT !.requireAvailability = TRUE]

onCore(f, Make(_)) == [k \in 1..3 |-> Make(coreLimitDimensions(f)[k])]
onFunders(Make(_)) == [k \in 1..Len(Funders) |-> Make(Funders[k])]

\* Mutation: what is reserved is not checked against what is available.
reserveUnchecked(f) ==
  onCore(f, ensure) \o onCore(f, LAMBDA d : move(d, Amount[f], 0))

reserveCoreLimits(f) ==
  onCore(f, ensure) \o onCore(f, LAMBDA d : moveIfAvailable(d, Amount[f], 0))

utiliseCoreLimits(f) == onCore(f, LAMBDA d : move(d, -Amount[f], Amount[f]))

\* Mutation: released from the supplier to the programme.
releaseFromTheSupplier(f, bucket) ==
  [k \in 1..3 |-> IF bucket = "reserved"
                  THEN move(reversedDimensions(f)[k], -Amount[f], 0)
                  ELSE move(reversedDimensions(f)[k], 0, -Amount[f])]

releaseCoreLimits(f, bucket) ==
  IF bucket = "reserved" THEN onCore(f, LAMBDA d : move(d, -Amount[f], 0))
                         ELSE onCore(f, LAMBDA d : move(d, 0, -Amount[f]))

\* utiliseFunderLimit for each funder: ensure, then move.
utiliseFunderLimits(f) ==
  [k \in 1 .. 2 * Len(Funders) |->
     LET d == Funders[(k + 1) \div 2]
     IN IF k % 2 = 1 THEN ensure(d) ELSE moveIfAvailable(d, 0, Share[f])]

releaseFunderLimits(f) ==
  IF allocations[f] = 0 THEN <<>> ELSE onFunders(LAMBDA d : move(d, 0, -Share[f]))

plan(op, f) ==
  CASE op = "accept"   -> reserveCoreLimits(f)
    [] op = "fund"     -> utiliseCoreLimits(f) \o utiliseFunderLimits(f)
    [] op = "disburse" -> <<>>
    [] op = "collect"  -> releaseCoreLimits(f, "utilised") \o releaseFunderLimits(f)
    [] op = "remove"   -> IF status[f] = "ACCEPTED" THEN releaseCoreLimits(f, "reserved")
                                                    ELSE <<>>

AllowedFrom == [accept |-> {"OFFERED"}, fund |-> {"ACCEPTED"}, disburse |-> {"FUNDED"},
                collect |-> {"DISBURSED"},
                remove |-> {"OFFERED", "ACCEPTED", "FUNDED", "CANCELLED"}]
StatusAfter == [accept |-> "ACCEPTED", fund |-> "FUNDED", disburse |-> "DISBURSED",
                collect |-> "COLLECTED", remove |-> "CANCELLED"]
-----------------------------------------------------------------------------
(* Transactions *)

Busy(f) == \E r \in Requests : req[r] # Idle /\ req[r].target = f

begin(r, op, f) ==
  /\ req[r] = Idle /\ ~Busy(f)
  /\ alone => \A u \in Requests : req[u] = Idle
  /\ status[f] \in AllowedFrom[op]
  /\ op = "fund" => Funders # <<>>
  /\ req' = [req EXCEPT ![r] =
               [phase |-> "next", op |-> op, target |-> f, todo |-> plan(op, f),
                row |-> NoRow, seen |-> NoRecord, writes |-> NothingWritten]]
  /\ UNCHANGED <<status, allocations, limitRecord, createdAt, snapshot, alone>>

\* What a SELECT of r finds in a row.
visible(r, row) == IF req[r].writes[row] # NoRecord THEN req[r].writes[row]
                                                    ELSE limitRecord[row]

recordsOf(r, d) == {row \in Rows : row[1] = d /\ visible(r, row) # NoRecord}

\* findFirst ordered by createdAt, descending.
latest(r, d) == CHOOSE row \in recordsOf(r, d) :
                  \A other \in recordsOf(r, d) : createdAt[other] <= createdAt[row]

\* now(), the default of createdAt: later than every record there is.
now == 1 + Max({createdAt[row] : row \in Rows})

nextIs(r, kind) ==
  /\ req[r] # Idle /\ req[r].phase = "next" /\ req[r].todo # <<>>
  /\ Head(req[r].todo).kind = kind

\* Mutation: a record is created without looking for one.
createConfiguredLimit(r) ==
  LET d == Head(req[r].todo).dimension
  IN /\ nextIs(r, "ensure") /\ <<d, r>> \notin recordsOf(r, d)
     /\ req' = [req EXCEPT ![r].todo = Tail(@),
                           ![r].writes[<<d, r>>] = newRecord(d)]
     /\ createdAt' = [createdAt EXCEPT ![<<d, r>>] = now]
     /\ UNCHANGED <<status, allocations, limitRecord, snapshot, alone>>

ensureConfiguredLimit(r) ==
  LET d == Head(req[r].todo).dimension
  IN /\ nextIs(r, "ensure")
     /\ IF ConfiguredLimit[d] = 0 \/ recordsOf(r, d) # {}
        THEN /\ req' = [req EXCEPT ![r].todo = Tail(@)]
             /\ UNCHANGED createdAt
        ELSE /\ req' = [req EXCEPT ![r].todo = Tail(@),
                                   ![r].writes[<<d, r>>] = newRecord(d)]
             /\ createdAt' = [createdAt EXCEPT ![<<d, r>>] = now]
     /\ UNCHANGED <<status, allocations, limitRecord, snapshot, alone>>

Available(l) == l.limit - l.reserved - l.utilised

\* A checked movement only ever adds, so what it adds is what is requested.
breaches(s, l) == s.requireAvailability /\ Available(l) < s.reserved + s.utilised

\* The read of moveLimitAmount: without a record there is nothing to move.
readLimit(r) ==
  LET s == Head(req[r].todo)  row == latest(r, s.dimension)
  IN /\ nextIs(r, "move")
     /\ IF recordsOf(r, s.dimension) = {}
        THEN req' = [req EXCEPT ![r].todo = Tail(@)]
        ELSE /\ ~breaches(s, visible(r, row))
             /\ req' = [req EXCEPT ![r].phase = "write", ![r].row = row,
                                   ![r].seen = visible(r, row)]
     /\ UNCHANGED <<status, allocations, limitRecord, createdAt, snapshot, alone>>

lockedByOther(r, row) ==
  \E u \in Requests \ {r} : req[u] # Idle /\ req[u].writes[row] # NoRecord

\* Mutation: amounts may become negative.
unclamped(a, b) == b

decimalMax(a, b) == IF a >= b THEN a ELSE b

\* The update of moveLimitAmount, once the row is not locked by another.
writeLimit(r) ==
  LET s == Head(req[r].todo)  row == req[r].row  l == req[r].seen
  IN /\ req[r] # Idle /\ req[r].phase = "write"
     /\ ~lockedByOther(r, row)
     /\ req' = [req EXCEPT
                  ![r].phase = "next", ![r].todo = Tail(@),
                  ![r].row = NoRow, ![r].seen = NoRecord,
                  ![r].writes[row] = [limit |-> l.limit,
                                      reserved |-> decimalMax(0, l.reserved + s.reserved),
                                      utilised |-> decimalMax(0, l.utilised + s.utilised)]]
     /\ UNCHANGED <<status, allocations, limitRecord, createdAt, snapshot, alone>>
-----------------------------------------------------------------------------
(* Exposure snapshots and the end of a transaction *)

onDimension(f, d) == d \in {Programme, AnchorOf[f], SupplierOf[f]}
Exposed == {"ACCEPTED", "FUNDED", "DISBURSED"}

\* What each funder has allocated to each financing.
allocated(al) == [f \in Financings |-> Share[f] * al[f]]

\* transactionExposureAmount and funderExposureAmount
exposureAmount(d, st, al) ==
  IF d \in FunderSet
  THEN MapThenSumSet(LAMBDA f : allocated(al)[f],
                     {f \in Financings : st[f] \in {"FUNDED", "DISBURSED"}})
  ELSE MapThenSumSet(LAMBDA f : Amount[f],
                     {f \in Financings : onDimension(f, d) /\ st[f] \in Exposed})

\* The dimensions refreshExposureSnapshots writes: the funders of the
\* allocations the handler read before its transaction.
refreshed(op, f) ==
  IF op = "remove" THEN {}
  ELSE {Programme, AnchorOf[f], SupplierOf[f]}
         \cup (IF allocations[f] = 0 THEN {} ELSE FunderSet)

\* The handler writes the status of the financing and its exposure snapshots,
\* and the transaction commits.  accept refreshes the snapshots first.
commit(r) ==
  LET f == req[r].target  op == req[r].op
      moved == [status EXCEPT ![f] = StatusAfter[op]]
  IN /\ req[r] # Idle /\ req[r].phase = "next" /\ req[r].todo = <<>>
     /\ status' = moved
     /\ allocations' = IF op = "fund" THEN [allocations EXCEPT ![f] = @ + 1] ELSE allocations
     /\ limitRecord' = [row \in Rows |-> visible(r, row)]
     /\ snapshot' = [d \in Dimensions |->
                       IF d \notin refreshed(op, f) THEN snapshot[d]
                       ELSE exposureAmount(d, IF op = "accept" THEN status ELSE moved,
                                           allocations)]
     /\ req' = [req EXCEPT ![r] = Idle]
     /\ UNCHANGED <<createdAt, alone>>

endWithout(r) ==
  /\ createdAt' = [row \in Rows |-> IF req[r].writes[row] # NoRecord /\ limitRecord[row] = NoRecord
                                   THEN 0 ELSE createdAt[row]]
  /\ req' = [req EXCEPT ![r] = Idle]
  /\ UNCHANGED <<status, allocations, limitRecord, snapshot, alone>>

\* moveLimitAmount throws when less is available than requested, and the
\* transaction is rolled back.
limitBreached(r) ==
  LET s == Head(req[r].todo)
  IN /\ nextIs(r, "move")
     /\ recordsOf(r, s.dimension) # {}
     /\ breaches(s, visible(r, latest(r, s.dimension)))
     /\ endWithout(r)

\* Any other failure: a connection is lost, the process stops.
rollback(r) == Failures /\ req[r] # Idle /\ endWithout(r)

Proceed(r) ==
  \/ ensureConfiguredLimit(r) \/ readLimit(r) \/ writeLimit(r) \/ limitBreached(r)
  \/ commit(r)

Next ==
  \E r \in Requests :
    \/ \E op \in Ops, f \in Financings : begin(r, op, f)
    \/ Proceed(r) \/ rollback(r)

Spec == Init /\ [][Next]_vars
-----------------------------------------------------------------------------
(* Properties *)

AmountIn(statuses, d) ==
  MapThenSumSet(LAMBDA f : Amount[f],
                {f \in Financings : onDimension(f, d) /\ status[f] \in statuses})

Records(d) == {row \in Rows : row[1] = d /\ limitRecord[row] # NoRecord}

\* The lock on the programme's record, held from its update to the commit,
\* serialises everything that follows it: on the anchors and the suppliers no
\* reservation is ever lost, doubled or left behind, and no utilisation is
\* understated.
ReservationsMatchStatus ==
  \A d \in CoreDimensions \ {Programme} : \A row \in Records(d) :
    /\ limitRecord[row].reserved = AmountIn({"ACCEPTED"}, d)
    /\ limitRecord[row].utilised >= AmountIn({"FUNDED", "DISBURSED"}, d)

\* However many financings are accepted and funded together, those of one
\* anchor, one supplier or one funder never exceed its limit.
WithinLimit ==
  \A d \in Dimensions \ {Programme} : ConfiguredLimit[d] > 0 =>
    IF d \in FunderSet
    THEN MapThenSumSet(LAMBDA f : allocated(allocations)[f],
                       {f \in Financings : status[f] \in {"FUNDED", "DISBURSED"}})
           <= ConfiguredLimit[d]
    ELSE AmountIn(Exposed, d) <= ConfiguredLimit[d]

\* The same of the programme itself, "over-limit flow is rejected", where no
\* transactions overlap: its record is read before any lock is held.
ProgrammeWithinLimit ==
  alone => AmountIn(Exposed, Programme) <= ConfiguredLimit[Programme]

\* One record per dimension, where no transactions overlap:
\* ensureConfiguredLimit looks before it creates.
OneRecordPerDimension ==
  alone => \A d \in Dimensions : Cardinality(Records(d)) <= 1

\* r is about to update a row that u has updated and not committed.
waitsFor(r, u) ==
  /\ req[r] # Idle /\ req[r].phase = "write"
  /\ u # r /\ req[u] # Idle /\ req[u].writes[req[r].row] # NoRecord

\* Every handler takes the records in one order, programme, anchor, supplier,
\* funders: no transactions ever wait for each other in a circle.
NoCircularWait ==
  \A waiting \in (SUBSET Requests) \ {{}} :
    \E r \in waiting : \A u \in waiting : ~waitsFor(r, u)

\* The limit records stay right through every mixture of movements: exact for
\* what is accepted and funded, within every limit, one for each dimension.
LimitsHold == ReservationsMatchStatus /\ WithinLimit /\ ProgrammeWithinLimit /\ OneRecordPerDimension
=============================================================================
