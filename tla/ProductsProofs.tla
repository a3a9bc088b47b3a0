---------------------------- MODULE ProductsProofs ----------------------------
(***************************************************************************)
(* Proofs about Products for any records, users, approvals, keys, requests *)
(* and inputs, with requests that overlap, stop half-way and repeat.       *)
(***************************************************************************)
EXTENDS Products, SumTheorems, TLAPS

USE ProductsAssumption

(***************************************************************************)
(* What kinds, statuses and targets there are.                             *)
(***************************************************************************)

LEMMA KindIsKnown ==
  ASSUME NEW x \in Records
  PROVE  Kind(x) \in Kinds
  BY DEF Kind

AnyStatus == UNION {Statuses[k] : k \in Kinds}

LEMMA StatusIsAny ==
  ASSUME NEW k \in Kinds
  PROVE  Statuses[k] \subseteq AnyStatus /\ Row(k) \subseteq RowWith(AnyStatus)
  BY DEF AnyStatus, Row, RowWith

\* An action leads to a status of the record's kind.
LEMMA TargetIsStatus ==
  ASSUME NEW k \in Kinds, NEW a \in DOMAIN Target[k]
  PROVE  /\ Target[k][a] \in Statuses[k]
         /\ a \in Actions /\ a # "utilise"
  <1>1. CASE k = "offer"
    <2>1. a \in {"accept", "settle", "cancel"}
      BY <1>1 DEF Target
    <2> QED
      BY <1>1, <2>1 DEF Target, Statuses, Actions
  <1>2. CASE k = "facility"
    <2>1. a \in {"approve", "activate", "suspend", "close"}
      BY <1>2 DEF Target
    <2> QED
      BY <1>2, <2>1 DEF Target, Statuses, Actions
  <1>3. CASE k = "bid"
    <2>1. a \in {"confirm", "allocate", "withdraw"}
      BY <1>3 DEF Target
    <2> QED
      BY <1>3, <2>1 DEF Target, Statuses, Actions
  <1>4. CASE k = "scorecard"
    <2>1. a \in {"review", "activate", "expire"}
      BY <1>4 DEF Target
    <2> QED
      BY <1>4, <2>1 DEF Target, Statuses, Actions
  <1>5. CASE k = "signal"
    <2>1. a \in {"review", "resolve", "dismiss"}
      BY <1>5 DEF Target
    <2> QED
      BY <1>5, <2>1 DEF Target, Statuses, Actions
  <1>6. CASE k = "report"
    <2>1. a \in {"generate", "publish", "archive"}
      BY <1>6 DEF Target
    <2> QED
      BY <1>6, <2>1 DEF Target, Statuses, Actions
  <1> QED
    BY <1>1, <1>2, <1>3, <1>4, <1>5, <1>6 DEF Kinds

LEMMA RowFields ==
  ASSUME NEW S, NEW w \in RowWith(S)
  PROVE  /\ w.status \in S /\ w.amount \in Int /\ w.part \in Int /\ w.net \in Int
         /\ DOMAIN w = {"status", "amount", "part", "net"}
         /\ w # NoRow /\ w # Removed
  BY DEF RowWith, NoRow, Removed

\* What is sent, laid over a record, is a record.
LEMMA OverIsRow ==
  ASSUME NEW k, NEW base \in Row(k), NEW fields, Fits(fields, k)
  PROVE  /\ over(fields, base) \in Row(k)
         /\ \A f \in {"status", "amount", "part", "net"} :
              over(fields, base)[f] = IF f \in DOMAIN fields THEN fields[f] ELSE base[f]
  <1>1. DOMAIN base = {"status", "amount", "part", "net"}
    BY DEF Row, RowWith
  <1>2. over(fields, base) = [f \in {"status", "amount", "part", "net"} |->
                                IF f \in DOMAIN fields THEN fields[f] ELSE base[f]]
    BY <1>1 DEF over
  <1> DEFINE o == over(fields, base)
  <1>3. o.status \in Statuses[k] /\ o.amount \in Int /\ o.part \in Int /\ o.net \in Int
    BY <1>2 DEF Row, RowWith, Fits
  <1>4. o = [status |-> o.status, amount |-> o.amount, part |-> o.part, net |-> o.net]
    BY <1>2
  <1> QED
    BY <1>2, <1>3, <1>4 DEF Row, RowWith

LEMMA CreatedIsRow ==
  ASSUME NEW x \in Records, NEW data \in Inputs[x]
  PROVE  /\ applyCalculatedDefaults(Kind(x), data) \in Row(Kind(x))
         /\ applyCalculatedDefaults(Kind(x), data).status = data.status
  <1> DEFINE d == DiscountOf(data.amount)
             zero == [status |-> data.status, amount |-> data.amount, part |-> 0, net |-> 0]
             calc == calculateRecord(Kind(x), data)
             base == over(calc, zero)
  <1>1. /\ Fits(data, Kind(x)) /\ data.status \in Statuses[Kind(x)] /\ data.amount \in Int
        /\ d \in Int /\ "status" \in DOMAIN data
    BY DEF Fits, Kind
  <1>2. zero \in Row(Kind(x))
    BY <1>1 DEF Row, RowWith
  <1>3. Fits(calc, Kind(x))
    <2>1. DOMAIN calc = {"part", "net"} /\ calc.part \in Int /\ calc.net \in Int
      BY <1>1 DEF calculateRecord
    <2> QED
      BY <2>1 DEF Fits
  <1>4. base \in Row(Kind(x))
    BY <1>2, <1>3, OverIsRow
  <1>5. applyCalculatedDefaults(Kind(x), data) = over(data, base)
    BY DEF applyCalculatedDefaults
  <1> HIDE DEF base
  <1> QED
    BY <1>1, <1>4, <1>5, OverIsRow
-----------------------------------------------------------------------------
(***************************************************************************)
(* Types.  A record keeps the status of its kind, and a request what it    *)
(* has read and decided.                                                   *)
(***************************************************************************)

Editing == [phase : {"edit"}, record : Records, fields : UNION {Edits[k] : k \in Kinds}]
Served == {Idle} \cup Executing \cup Editing \cup Acting

DataTypes ==
  /\ row \in [Records -> {NoRow, Removed} \cup RowWith(AnyStatus)]
  /\ \A x \in Records : Exists(x) => row[x] \in Row(Kind(x))
  /\ ledger \in [Records -> Seq(Int)]
  /\ limits \in [Dimensions -> Seq(Limit)]
  /\ exposures \in [Records -> Nat]
  /\ stored \subseteq Records \X Keys
  /\ expired \subseteq Records
  /\ approval \in [Approvals -> {NoApproval} \cup Approval]
  /\ uses \in [Records -> [Keys \cup {NoKey} -> 0..MaxUses]]
  /\ scope \in Scopes

\* What a request for an action has read and decided.
Decided(q) ==
  /\ row[q.record] # NoRow
  /\ q.skip => "skip" \in scope
  /\ q.key # NoKey => q.key \in Keys
  /\ IF q.action = "utilise" THEN Kind(q.record) = "facility"
                             ELSE q.action \in DOMAIN Target[Kind(q.record)]
  /\ q.phase = "write" =>
       /\ q.patch \in RowWith(AnyStatus)
       /\ q.action # "utilise" => q.patch.status = Target[Kind(q.record)][q.action]

Right(q) ==
  /\ q.phase = "edit" => "edit" \in scope /\ q.fields \in Edits[Kind(q.record)]
                           /\ row[q.record] # NoRow
  /\ q.phase \in {"execute", "mark"} => "approve" \in scope /\ approval[q.approval] \in Approval
                                      /\ approval[q.approval].by # q.by
  /\ q.phase \in {"read", "ask", "write", "store"} => Decided(q)

Serving == req \in [Requests -> Served] /\ \A r \in Requests : Right(req[r])

LEMMA InitTypes ==
  ASSUME Init
  PROVE  DataTypes /\ Serving
  BY DEF Init, DataTypes, Serving, Right, Served, Idle, Exists

LEMMA ServedFields ==
  ASSUME NEW q \in Served
  PROVE  /\ q.phase = "edit" => q \in Editing
         /\ q.phase \in {"execute", "mark"} => q \in Executing
         /\ q.phase \in {"read", "ask", "write", "store"} => q \in Acting
         /\ q # Idle => q.phase \in {"edit", "execute", "mark", "read", "ask", "write", "store"}
  BY DEF Served, Idle, Executing, Editing, Acting

LEMMA KeyUse ==
  ASSUME DataTypes, NEW x \in Records, Uses(x) < MaxUses, NEW key \in Keys \cup {NoKey}
  PROVE  uses[x][key] + 1 \in 0..MaxUses
  <1> DEFINE U == Keys \cup {NoKey}
             f == uses[x]
             F(k) == uses[x][k]
  <1>1. IsFiniteSet(U)
    BY FS_AddElement
  <1>2. Uses(x) = MapThenSumSet(F, U)
    BY DEF Uses, MapThenSumSet, MapThenFoldSet
  <1>3. Uses(x) = Total(f, U)
    BY <1>2 DEF Total, MapThenSumSet, MapThenFoldSet
  <1>4. \A k \in U : f[k] \in Nat
    BY DEF DataTypes
  <1>5. Total(f, U) = f[key] + Total(f, U \ {key})
    BY <1>1, <1>4, TotalRemove
  <1>6. Total(f, U \ {key}) \in Nat
    <2>1. IsFiniteSet(U \ {key})
      BY <1>1, FS_RemoveElement
    <2> QED
      BY <1>4, <2>1, TotalType
  <1>7. f[key] + 1 <= MaxUses
    <2> HIDE DEF U, f
    <2> QED
      BY <1>3, <1>4, <1>5, <1>6 DEF U
  <1> QED
    BY <1>4, <1>7

LEMMA UsedType ==
  ASSUME DataTypes, NEW x \in Records, Uses(x) < MaxUses, NEW key \in Keys \cup {NoKey}, used(x, key)
  PROVE  /\ uses' \in [Records -> [Keys \cup {NoKey} -> 0..MaxUses]]
         /\ \A y \in Records, k \in Keys \cup {NoKey} :
              uses'[y][k] = IF y = x /\ k = key THEN uses[y][k] + 1 ELSE uses[y][k]
  <1>1. uses[x][key] + 1 \in 0..MaxUses
    BY KeyUse
  <1>2. uses' = [uses EXCEPT ![x] = [uses[x] EXCEPT ![key] = uses[x][key] + 1]]
    BY DEF used, DataTypes
  <1>3. [uses[x] EXCEPT ![key] = uses[x][key] + 1] \in [Keys \cup {NoKey} -> 0..MaxUses]
    BY <1>1 DEF DataTypes
  <1> QED
    BY <1>2, <1>3 DEF DataTypes

LEMMA DimensionOfFacility ==
  ASSUME NEW x \in Records, Kind(x) = "facility"
  PROVE  DimensionOf[x] \in Dimensions /\ DimensionOf[x] \in Matching(DimensionOf[x])
  <1>1. DimensionOf[x] \in Dimensions
    BY ProductsAssumption DEF Dimensions, Kind
  <1> QED
    BY <1>1 DEF Matching

LEMMA RowWritten ==
  ASSUME DataTypes, NEW x \in Records, NEW new,
         row' = [row EXCEPT ![x] = new], new = Removed \/ new \in Row(Kind(x))
  PROVE  /\ row' \in [Records -> {NoRow, Removed} \cup RowWith(AnyStatus)]
         /\ \A y \in Records : Exists(y)' => row'[y] \in Row(Kind(y))
         /\ \A y \in Records : row[y] # NoRow => row'[y] # NoRow
         /\ row'[x] = new /\ \A y \in Records \ {x} : row'[y] = row[y]
  <1>1. new \in {NoRow, Removed} \cup RowWith(AnyStatus) /\ new # NoRow
    BY KindIsKnown, StatusIsAny DEF Row, RowWith, NoRow, Removed
  <1>2. \A y \in Records : row'[y] = IF y = x THEN new ELSE row[y]
    BY DEF DataTypes
  <1>3. row' \in [Records -> {NoRow, Removed} \cup RowWith(AnyStatus)]
    BY <1>1 DEF DataTypes
  <1> QED
    BY <1>1, <1>2, <1>3 DEF DataTypes, Exists

\* A status of its kind, or another amount in use, leaves a record a record.
LEMMA StatusWritten ==
  ASSUME NEW k, NEW w \in Row(k), NEW s \in Statuses[k]
  PROVE  [w EXCEPT !.status = s] \in Row(k)
  BY DEF Row, RowWith

LEMMA PatchedIsRow ==
  ASSUME DataTypes, Serving, NEW r \in Requests, req[r].phase = "write", Exists(req[r].record)
  PROVE  LET q == req[r]  x == q.record  new == patched(x, q.action, q.patch)
         IN /\ q \in Acting /\ x \in Records /\ Decided(q)
            /\ q.patch \in RowWith(AnyStatus)
            /\ row[x] \in Row(Kind(x)) /\ new \in Row(Kind(x))
            /\ new.amount = row[x].amount /\ new.net = row[x].net
            /\ q.action = "utilise" => /\ Kind(x) = "facility"
                                       /\ new.status = row[x].status /\ new.part = q.patch.part
            /\ q.action # "utilise" => /\ q.action \in DOMAIN Target[Kind(x)]
                                       /\ new.status = Target[Kind(x)][q.action]
                                       /\ new.part = row[x].part
  <1> DEFINE q == req[r]
             x == q.record
  <1>1. q \in Acting /\ x \in Records /\ Decided(q)
    BY ServedFields DEF Serving, Right, Acting
  <1>2. row[x] \in Row(Kind(x)) /\ q.patch \in RowWith(AnyStatus) /\ Kind(x) \in Kinds
    BY <1>1, KindIsKnown DEF DataTypes, Decided
  <1>3. CASE q.action = "utilise"
    <2>1. patched(x, q.action, q.patch) = [row[x] EXCEPT !.part = q.patch.part]
      BY <1>3 DEF patched
    <2>2. q.patch.part \in Int
      BY <1>2 DEF RowWith
    <2> HIDE DEF q, x
    <2> QED
      BY <1>1, <1>2, <1>3, <2>1, <2>2 DEF Row, RowWith, Decided, q, x
  <1>4. CASE q.action # "utilise"
    <2>1. /\ q.action \in DOMAIN Target[Kind(x)]
          /\ q.patch.status = Target[Kind(x)][q.action]
      BY <1>1, <1>4 DEF Decided
    <2>2. Target[Kind(x)][q.action] \in Statuses[Kind(x)]
      BY <1>2, <2>1, TargetIsStatus
    <2>3. patched(x, q.action, q.patch) = [row[x] EXCEPT !.status = Target[Kind(x)][q.action]]
      BY <1>4, <2>1 DEF patched
    <2> HIDE DEF q, x
    <2> QED
      BY <1>1, <1>2, <1>4, <2>1, <2>2, <2>3 DEF Row, RowWith, q, x
  <1> QED
    BY <1>3, <1>4

LEMMA ExecutedIsRow ==
  ASSUME DataTypes, Serving, NEW r \in Requests, req[r].phase = "execute",
         executable(approval[req[r].approval].record, approval[req[r].approval].action)
  PROVE  LET x == approval[req[r].approval].record  act == approval[req[r].approval].action
             new == [row[x] EXCEPT !.status = Target[Kind(x)][act]]
         IN /\ req[r] \in Executing /\ x \in Records /\ Exists(x) /\ "approve" \in scope
            /\ approval[req[r].approval] \in Approval
            /\ act \in DOMAIN Target[Kind(x)] /\ act # "utilise"
            /\ row[x] \in Row(Kind(x)) /\ new \in Row(Kind(x))
            /\ new.amount = row[x].amount /\ new.net = row[x].net /\ new.part = row[x].part
            /\ new.status = Target[Kind(x)][act]
  <1> DEFINE x == approval[req[r].approval].record
             act == approval[req[r].approval].action
             t == Target[Kind(x)][act]
  <1>1. req[r] \in Executing /\ approval[req[r].approval] \in Approval /\ "approve" \in scope
    BY ServedFields DEF Serving, Right
  <1>2. x \in Records /\ Exists(x) /\ act \in DOMAIN Target[Kind(x)] /\ Kind(x) \in Kinds
    BY <1>1, KindIsKnown DEF Approval, executable
  <1>3. row[x] \in Row(Kind(x))
    BY <1>2 DEF DataTypes
  <1>4. t \in Statuses[Kind(x)] /\ act # "utilise"
    BY <1>2, TargetIsStatus
  <1> HIDE DEF x, act, t
  <1>5. /\ [row[x] EXCEPT !.status = t] \in Row(Kind(x))
        /\ [row[x] EXCEPT !.status = t].amount = row[x].amount
        /\ [row[x] EXCEPT !.status = t].net = row[x].net
        /\ [row[x] EXCEPT !.status = t].part = row[x].part
        /\ [row[x] EXCEPT !.status = t].status = t
    BY <1>3, <1>4 DEF Row, RowWith
  <1> QED
    BY <1>1, <1>2, <1>3, <1>4, <1>5 DEF x, act, t

LEMMA PostingsType ==
  ASSUME NEW x \in Records, NEW act, NEW new \in Row(Kind(x))
  PROVE  postings(x, act, new) \in Seq(Int) /\ Len(postings(x, act, new)) \in 0..1
  BY DEF postings, Row, RowWith

LEMMA LedgerWritten ==
  ASSUME DataTypes, NEW x \in Records, NEW s \in Seq(Int), ledger' = [ledger EXCEPT ![x] = @ \o s]
  PROVE  /\ ledger' \in [Records -> Seq(Int)]
         /\ ledger'[x] = ledger[x] \o s /\ \A y \in Records \ {x} : ledger'[y] = ledger[y]
  <1>1. ledger[x] \o s \in Seq(Int)
    BY DEF DataTypes
  <1> QED
    BY <1>1 DEF DataTypes

LEMMA UpsertType ==
  ASSUME DataTypes, NEW x \in Records, NEW act, NEW new \in Row(Kind(x)),
         limits' = upsertProductLimit(x, act, new)
  PROVE  /\ limits' \in [Dimensions -> Seq(Limit)]
         /\ \A d \in Dimensions : limits'[d] = limits[d] \/ (limits[d] = <<>> /\ Len(limits'[d]) = 1)
         /\ activates(x, act) => Limited(x)'
  <1>1. CASE ~activates(x, act)
    BY <1>1 DEF upsertProductLimit, DataTypes
  <1>2. CASE activates(x, act) /\ Limited(x)
    <2>1. limits' = limits
      BY <1>2 DEF upsertProductLimit
    <2>2. Limited(x)'
      BY <1>2, <2>1 DEF Limited
    <2> QED
      BY <2>1, <2>2 DEF DataTypes
  <1>3. CASE activates(x, act) /\ ~Limited(x)
    <2> DEFINE e == DimensionOf[x]
               one == [amount |-> new.amount, available |-> new.amount]
    <2>1. e \in Dimensions /\ e \in Matching(e)
      BY <1>3, DimensionOfFacility DEF activates
    <2>2. one \in Limit
      BY DEF Row, RowWith, Limit
    <2>3. limits[e] = <<>>
      BY <1>3, <2>1 DEF Limited
    <2>4. limits' = [limits EXCEPT ![e] = Append(<<>>, one)]
      BY <1>3, <2>1, <2>3 DEF upsertProductLimit, DataTypes
    <2>h. Limited(x)' <=> \E d \in Matching(e) : limits'[d] # <<>>
      BY DEF Limited
    <2> HIDE DEF e, one
    <2>5. Append(<<>>, one) \in Seq(Limit) /\ Len(Append(<<>>, one)) = 1 /\ Append(<<>>, one) # <<>>
      BY <2>2
    <2>6. /\ limits' \in [Dimensions -> Seq(Limit)] /\ limits'[e] = Append(<<>>, one)
          /\ \A d \in Dimensions : d # e => limits'[d] = limits[d]
      BY <2>1, <2>4, <2>5 DEF DataTypes
    <2> QED
      BY <2>1, <2>3, <2>5, <2>6, <2>h
  <1> QED
    BY <1>1, <1>2, <1>3

LEMMA AppendLimitType ==
  ASSUME DataTypes, NEW x \in Records, NEW act, NEW new \in Row(Kind(x)),
         limits' = IF ~activates(x, act) THEN limits
                   ELSE [limits EXCEPT ![DimensionOf[x]] =
                           Append(@, [amount |-> new.amount, available |-> new.amount - new.part])]
  PROVE  /\ limits' \in [Dimensions -> Seq(Limit)]
         /\ \A d \in Dimensions : limits[d] # <<>> => limits'[d] # <<>>
         /\ activates(x, act) => Limited(x)'
  <1>1. CASE ~activates(x, act)
    BY <1>1 DEF DataTypes
  <1>2. CASE activates(x, act)
    <2> DEFINE s == DimensionOf[x]
               one == [amount |-> new.amount, available |-> new.amount - new.part]
    <2>1. s \in Dimensions /\ s \in Matching(s)
      BY <1>2, DimensionOfFacility DEF activates
    <2>h. Limited(x)' <=> \E d \in Matching(s) : limits'[d] # <<>>
      BY DEF Limited
    <2>2. one \in Limit
      BY DEF Row, RowWith, Limit
    <2>3. limits' = [limits EXCEPT ![s] = Append(limits[s], one)]
      BY <1>2, <2>1 DEF DataTypes
    <2> HIDE DEF s, one
    <2>4. Append(limits[s], one) \in Seq(Limit) /\ Append(limits[s], one) # <<>>
      <3>1. limits[s] \in Seq(Limit)
        BY <2>1 DEF DataTypes
      <3>2. /\ Append(limits[s], one) \in Seq(Limit)
            /\ Len(Append(limits[s], one)) = Len(limits[s]) + 1 /\ Len(limits[s]) \in Nat
        BY <2>2, <3>1
      <3> DEFINE longer == Append(limits[s], one)
      <3> HIDE DEF longer
      <3>3. ASSUME longer = <<>> PROVE FALSE
        BY <3>2, <3>3 DEF longer
      <3> QED
        BY <3>2, <3>3 DEF longer
    <2>5. /\ limits' \in [Dimensions -> Seq(Limit)] /\ limits'[s] # <<>>
          /\ \A d \in Dimensions : d # s => limits'[d] = limits[d]
      BY <2>1, <2>3, <2>4 DEF DataTypes
    <2> QED
      BY <2>1, <2>5, <2>h
  <1> QED
    BY <1>1, <1>2

LEMMA ExposureType ==
  ASSUME DataTypes, NEW x \in Records, NEW b \in BOOLEAN,
         exposures' = [exposures EXCEPT ![x] = IF b THEN @ + 1 ELSE @]
  PROVE  /\ exposures' \in [Records -> Nat]
         /\ \A y \in Records : exposures'[y] >= exposures[y]
         /\ b => exposures'[x] > 0
  BY DEF DataTypes
-----------------------------------------------------------------------------
\* Most steps change no record and nothing that is kept about it.
Rows == <<row, ledger, limits, exposures, uses>>

LEMMA StepKinds ==
  ASSUME [Next]_vars
  PROVE  \/ \E r \in Requests, x \in Records : \E data \in Inputs[x] : create(r, x, data)
         \/ \E r \in Requests : updateRecord(r)
         \/ \E r \in Requests, x \in Records : remove(r, x)
         \/ \E r \in Requests : executeActionWithImpact(r)
         \/ \E r \in Requests : executeProductApproval(r)
         \/ UNCHANGED Rows
  <1>1. ASSUME NEW r \in Requests, NEW x \in Records,
               \/ \E fields \in Edits[KindOf[x]] : update(r, x, fields)
               \/ action(r, x) \/ createApproval(r, x)
        PROVE  UNCHANGED Rows
    BY <1>1 DEF Rows, update, action, createApproval
  <1>2. ASSUME NEW r \in Requests,
               \/ readAndDecide(r) \/ ask(r) \/ writeFails(r) \/ storeKey(r)
               \/ \E a \in Approvals, user \in Users : approve(r, a, user)
               \/ executionFails(r) \/ markApproved(r) \/ crash(r)
        PROVE  UNCHANGED Rows
    BY <1>2 DEF Rows, readAndDecide, ask, writeFails, storeKey, approve, executionFails,
                markApproved, crash
  <1>3. ASSUME (\E x \in Records : bidExpires(x)) \/ UNCHANGED vars
        PROVE  UNCHANGED Rows
    BY <1>3 DEF Rows, bidExpires, vars
  <1> QED
    BY <1>1, <1>2, <1>3 DEF Next

LEMMA ScopeStays ==
  ASSUME [Next]_vars
  PROVE  scope' = scope
  BY DEF Next, vars, create, update, updateRecord, remove, bidExpires, action, readAndDecide, ask,
         executeActionWithImpact, writeFails, storeKey, createApproval, approve,
         executeProductApproval, executionFails, markApproved, crash

LEMMA UpdatedIsRow ==
  ASSUME DataTypes, Serving, NEW r \in Requests, req[r].phase = "edit"
  PROVE  LET x == req[r].record
         IN /\ req[r] \in Editing /\ x \in Records /\ "edit" \in scope
            /\ Fits(req[r].fields, Kind(x))
            /\ Exists(x) => row[x] \in Row(Kind(x)) /\ over(req[r].fields, row[x]) \in Row(Kind(x))
  <1> DEFINE x == req[r].record
  <1>1. /\ req[r] \in Editing /\ x \in Records /\ "edit" \in scope
        /\ req[r].fields \in Edits[Kind(x)]
    BY ServedFields DEF Serving, Right, Editing
  <1>2. Fits(req[r].fields, Kind(x))
    BY <1>1, KindIsKnown
  <1>3. Exists(x) => row[x] \in Row(Kind(x))
    BY <1>1 DEF DataTypes
  <1> HIDE DEF x
  <1>4. Exists(x) => over(req[r].fields, row[x]) \in Row(Kind(x))
    BY <1>2, <1>3, OverIsRow
  <1> QED
    BY <1>1, <1>2, <1>3, <1>4 DEF x

\* What the steps that change records do.
Creates(x, new, data) ==
  /\ row[x] = NoRow /\ row' = [row EXCEPT ![x] = new] /\ new \in Row(Kind(x))
  /\ validateRecord(x, new) /\ new.status = data.status
  /\ Preset(x, data.status) => "preset" \in scope
  /\ UNCHANGED <<ledger, limits, exposures, uses>>

LEMMA Created ==
  ASSUME DataTypes, NEW r \in Requests, NEW x \in Records, NEW data \in Inputs[x], create(r, x, data)
  PROVE  \E new : Creates(x, new, data)
  BY CreatedIsRow DEF create, Creates

Changes(r, x, new) ==
  /\ x = req[r].record /\ new = over(req[r].fields, row[x])
  /\ Exists(x) /\ row[x] \in Row(Kind(x)) /\ new \in Row(Kind(x)) /\ row' = [row EXCEPT ![x] = new]
  /\ UNCHANGED <<ledger, limits, exposures, uses>>

LEMMA Changed ==
  ASSUME DataTypes, Serving, NEW r \in Requests, updateRecord(r)
  PROVE  /\ req[r].phase = "edit" /\ "edit" \in scope
         /\ UNCHANGED Rows \/ \E x \in Records : \E new : Changes(r, x, new)
  <1>1. req[r].phase = "edit" /\ UNCHANGED <<ledger, limits, exposures, uses>>
    BY DEF updateRecord
  <1>2. PICK x \in Records : x = req[r].record
    BY <1>1, UpdatedIsRow
  <1>3. "edit" \in scope
    BY <1>1, UpdatedIsRow
  <1>4. CASE ~Exists(x)
    BY <1>1, <1>2, <1>3, <1>4 DEF updateRecord, Rows
  <1>5. CASE Exists(x)
    <2>1. PICK new : new = over(req[r].fields, row[x])
      OBVIOUS
    <2>2. row' = [row EXCEPT ![x] = new]
      BY <1>2, <1>5, <2>1 DEF updateRecord, DataTypes
    <2>3. row[x] \in Row(Kind(x)) /\ new \in Row(Kind(x))
      BY <1>1, <1>2, <1>5, <2>1, UpdatedIsRow
    <2> QED
      BY <1>1, <1>2, <1>3, <1>5, <2>1, <2>2, <2>3 DEF Changes
  <1> QED
    BY <1>4, <1>5

Writes(r, x, new, act, key) ==
  /\ req[r].phase = "write" /\ x = req[r].record /\ Exists(x)
  /\ row[x] \in Row(Kind(x)) /\ new \in Row(Kind(x))
  /\ act = req[r].action /\ act \in Actions /\ key = req[r].key /\ key \in Keys \cup {NoKey}
  /\ row' = [row EXCEPT ![x] = new]
  /\ ledger' = [ledger EXCEPT ![x] = @ \o postings(x, act, new)]
  /\ limits' = upsertProductLimit(x, act, new)
  /\ exposures' = [exposures EXCEPT ![x] =
       IF activates(x, act) \/ (Kind(x) = "bid" /\ act = "allocate") THEN @ + 1 ELSE @]
  /\ used(x, key) /\ Uses(x) < MaxUses
  /\ new.amount = row[x].amount /\ new.net = row[x].net
  /\ act = "utilise" => /\ Kind(x) = "facility" /\ new.status = row[x].status
                        /\ new.part = req[r].patch.part
  /\ act # "utilise" => /\ act \in DOMAIN Target[Kind(x)] /\ new.part = row[x].part
                        /\ new.status = Target[Kind(x)][act]

LEMMA Written ==
  ASSUME DataTypes, Serving, NEW r \in Requests, executeActionWithImpact(r)
  PROVE  \E x \in Records : \E new, act, key : Writes(r, x, new, act, key)
  <1>1. PICK x, act, new, key : /\ x = req[r].record /\ act = req[r].action /\ key = req[r].key
                                /\ new = patched(x, act, req[r].patch)
    OBVIOUS
  <1>2. /\ row' = [row EXCEPT ![x] = new]
        /\ ledger' = [ledger EXCEPT ![x] = @ \o postings(x, act, new)]
        /\ limits' = upsertProductLimit(x, act, new)
        /\ exposures' = [exposures EXCEPT ![x] =
             IF activates(x, act) \/ (Kind(x) = "bid" /\ act = "allocate") THEN @ + 1 ELSE @]
        /\ used(x, key) /\ Uses(x) < MaxUses
        /\ req[r].phase = "write" /\ Exists(x)
    BY <1>1 DEF executeActionWithImpact
  <1>3. req[r] \in Acting /\ x \in Records /\ row[x] \in Row(Kind(x)) /\ new \in Row(Kind(x))
    BY <1>1, <1>2, PatchedIsRow
  <1>4. act \in Actions /\ key \in Keys \cup {NoKey}
    BY <1>1, <1>3 DEF Acting
  <1>5. /\ new.amount = row[x].amount /\ new.net = row[x].net
        /\ act = "utilise" => /\ Kind(x) = "facility" /\ new.status = row[x].status
                              /\ new.part = req[r].patch.part
        /\ act # "utilise" => /\ act \in DOMAIN Target[Kind(x)] /\ new.part = row[x].part
                              /\ new.status = Target[Kind(x)][act]
    BY <1>1, <1>2, PatchedIsRow
  <1>6. Writes(r, x, new, act, key)
    BY <1>1, <1>2, <1>3, <1>4, <1>5 DEF Writes
  <1> QED
    BY <1>3, <1>6

Executes(r, x, new, act) ==
  /\ req[r].phase = "execute" /\ "approve" \in scope /\ x = approval[req[r].approval].record
  /\ Exists(x) /\ row[x] \in Row(Kind(x)) /\ new \in Row(Kind(x)) /\ act \in DOMAIN Target[Kind(x)]
  /\ row' = [row EXCEPT ![x] = new]
  /\ ledger' = [ledger EXCEPT ![x] = @ \o postings(x, act, new)]
  /\ limits' = IF ~activates(x, act) THEN limits
               ELSE [limits EXCEPT ![DimensionOf[x]] =
                       Append(@, [amount |-> new.amount, available |-> new.amount - new.part])]
  /\ exposures' = [exposures EXCEPT ![x] = IF activates(x, act) THEN @ + 1 ELSE @]
  /\ (\E key \in Keys \cup {NoKey} : used(x, key)) /\ Uses(x) < MaxUses
  /\ new.amount = row[x].amount /\ new.net = row[x].net /\ new.part = row[x].part
  /\ new.status = Target[Kind(x)][act]

LEMMA Executed ==
  ASSUME DataTypes, Serving, NEW r \in Requests, executeProductApproval(r)
  PROVE  \E x \in Records : \E new, act : Executes(r, x, new, act)
  <1> DEFINE X == approval[req[r].approval].record
             A == approval[req[r].approval].action
             N == [row[X] EXCEPT !.status = Target[Kind(X)][A]]
  <1>1. /\ row' = [row EXCEPT ![X] = N]
        /\ used(X, approval[req[r].approval].key) /\ Uses(X) < MaxUses
        /\ req[r].phase = "execute" /\ executable(X, A)
    BY DEF executeProductApproval
  <1>k. \E key \in Keys \cup {NoKey} : used(X, key)
    <2>1. approval[req[r].approval].key \in Keys \cup {NoKey}
      BY <1>1, ExecutedIsRow DEF Approval
    <2> QED
      BY <1>1, <2>1
  <1>2. /\ ledger' = [ledger EXCEPT ![X] = @ \o postings(X, A, N)]
        /\ exposures' = [exposures EXCEPT ![X] = IF activates(X, A) THEN @ + 1 ELSE @]
    BY DEF executeProductApproval
  <1>3. limits' = IF ~activates(X, A) THEN limits
                  ELSE [limits EXCEPT ![DimensionOf[X]] =
                          Append(@, [amount |-> N.amount, available |-> N.amount - N.part])]
    BY DEF executeProductApproval
  <1>4. /\ "approve" \in scope /\ X \in Records /\ Exists(X) /\ row[X] \in Row(Kind(X))
        /\ N \in Row(Kind(X)) /\ A \in DOMAIN Target[Kind(X)]
        /\ N.amount = row[X].amount /\ N.net = row[X].net /\ N.part = row[X].part
        /\ N.status = Target[Kind(X)][A]
    BY <1>1, ExecutedIsRow
  <1>5. PICK x, act, new : x = X /\ act = A /\ new = N
    OBVIOUS
  <1>6. x = approval[req[r].approval].record
    BY <1>5
  <1> HIDE DEF X, A, N
  <1>7. x \in Records /\ Executes(r, x, new, act)
    BY <1>1, <1>2, <1>3, <1>4, <1>5, <1>6, <1>k DEF Executes
  <1> QED
    BY <1>7

\* What is posted: one amount, for a settlement or an allocation.
Posting(x, act) == \/ Kind(x) = "offer" /\ act = "settle"
                   \/ Kind(x) = "bid" /\ act = "allocate"

LEMMA LedgerAfter ==
  ASSUME DataTypes, NEW x \in Records, NEW act, NEW new \in Row(Kind(x)),
         ledger' = [ledger EXCEPT ![x] = @ \o postings(x, act, new)]
  PROVE  /\ ledger' \in [Records -> Seq(Int)]
         /\ \A y \in Records : y # x \/ ~Posting(x, act) => ledger'[y] = ledger[y]
         /\ Posting(x, act) => /\ Len(ledger'[x]) = Len(ledger[x]) + 1 /\ ledger'[x] # <<>>
                               /\ Kind(x) = "offer" => ledger'[x][Len(ledger'[x])] = new.part
  <1>1. ledger[x] \in Seq(Int) /\ new.part \in Int /\ new.amount \in Int
    BY DEF DataTypes, Row, RowWith
  <1>2. PICK s \in Seq(Int) : s = postings(x, act, new)
    BY PostingsType
  <1>3. /\ ledger' \in [Records -> Seq(Int)]
        /\ ledger'[x] = ledger[x] \o s /\ \A y \in Records \ {x} : ledger'[y] = ledger[y]
    BY <1>2, LedgerWritten
  <1>4. CASE ~Posting(x, act)
    <2>1. s = <<>>
      BY <1>2, <1>4 DEF postings, Posting
    <2>2. ledger[x] \o s = ledger[x]
      BY <1>1, <2>1
    <2> QED
      BY <1>3, <1>4, <2>2
  <1>5. CASE Posting(x, act)
    <2>1. PICK n \in Int : s = <<n>> /\ (Kind(x) = "offer" => n = new.part)
      BY <1>1, <1>2, <1>5 DEF postings, Posting
    <2>2. PICK old \in Seq(Int) : old = ledger[x]
      BY <1>1
    <2>3. Len(old \o <<n>>) = Len(old) + 1 /\ (old \o <<n>>)[Len(old) + 1] = n /\ Len(old) \in Nat
      OBVIOUS
    <2>4. ASSUME old \o <<n>> = <<>> PROVE FALSE
      BY <2>3, <2>4
    <2> QED
      BY <1>3, <1>5, <2>1, <2>2, <2>3, <2>4
  <1> QED
    BY <1>4, <1>5

\* The record as it is afterwards, the others as they were.
Replaced(x, new) ==
  /\ row'[x] = new /\ Exists(x)' /\ \A y \in Records \ {x} : row'[y] = row[y]
  /\ row' \in [Records -> {NoRow, Removed} \cup RowWith(AnyStatus)]
  /\ \A y \in Records : Exists(y)' => row'[y] \in Row(Kind(y))
  /\ \A y \in Records : row[y] # NoRow => row'[y] # NoRow

LEMMA ReplacedBy ==
  ASSUME DataTypes, NEW x \in Records, NEW new \in Row(Kind(x)), row' = [row EXCEPT ![x] = new]
  PROVE  Replaced(x, new)
  BY RowWritten, RowFields DEF Replaced, Exists, Row

\* Postings, limits and exposures after an action.
Impact(x, act, new) ==
  /\ Replaced(x, new)
  /\ ledger' \in [Records -> Seq(Int)]
  /\ \A y \in Records : y # x \/ ~Posting(x, act) => ledger'[y] = ledger[y]
  /\ Posting(x, act) => /\ Len(ledger'[x]) = Len(ledger[x]) + 1 /\ ledger'[x] # <<>>
                        /\ Kind(x) = "offer" => ledger'[x][Len(ledger'[x])] = new.part
  /\ limits' \in [Dimensions -> Seq(Limit)]
  /\ \A s \in Dimensions : limits[s] # <<>> => limits'[s] # <<>>
  /\ exposures' \in [Records -> Nat] /\ \A y \in Records : exposures'[y] >= exposures[y]
  /\ activates(x, act) => Limited(x)' /\ exposures'[x] > 0

LEMMA WriteImpact ==
  ASSUME DataTypes, NEW r \in Requests, NEW x \in Records, NEW new, NEW act, NEW key,
         Writes(r, x, new, act, key)
  PROVE  /\ Impact(x, act, new)
         /\ \A s \in Dimensions : limits'[s] = limits[s] \/ (limits[s] = <<>> /\ Len(limits'[s]) = 1)
         /\ uses' \in [Records -> [Keys \cup {NoKey} -> 0..MaxUses]]
         /\ \A y \in Records, k \in Keys \cup {NoKey} :
              uses'[y][k] = IF y = x /\ k = key THEN uses[y][k] + 1 ELSE uses[y][k]
  <1>1. Replaced(x, new)
    BY ReplacedBy DEF Writes
  <1>2. /\ ledger' \in [Records -> Seq(Int)]
        /\ \A y \in Records : y # x \/ ~Posting(x, act) => ledger'[y] = ledger[y]
        /\ Posting(x, act) => /\ Len(ledger'[x]) = Len(ledger[x]) + 1 /\ ledger'[x] # <<>>
                              /\ Kind(x) = "offer" => ledger'[x][Len(ledger'[x])] = new.part
    <2>1. new \in Row(Kind(x)) /\ ledger' = [ledger EXCEPT ![x] = @ \o postings(x, act, new)]
      BY DEF Writes
    <2> QED
      BY <2>1, LedgerAfter
  <1>3. /\ limits' \in [Dimensions -> Seq(Limit)]
        /\ \A s \in Dimensions : limits'[s] = limits[s] \/ (limits[s] = <<>> /\ Len(limits'[s]) = 1)
        /\ activates(x, act) => Limited(x)'
    BY UpsertType DEF Writes
  <1>4. \A s \in Dimensions : limits[s] # <<>> => limits'[s] # <<>>
    BY <1>3
  <1>5. /\ exposures' \in [Records -> Nat] /\ \A y \in Records : exposures'[y] >= exposures[y]
        /\ activates(x, act) => exposures'[x] > 0
    <2> DEFINE b == activates(x, act) \/ (Kind(x) = "bid" /\ act = "allocate")
    <2>1. b \in BOOLEAN /\ exposures' = [exposures EXCEPT ![x] = IF b THEN @ + 1 ELSE @]
      BY DEF Writes, activates
    <2>2. activates(x, act) => b
      OBVIOUS
    <2> HIDE DEF b
    <2> QED
      BY <2>1, <2>2, ExposureType
  <1>6. /\ uses' \in [Records -> [Keys \cup {NoKey} -> 0..MaxUses]]
        /\ \A y \in Records, k \in Keys \cup {NoKey} :
             uses'[y][k] = IF y = x /\ k = key THEN uses[y][k] + 1 ELSE uses[y][k]
    <2>1. used(x, key) /\ Uses(x) < MaxUses /\ key \in Keys \cup {NoKey}
      BY DEF Writes
    <2> QED
      BY <2>1, UsedType
  <1> QED
    BY <1>1, <1>2, <1>3, <1>4, <1>5, <1>6 DEF Impact

LEMMA ExecuteImpact ==
  ASSUME DataTypes, NEW r \in Requests, NEW x \in Records, NEW new, NEW act, Executes(r, x, new, act)
  PROVE  /\ Impact(x, act, new)
         /\ uses' \in [Records -> [Keys \cup {NoKey} -> 0..MaxUses]]
  <1>1. Replaced(x, new)
    BY ReplacedBy DEF Executes
  <1>2. /\ ledger' \in [Records -> Seq(Int)]
        /\ \A y \in Records : y # x \/ ~Posting(x, act) => ledger'[y] = ledger[y]
        /\ Posting(x, act) => /\ Len(ledger'[x]) = Len(ledger[x]) + 1 /\ ledger'[x] # <<>>
                              /\ Kind(x) = "offer" => ledger'[x][Len(ledger'[x])] = new.part
    <2>1. new \in Row(Kind(x)) /\ ledger' = [ledger EXCEPT ![x] = @ \o postings(x, act, new)]
      BY DEF Executes
    <2> QED
      BY <2>1, LedgerAfter
  <1>3. /\ limits' \in [Dimensions -> Seq(Limit)]
        /\ \A s \in Dimensions : limits[s] # <<>> => limits'[s] # <<>>
        /\ activates(x, act) => Limited(x)'
    BY AppendLimitType DEF Executes
  <1>5. /\ exposures' \in [Records -> Nat] /\ \A y \in Records : exposures'[y] >= exposures[y]
        /\ activates(x, act) => exposures'[x] > 0
    BY ExposureType DEF Executes, activates
  <1>6. uses' \in [Records -> [Keys \cup {NoKey} -> 0..MaxUses]]
    <2>1. PICK key \in Keys \cup {NoKey} : used(x, key) /\ Uses(x) < MaxUses
      BY DEF Executes
    <2> QED
      BY <2>1, UsedType
  <1> QED
    BY <1>1, <1>2, <1>3, <1>5, <1>6 DEF Impact

\* Any step creates, edits or removes a record, applies an action to it, or
\* leaves the records and what is kept about them alone.
LEMMA StepsOnRows ==
  ASSUME DataTypes, Serving, [Next]_vars
  PROVE  \/ UNCHANGED Rows
         \/ \E x \in Records : \E data \in Inputs[x] : \E new : Creates(x, new, data)
         \/ \E r \in Requests, x \in Records : \E new :
              req[r].phase = "edit" /\ "edit" \in scope /\ Changes(r, x, new)
         \/ \E r \in Requests, x \in Records : remove(r, x)
         \/ \E r \in Requests, x \in Records : \E new, act, key : Writes(r, x, new, act, key)
         \/ \E r \in Requests, x \in Records : \E new, act : Executes(r, x, new, act)
  BY StepKinds, Created, Changed, Written, Executed

LEMMA RowsNext ==
  ASSUME DataTypes, Serving, [Next]_vars
  PROVE  /\ row' \in [Records -> {NoRow, Removed} \cup RowWith(AnyStatus)]
         /\ \A x \in Records : Exists(x)' => row'[x] \in Row(Kind(x))
         /\ \A x \in Records : row[x] # NoRow => row'[x] # NoRow
         /\ ledger' \in [Records -> Seq(Int)]
         /\ limits' \in [Dimensions -> Seq(Limit)]
         /\ exposures' \in [Records -> Nat]
         /\ uses' \in [Records -> [Keys \cup {NoKey} -> 0..MaxUses]]
  <1>1. ASSUME NEW x \in Records, NEW data \in Inputs[x], NEW new, Creates(x, new, data)
        PROVE  Replaced(x, new) /\ UNCHANGED <<ledger, limits, exposures, uses>>
    BY <1>1, ReplacedBy DEF Creates
  <1>2. ASSUME NEW r \in Requests, NEW x \in Records, NEW new, Changes(r, x, new)
        PROVE  Replaced(x, new) /\ UNCHANGED <<ledger, limits, exposures, uses>>
    BY <1>2, ReplacedBy DEF Changes
  <1>3. ASSUME NEW r \in Requests, NEW x \in Records, remove(r, x)
        PROVE  row' = [row EXCEPT ![x] = Removed] /\ UNCHANGED <<ledger, limits, exposures, uses>>
    BY <1>3 DEF remove
  <1>4. CASE \E x \in Records : \E new : Replaced(x, new) /\ UNCHANGED <<ledger, limits, exposures, uses>>
    BY <1>4 DEF Replaced, DataTypes
  <1>5. CASE \E r \in Requests, x \in Records : remove(r, x)
    BY <1>3, <1>5, RowWritten DEF DataTypes
  <1>6. CASE \E r \in Requests, x \in Records : \E new, act, key : Writes(r, x, new, act, key)
    BY <1>6, WriteImpact DEF Impact, Replaced
  <1>7. CASE \E r \in Requests, x \in Records : \E new, act : Executes(r, x, new, act)
    BY <1>7, ExecuteImpact DEF Impact, Replaced
  <1>8. CASE UNCHANGED Rows
    BY <1>8 DEF Rows, DataTypes, Exists
  <1> QED
    BY <1>1, <1>2, <1>4, <1>5, <1>6, <1>7, <1>8, StepsOnRows

\* What was true of the records a request stands for remains true of it.
Stable ==
  /\ \A x \in Records : row[x] # NoRow => row'[x] # NoRow
  /\ \A a \in Approvals : approval[a] \in Approval => /\ approval'[a] \in Approval
                                                      /\ approval'[a].by = approval[a].by
  /\ scope' = scope

LEMMA RemainsRight ==
  ASSUME Stable, NEW q \in Served, Right(q)
  PROVE  Right(q)'
  <1>1. q.phase = "edit" => Right(q)'
    <2>1. q.phase = "edit" => q.record \in Records
      BY ServedFields DEF Editing
    <2> QED
      BY <2>1 DEF Stable, Right
  <1>2. q.phase \in {"execute", "mark"} => Right(q)'
    <2>1. q.phase \in {"execute", "mark"} => q.approval \in Approvals
      BY ServedFields DEF Executing
    <2> QED
      BY <2>1 DEF Stable, Right
  <1>3. q.phase \in {"read", "ask", "write", "store"} => Right(q)'
    <2>1. q.phase \in {"read", "ask", "write", "store"} => q.record \in Records
      BY ServedFields DEF Acting
    <2> QED
      BY <2>1 DEF Stable, Right, Decided
  <1>4. q = Idle => Right(q)'
    BY DEF Idle, Right
  <1> QED
    BY <1>1, <1>2, <1>3, <1>4, ServedFields

LEMMA StepServes ==
  ASSUME Serving, Stable, NEW r \in Requests, NEW q \in Served, Right(q)', become(r, q)
  PROVE  Serving'
  <1>1. req' = [req EXCEPT ![r] = q]
    BY DEF become
  <1>2. req' \in [Requests -> Served]
    BY <1>1 DEF Serving
  <1>3. ASSUME NEW s \in Requests PROVE Right(req[s])'
    <2>1. CASE s = r
      <3>1. req'[s] = q
        BY <1>1, <2>1 DEF Serving
      <3> QED
        BY <3>1 DEF Right, Decided, Exists
    <2>2. CASE s # r
      <3>1. PICK p \in Served : p = req[s] /\ p = req'[s]
        BY <1>1, <2>2 DEF Serving
      <3>2. Right(p)
        BY <3>1 DEF Serving
      <3>3. Right(p)'
        BY <3>2, RemainsRight
      <3> QED
        BY <3>1, <3>3 DEF Right, Decided
    <2> QED
      BY <2>1, <2>2
  <1> QED
    BY <1>2, <1>3 DEF Serving

LEMMA NoneServes ==
  ASSUME Serving, Stable, UNCHANGED req
  PROVE  Serving'
  <1>1. ASSUME NEW s \in Requests PROVE Right(req[s])'
    <2>1. PICK p \in Served : p = req[s] /\ p = req'[s]
      BY DEF Serving
    <2>2. Right(p)
      BY <2>1 DEF Serving
    <2>3. Right(p)'
      BY <2>2, RemainsRight
    <2> QED
      BY <2>1, <2>3 DEF Right, Decided
  <1> QED
    BY <1>1 DEF Serving

LEMMA ActionsKnown ==
  ASSUME NEW x \in Records, NEW q \in Asked(x), row[x] # NoRow
  PROVE  q \in Served /\ Right(q) /\ q.phase = "read" /\ q.record = x /\ q.patch = NoRow
  <1>1. CASE q \in [phase : {"read"}, record : {x}, action : DOMAIN Target[Kind(x)], amount : {0},
                    by : Users, key : {NoKey} \cup IF "key" \in scope THEN Keys ELSE {},
                    skip : {FALSE} \cup IF "skip" \in scope THEN {TRUE} ELSE {}, patch : {NoRow}]
    <2>1. /\ q.phase = "read" /\ q.record = x /\ q.action \in DOMAIN Target[Kind(x)] /\ q.amount = 0
          /\ q.by \in Users /\ q.key \in {NoKey} \cup Keys /\ q.skip \in BOOLEAN /\ q.patch = NoRow
          /\ q.skip = TRUE => "skip" \in scope
      BY <1>1
    <2>2. q.action \in Actions /\ q.action # "utilise"
      BY <2>1, KindIsKnown, TargetIsStatus
    <2>3. q \in Acting
      BY <1>1, <2>1, <2>2 DEF Acting
    <2> QED
      BY <2>1, <2>2, <2>3 DEF Served, Right, Decided
  <1>2. CASE Kind(x) = "facility" /\
             q \in [phase : {"read"}, record : {x}, action : {"utilise"}, amount : Amounts,
                    by : Users, key : {NoKey} \cup IF "key" \in scope THEN Keys ELSE {},
                    skip : {FALSE}, patch : {NoRow}]
    <2>1. /\ q.phase = "read" /\ q.record = x /\ q.action = "utilise" /\ q.amount \in Int
          /\ q.by \in Users /\ q.key \in {NoKey} \cup Keys /\ q.skip = FALSE /\ q.patch = NoRow
      BY <1>2
    <2>2. q.action \in Actions
      BY <2>1 DEF Actions
    <2>3. q \in Acting
      BY <1>2, <2>1, <2>2 DEF Acting
    <2> QED
      BY <1>2, <2>1, <2>2, <2>3 DEF Served, Right, Decided
  <1> QED
    BY <1>1, <1>2 DEF Asked

LEMMA MovedOn ==
  ASSUME NEW q \in Acting, NEW phase \in {"ask", "store"}
  PROVE  /\ [q EXCEPT !.phase = phase] \in Acting
         /\ [q EXCEPT !.phase = phase].phase = phase
         /\ [q EXCEPT !.phase = phase].record = q.record
         /\ [q EXCEPT !.phase = phase].action = q.action
         /\ [q EXCEPT !.phase = phase].key = q.key
         /\ [q EXCEPT !.phase = phase].skip = q.skip
  BY DEF Acting

LEMMA ToWrite ==
  ASSUME NEW q \in Acting, NEW w \in RowWith(AnyStatus)
  PROVE  /\ [q EXCEPT !.phase = "write", !.patch = w] \in Acting
         /\ [q EXCEPT !.phase = "write", !.patch = w].phase = "write"
         /\ [q EXCEPT !.phase = "write", !.patch = w].patch = w
         /\ [q EXCEPT !.phase = "write", !.patch = w].record = q.record
         /\ [q EXCEPT !.phase = "write", !.patch = w].action = q.action
         /\ [q EXCEPT !.phase = "write", !.patch = w].key = q.key
         /\ [q EXCEPT !.phase = "write", !.patch = w].skip = q.skip
         /\ [q EXCEPT !.phase = "write", !.patch = w].amount = q.amount
  <1>1. w \in {NoRow} \cup RowWith(UNION {Statuses[k] : k \in Kinds})
    BY DEF AnyStatus
  <1> QED
    BY <1>1 DEF Acting

\* What a request decides to write: within the limit, or from a status that
\* allows the action, and nothing but the amount in use or the status differs.
LEMMA PatchIs ==
  ASSUME DataTypes, NEW q \in Acting, Decided(q), Exists(q.record),
         actionPatch(q, row[q.record]) # NoRow
  PROVE  LET x == q.record  patch == actionPatch(q, row[x])
         IN /\ row[x] \in Row(Kind(x)) /\ patch \in Row(Kind(x)) /\ patch \in RowWith(AnyStatus)
            /\ q.action = "utilise" => /\ patch.part = row[x].part + q.amount
                                       /\ row[x].part + q.amount <= row[x].amount
            /\ q.action # "utilise" => /\ patch.status = Target[Kind(x)][q.action]
                                       /\ allowed(x, q.action, row[x].status)
  <1> DEFINE x == q.record
             w == row[x]
  <1>1. x \in Records /\ Kind(x) \in Kinds /\ q.amount \in Int
    BY KindIsKnown DEF Acting
  <1>2. w \in Row(Kind(x))
    BY <1>1 DEF DataTypes
  <1>3. CASE q.action = "utilise"
    <2>1. Kind(x) = "facility"
      BY <1>3 DEF Decided
    <2>2. w.part + q.amount <= w.amount
      BY <1>3, <2>1 DEF actionPatch
    <2>3. actionPatch(q, w) = [w EXCEPT !.part = w.part + q.amount]
      BY <1>3, <2>1, <2>2 DEF actionPatch
    <2>4. w.part + q.amount \in Int
      BY <1>1, <1>2 DEF Row, RowWith
    <2> HIDE DEF w, x
    <2>5. /\ [w EXCEPT !.part = w.part + q.amount] \in Row(Kind(x))
          /\ [w EXCEPT !.part = w.part + q.amount].part = w.part + q.amount
      BY <1>2, <2>4 DEF Row, RowWith
    <2> QED
      BY <1>1, <1>2, <1>3, <2>2, <2>3, <2>5, StatusIsAny DEF w, x
  <1>4. CASE q.action # "utilise"
    <2>1. q.action \in DOMAIN Target[Kind(x)]
      BY <1>4 DEF Decided
    <2>2. allowed(x, q.action, w.status)
      BY <1>4 DEF actionPatch
    <2> DEFINE t == Target[Kind(x)][q.action]
    <2>3. actionPatch(q, w) = [w EXCEPT !.status = t]
      BY <1>4, <2>2 DEF actionPatch
    <2>4. t \in Statuses[Kind(x)]
      BY <1>1, <2>1, TargetIsStatus
    <2> HIDE DEF w, x, t
    <2>5. /\ [w EXCEPT !.status = t] \in Row(Kind(x)) /\ [w EXCEPT !.status = t].status = t
      BY <1>2, <2>4 DEF Row, RowWith
    <2> QED
      BY <1>1, <1>2, <1>4, <2>2, <2>3, <2>5, StatusIsAny DEF w, x, t
  <1> QED
    BY <1>3, <1>4

LEMMA RequestedType ==
  ASSUME NEW x \in Records, NEW act \in Actions, NEW user \in Users, NEW key \in Keys \cup {NoKey}
  PROVE  requested(x, act, user, key) \in Approval
  BY DEF requested, Approval

LEMMA ApprovedType ==
  ASSUME NEW v \in Approval
  PROVE  [v EXCEPT !.status = "APPROVED"] \in Approval /\ [v EXCEPT !.status = "APPROVED"].by = v.by
  BY DEF Approval

LEMMA NoApprovalIsNone == NoApproval \notin Approval
  BY DEF NoApproval, Approval

LEMMA TypesNext ==
  ASSUME DataTypes, Serving, [Next]_vars
  PROVE  DataTypes' /\ Serving' /\ Stable
  <1> DEFINE Kept == /\ stored' \subseteq Records \X Keys /\ expired' \subseteq Records
                     /\ approval' \in [Approvals -> {NoApproval} \cup Approval]
                     /\ \A a \in Approvals : approval[a] \in Approval =>
                          approval'[a] \in Approval /\ approval'[a].by = approval[a].by
  <1> SUFFICES Kept /\ Serving'
    BY RowsNext, ScopeStays DEF DataTypes, Stable
  <1>k. ASSUME Kept PROVE Stable
    BY <1>k, RowsNext, ScopeStays DEF Stable
  <1>u. UNCHANGED <<stored, expired, approval>> => Kept
    BY DEF DataTypes
  <1>i. Idle \in Served /\ Right(Idle)'
    BY DEF Served, Right, Idle
  <1> HIDE DEF Kept
  <1>1. ASSUME NEW r \in Requests, NEW x \in Records, NEW data \in Inputs[x], create(r, x, data)
        PROVE  Kept /\ Serving'
    BY <1>1, <1>u, <1>k, NoneServes DEF create
  <1>2. ASSUME NEW r \in Requests, NEW x \in Records, NEW fields \in Edits[KindOf[x]],
               update(r, x, fields)
        PROVE  Kept /\ Serving'
    <2> DEFINE q == [phase |-> "edit", record |-> x, fields |-> fields]
    <2>1. Kept /\ Stable /\ become(r, q) /\ "edit" \in scope /\ row[x] # NoRow
      BY <1>2, <1>u, <1>k DEF update, mayBegin, Exists
    <2>2. fields \in Edits[Kind(x)] /\ Kind(x) \in Kinds
      BY KindIsKnown DEF Kind
    <2>3. q \in Served
      BY <2>2 DEF Served, Editing
    <2>4. Right(q)
      BY <2>1, <2>2 DEF Right
    <2>5. Right(q)'
      BY <2>1, <2>3, <2>4, RemainsRight
    <2> QED
      BY <2>1, <2>3, <2>5, StepServes
  <1>3. ASSUME NEW r \in Requests, NEW x \in Records, remove(r, x)
        PROVE  Kept /\ Serving'
    BY <1>3, <1>u, <1>k, NoneServes DEF remove
  <1>4. ASSUME NEW r \in Requests, NEW x \in Records, action(r, x)
        PROVE  Kept /\ Serving'
    <2>1. PICK q \in Asked(x) : become(r, q)
      BY <1>4 DEF action
    <2>2. Kept /\ Stable /\ row[x] # NoRow
      BY <1>4, <1>u, <1>k DEF action, Exists
    <2>3. q \in Served /\ Right(q)
      BY <2>2, ActionsKnown
    <2>4. Right(q)'
      BY <2>2, <2>3, RemainsRight
    <2> QED
      BY <2>1, <2>2, <2>3, <2>4, StepServes
  <1>5. ASSUME NEW r \in Requests, NEW x \in Records, createApproval(r, x)
        PROVE  Kept /\ Serving'
    <2>1. PICK a \in Approvals, act \in Actions, user \in Users :
            approval[a] = NoApproval /\ approval' = [approval EXCEPT ![a] = requested(x, act, user, NoKey)]
      BY <1>5 DEF createApproval
    <2>2. Kept
      BY <1>5, <2>1, RequestedType, NoApprovalIsNone DEF createApproval, DataTypes, Kept
    <2> QED
      BY <1>5, <2>2, <1>k, NoneServes DEF createApproval
  <1>6. ASSUME NEW r \in Requests, updateRecord(r)
        PROVE  Kept /\ Serving'
    BY <1>6, <1>u, <1>k, <1>i, StepServes DEF updateRecord
  <1>7. ASSUME NEW r \in Requests, readAndDecide(r)
        PROVE  Kept /\ Serving'
    <2>1. PICK q : q = req[r]
      OBVIOUS
    <2>2. Kept /\ Stable /\ q.phase = "read"
      BY <1>7, <2>1, <1>u, <1>k DEF readAndDecide
    <2>3. q \in Acting /\ Decided(q)
      BY <2>1, <2>2, ServedFields DEF Serving, Right
    <2>4. CASE req' = [req EXCEPT ![r] = Idle]
      BY <2>2, <2>4, <1>i, StepServes DEF become
    <2>5. CASE req' = [req EXCEPT ![r] = [q EXCEPT !.phase = "ask"]]
      <3>1. PICK p \in Acting : p = [q EXCEPT !.phase = "ask"]
        BY <2>3, MovedOn
      <3>2. p \in Served /\ Right(p)
        BY <2>3, <3>1, MovedOn DEF Served, Right, Decided
      <3>3. Right(p)'
        BY <2>2, <3>2, RemainsRight
      <3> QED
        BY <2>2, <2>5, <3>1, <3>2, <3>3, StepServes DEF become
    <2>6. CASE /\ req' = [req EXCEPT ![r] =
                            [q EXCEPT !.phase = "write", !.patch = actionPatch(q, row[q.record])]]
               /\ Exists(q.record) /\ actionPatch(q, row[q.record]) # NoRow
      <3>1. PICK w \in RowWith(AnyStatus) :
              /\ w = actionPatch(q, row[q.record])
              /\ q.action # "utilise" => w.status = Target[Kind(q.record)][q.action]
        BY <2>3, <2>6, PatchIs
      <3>2. PICK p \in Acting : p = [q EXCEPT !.phase = "write", !.patch = w]
        BY <2>3, ToWrite
      <3>b. w \in RowWith(AnyStatus) /\ q \in Acting
        BY <2>3
      <3>a. /\ p.phase = "write" /\ p.patch = w /\ p.record = q.record
            /\ p.action = q.action /\ p.key = q.key /\ p.skip = q.skip
        BY <3>2, <3>b DEF Acting
      <3>3. p \in Served /\ Right(p)
        BY <2>3, <3>1, <3>2, <3>a DEF Served, Right, Decided
      <3>4. Right(p)'
        BY <2>2, <3>3, RemainsRight
      <3>5. become(r, p)
        BY <2>6, <3>1, <3>2 DEF become
      <3> QED
        BY <2>2, <3>3, <3>4, <3>5, StepServes
    <2> QED
      BY <1>7, <2>1, <2>4, <2>5, <2>6 DEF readAndDecide, become
  <1>8. ASSUME NEW r \in Requests, ask(r)
        PROVE  Kept /\ Serving'
    <2>1. req[r] \in Acting
      BY <1>8, ServedFields DEF ask, Serving
    <2>2. PICK x \in Records, act \in Actions, user \in Users, key \in Keys \cup {NoKey} :
            x = req[r].record /\ act = req[r].action /\ user = req[r].by /\ key = req[r].key
      BY <2>1 DEF Acting
    <2>3. PICK a \in Approvals :
            approval[a] = NoApproval /\ approval' = [approval EXCEPT ![a] = requested(x, act, user, key)]
      BY <1>8, <2>2 DEF ask
    <2>4. Kept
      BY <1>8, <2>3, RequestedType, NoApprovalIsNone DEF ask, DataTypes, Kept
    <2> QED
      BY <1>8, <2>4, <1>k, <1>i, StepServes DEF ask
  <1>9. ASSUME NEW r \in Requests, executeActionWithImpact(r)
        PROVE  Kept /\ Serving'
    <2>1. PICK q : q = req[r]
      OBVIOUS
    <2>2. Kept /\ Stable /\ q.phase = "write"
      BY <1>9, <2>1, <1>u, <1>k DEF executeActionWithImpact
    <2>3. q \in Acting /\ Decided(q)
      BY <2>1, <2>2, ServedFields DEF Serving, Right
    <2>4. PICK p \in Acting : p = [q EXCEPT !.phase = "store"]
      BY <2>3, MovedOn
    <2>5. p \in Served /\ Right(p)
      BY <2>3, <2>4, MovedOn DEF Served, Right, Decided
    <2>6. Right(p)'
      BY <2>2, <2>5, RemainsRight
    <2>7. become(r, p)
      BY <1>9, <2>1, <2>4 DEF executeActionWithImpact
    <2> QED
      BY <2>2, <2>5, <2>6, <2>7, StepServes
  <1>10. ASSUME NEW r \in Requests, writeFails(r) \/ executionFails(r) \/ crash(r)
         PROVE  Kept /\ Serving'
    <2>1. Kept /\ Stable /\ become(r, Idle)
      BY <1>10, <1>u, <1>k DEF writeFails, executionFails, crash
    <2> QED
      BY <2>1, <1>i, StepServes
  <1>11. ASSUME NEW r \in Requests, storeKey(r)
         PROVE  Kept /\ Serving'
    <2>1. req[r] \in Acting /\ Decided(req[r])
      BY <1>11, ServedFields DEF storeKey, Serving, Right
    <2>2. req[r].record \in Records /\ (req[r].key # NoKey => req[r].key \in Keys)
      BY <2>1 DEF Acting, Decided
    <2>3. stored' \subseteq Records \X Keys
      BY <1>11, <2>2 DEF storeKey, DataTypes
    <2>4. Kept
      BY <1>11, <2>3 DEF storeKey, DataTypes, Kept
    <2> QED
      BY <1>11, <2>4, <1>k, <1>i, StepServes DEF storeKey
  <1>12. ASSUME NEW r \in Requests, NEW a \in Approvals, NEW user \in Users, approve(r, a, user)
         PROVE  Kept /\ Serving'
    <2> DEFINE q == [phase |-> "execute", approval |-> a, by |-> user]
    <2>1. Kept /\ Stable /\ become(r, q) /\ "approve" \in scope
      BY <1>12, <1>u, <1>k DEF approve, mayBegin
    <2>2. approval[a] \in Approval /\ approval[a].by # user
      BY <1>12 DEF approve, DataTypes, NoApproval
    <2>3. q \in Served
      BY DEF Served, Executing
    <2>4. Right(q)
      BY <2>1, <2>2 DEF Right
    <2>5. Right(q)'
      BY <2>1, <2>3, <2>4, RemainsRight
    <2> QED
      BY <2>1, <2>3, <2>5, StepServes
  <1>13. ASSUME NEW r \in Requests, executeProductApproval(r)
         PROVE  Kept /\ Serving'
    <2>1. PICK q : q = req[r]
      OBVIOUS
    <2>2. Kept /\ Stable /\ q.phase = "execute"
      BY <1>13, <2>1, <1>u, <1>k DEF executeProductApproval
    <2>3. /\ q \in Executing /\ "approve" \in scope /\ approval[q.approval] \in Approval
          /\ approval[q.approval].by # q.by
      BY <2>1, <2>2, ServedFields DEF Serving, Right
    <2>a. /\ [q EXCEPT !.phase = "mark"] \in Executing
          /\ [q EXCEPT !.phase = "mark"].approval = q.approval
          /\ [q EXCEPT !.phase = "mark"].by = q.by
          /\ [q EXCEPT !.phase = "mark"].phase = "mark"
      BY <2>3 DEF Executing
    <2>4. PICK p \in Executing : p = [q EXCEPT !.phase = "mark"] /\ p.approval = q.approval
                                 /\ p.by = q.by /\ p.phase = "mark"
      BY <2>a
    <2>5. p \in Served /\ Right(p)
      BY <2>3, <2>4 DEF Served, Right
    <2>6. Right(p)'
      BY <2>2, <2>5, RemainsRight
    <2>7. become(r, p)
      BY <1>13, <2>1, <2>4 DEF executeProductApproval
    <2> QED
      BY <2>2, <2>5, <2>6, <2>7, StepServes
  <1>14. ASSUME NEW r \in Requests, markApproved(r)
         PROVE  Kept /\ Serving'
    <2>1. req[r] \in Executing /\ approval[req[r].approval] \in Approval
      BY <1>14, ServedFields DEF markApproved, Serving, Right
    <2>2. PICK a \in Approvals : a = req[r].approval
      BY <2>1 DEF Executing
    <2>3. PICK v : v = [approval[a] EXCEPT !.status = "APPROVED"]
      OBVIOUS
    <2>4. approval' = [approval EXCEPT ![a] = v]
      BY <1>14, <2>2, <2>3 DEF markApproved
    <2>5. v \in Approval /\ v.by = approval[a].by
      BY <2>1, <2>2, <2>3, ApprovedType
    <2>a. UNCHANGED <<stored, expired>>
      BY <1>14 DEF markApproved
    <2>b. \A b \in Approvals : approval'[b] = IF b = a THEN v ELSE approval[b]
      BY <2>4 DEF DataTypes
    <2>c. approval' \in [Approvals -> {NoApproval} \cup Approval]
      BY <2>4, <2>5 DEF DataTypes
    <2>6. Kept
      BY <2>5, <2>a, <2>b, <2>c DEF DataTypes, Kept
    <2> QED
      BY <1>14, <2>6, <1>k, <1>i, StepServes DEF markApproved
  <1>15. ASSUME NEW x \in Records, bidExpires(x)
         PROVE  Kept /\ Serving'
    <2>1. Kept
      BY <1>15 DEF bidExpires, DataTypes, Kept
    <2> QED
      BY <1>15, <2>1, <1>k, NoneServes DEF bidExpires
  <1>16. ASSUME UNCHANGED vars PROVE Kept /\ Serving'
    BY <1>16, <1>u, <1>k, NoneServes DEF vars
  <1> QED
    BY <1>1, <1>2, <1>3, <1>4, <1>5, <1>6, <1>7, <1>8, <1>9, <1>10, <1>11, <1>12, <1>13, <1>14,
       <1>15, <1>16 DEF Next

LEMMA AlwaysTyped == Spec => [](DataTypes /\ Serving)
  <1>1. Init => DataTypes /\ Serving
    BY InitTypes
  <1>2. DataTypes /\ Serving /\ [Next]_vars => (DataTypes /\ Serving)'
    BY TypesNext
  <1> QED
    BY <1>1, <1>2, PTL DEF Spec

LEMMA TypesGiveTypeOK ==
  ASSUME DataTypes, Serving
  PROVE  TypeOK
  <1>1. ASSUME NEW x \in Records
        PROVE  /\ row[x] \in {NoRow, Removed} \cup Row(Kind(x))
               /\ Exists(x) => row[x].amount \in Int
               /\ ledger[x] \in Seq(Int) /\ exposures[x] \in Nat
    BY DEF DataTypes, Exists, Row, RowWith
  <1>2. ASSUME NEW r \in Requests
        PROVE  \/ req[r] \in {Idle} \cup Executing
               \/ req[r].phase = "edit" /\ req[r].record \in Records
               \/ req[r] \in Acting
    BY DEF Serving, Served, Editing
  <1> QED
    BY <1>1, <1>2 DEF TypeOK, DataTypes

\* Every record keeps a status of its kind, and every request what it has read.
THEOREM TypeCorrect == Spec => []TypeOK
  BY AlwaysTyped, TypesGiveTypeOK, PTL
-----------------------------------------------------------------------------
(***************************************************************************)
(* Requests that do not overlap.  What one of them has read is still so    *)
(* when it writes.                                                         *)
(***************************************************************************)

\* What was posted for is not done again; an offer is edited before it is
\* accepted; a key is looked up before it is stored.
Current(q) ==
  LET x == q.record
  IN /\ q.phase = "write" =>
          /\ Exists(x)
          /\ q.action = "utilise" => q.patch.part <= row[x].amount
          /\ q.action # "utilise" /\ Kind(x) \in DOMAIN Posts => row[x].status # Posts[Kind(x)]
     /\ q.phase = "edit" =>
          /\ Exists(x) /\ assertEditable(x)
          /\ Kind(x) \in {"offer", "facility"} => validateRecord(x, over(q.fields, row[x]))
     /\ q.phase \in {"read", "ask", "write"} => Exists(x) /\ <<x, q.key>> \notin stored

OneAtATime ==
  Without({"overlap"}) =>
    /\ \A r, s \in Requests : req[r] # Idle /\ req[s] # Idle => r = s
    /\ \A r \in Requests : Current(req[r])

OffersAddUp ==
  Without({"edit"}) \/ Without({"overlap"}) =>
    \A x \in Records : Exists(x) /\ Kind(x) = "offer" => addsUp(row[x])

\* A posting is the last thing that happens to an offer or a bid.
PostingIsLast ==
  Without({"overlap", "approve"}) =>
    \A x \in Records :
      /\ Kind(x) = "offer" \/ Without({"edit"}) =>
           /\ Len(ledger[x]) <= 1
           /\ ledger[x] # <<>> /\ Exists(x) => Kind(x) \in DOMAIN Posts /\ row[x].status = Posts[Kind(x)]

PostedForRecords == \A x \in Records : row[x] = NoRow => ledger[x] = <<>>

PartAsPosted ==
  Without({"edit"}) \/ Without({"overlap", "approve"}) =>
    \A x \in Records : Exists(x) /\ Kind(x) = "offer" /\ ledger[x] # <<>> =>
      row[x].part = ledger[x][Len(ledger[x])]

\* Without an approval, what is written to the gated status is small.
SmallIsWritten ==
  Without({"skip", "edit"}) =>
    \A r \in Requests :
      LET q == req[r]  x == q.record
      IN q.phase = "write" /\ Exists(x) /\ Kind(x) \in DOMAIN Gates /\ q.action = Gates[Kind(x)]
         => ~Large(x, row[x])

UsedKeysAreStored ==
  Without({"overlap", "crash", "approve"}) =>
    \A x \in Records, key \in Keys :
      /\ uses[x][key] <= 1
      /\ uses[x][key] = 1 => \/ <<x, key>> \in stored
                             \/ \E r \in Requests : /\ req[r].phase = "store"
                                                    /\ req[r].record = x /\ req[r].key = key

LEMMA OneMoves ==
  ASSUME Serving, OneAtATime, Without({"overlap"}), scope' = scope,
         NEW r \in Requests, NEW q \in Served, become(r, q), Quiet \/ req[r] # Idle, Current(q)'
  PROVE  OneAtATime'
  <1>1. \A s \in Requests : s # r => req[s] = Idle
    BY DEF Quiet, OneAtATime
  <1>2. \A s \in Requests : req'[s] = IF s = r THEN q ELSE Idle
    BY <1>1 DEF become, Serving
  <1>3. \A s, t \in Requests : req'[s] # Idle /\ req'[t] # Idle => s = t
    BY <1>2
  <1>4. ASSUME NEW s \in Requests PROVE Current(req[s])'
    <2>1. CASE s = r
      <3>1. req'[s] = q
        BY <1>2, <2>1
      <3> QED
        BY <3>1 DEF Current, Exists
    <2>2. CASE s # r
      <3>1. req'[s] = Idle
        BY <1>2, <2>2
      <3> QED
        BY <3>1 DEF Current, Idle
    <2> QED
      BY <2>1, <2>2
  <1> QED
    BY <1>3, <1>4 DEF OneAtATime

LEMMA NoneMoves ==
  ASSUME Serving, Without({"overlap"}), Quiet, UNCHANGED req
  PROVE  OneAtATime'
  <1>1. \A s \in Requests : req'[s] = Idle
    BY DEF Quiet
  <1>2. ASSUME NEW s \in Requests PROVE Current(req[s])'
    <2>1. req'[s] = Idle
      BY <1>1
    <2> QED
      BY <2>1 DEF Current, Idle
  <1> QED
    BY <1>1, <1>2 DEF OneAtATime

LEMMA ValidAlike ==
  ASSUME NEW x, NEW new, Kind(x) \in {"offer", "facility"}, validateRecord(x, new)
  PROVE  validateRecord(x, new)'
  BY DEF validateRecord, addsUp, Kind

LEMMA OneAtATimeInit ==
  ASSUME Init
  PROVE  OneAtATime
  BY DEF Init, OneAtATime, Current, Idle

LEMMA OneAtATimeNext ==
  ASSUME DataTypes, Serving, OneAtATime, [Next]_vars
  PROVE  OneAtATime'
  <1>s. scope' = scope
    BY ScopeStays
  <1> SUFFICES ASSUME Without({"overlap"}) PROVE OneAtATime'
    BY <1>s DEF OneAtATime, Without
  <1>b. ASSUME NEW r \in Requests, NEW op, mayBegin(r, op) PROVE Quiet /\ req[r] = Idle
    BY <1>b DEF mayBegin, Without
  <1>i. Idle \in Served /\ Current(Idle)'
    BY DEF Served, Current, Idle
  <1>1. ASSUME NEW r \in Requests, NEW x \in Records, NEW data \in Inputs[x], create(r, x, data)
        PROVE  OneAtATime'
    BY <1>1, <1>b, NoneMoves DEF create
  <1>2. ASSUME NEW r \in Requests, NEW x \in Records, NEW fields \in Edits[KindOf[x]],
               update(r, x, fields)
        PROVE  OneAtATime'
    <2>1. PICK q : q = [phase |-> "edit", record |-> x, fields |-> fields]
      OBVIOUS
    <2>2. q.phase = "edit" /\ q.record = x /\ q.fields = fields
      BY <2>1
    <2>3. q \in Served
      BY <2>1, KindIsKnown DEF Served, Editing, Kind
    <2>4. become(r, q) /\ Quiet /\ row' = row
      BY <1>2, <2>1, <1>b DEF update
    <2>5. PICK new : new = over(fields, row[x]) /\ new = over(fields, row'[x])
      BY <2>4
    <2>6. validateRecord(x, new) /\ Exists(x) /\ assertEditable(x)
      BY <1>2, <2>5 DEF update
    <2>7. (Kind(x) \in {"offer", "facility"} => validateRecord(x, new))'
      BY <2>6, ValidAlike DEF Kind
    <2>8. Exists(x)' /\ assertEditable(x)'
      BY <2>4, <2>6 DEF Exists, assertEditable, Kind
    <2>9. Current(q)'
      BY <2>2, <2>5, <2>7, <2>8 DEF Current, Kind
    <2> QED
      BY <1>s, <2>3, <2>4, <2>9, OneMoves
  <1>3. ASSUME NEW r \in Requests, NEW x \in Records, remove(r, x) \/ createApproval(r, x)
        PROVE  OneAtATime'
    BY <1>3, <1>b, NoneMoves DEF remove, createApproval
  <1>4. ASSUME NEW r \in Requests, NEW x \in Records, action(r, x)
        PROVE  OneAtATime'
    <2>1. PICK q \in Asked(x) : /\ mayBegin(r, IF q.action = "utilise" THEN "utilise" ELSE "act")
                                /\ <<x, q.key>> \notin stored /\ become(r, q)
      BY <1>4 DEF action
    <2>2. Quiet /\ UNCHANGED <<row, stored>> /\ Exists(x)
      BY <1>4, <2>1, <1>b DEF action
    <2>3. q \in Served /\ q.phase = "read" /\ q.record = x
      BY <2>2, ActionsKnown DEF Exists
    <2>4. Current(q)'
      BY <2>1, <2>2, <2>3 DEF Current, Exists
    <2> QED
      BY <1>s, <2>1, <2>2, <2>3, <2>4, OneMoves
  <1>6. ASSUME NEW r \in Requests,
               updateRecord(r) \/ ask(r) \/ writeFails(r) \/ storeKey(r) \/ executionFails(r)
                 \/ markApproved(r) \/ crash(r)
        PROVE  OneAtATime'
    <2>1. become(r, Idle) /\ req[r] # Idle
      BY <1>6 DEF updateRecord, ask, writeFails, storeKey, executionFails, markApproved, crash, Idle
    <2> QED
      BY <1>s, <1>i, <2>1, OneMoves
  <1>7. ASSUME NEW r \in Requests, readAndDecide(r)
        PROVE  OneAtATime'
    <2>1. PICK q : q = req[r]
      OBVIOUS
    <2>2. UNCHANGED <<row, stored>> /\ q.phase = "read" /\ req[r] # Idle
      BY <1>7, <2>1 DEF readAndDecide, Idle
    <2>3. q \in Acting /\ Decided(q) /\ q.record \in Records
      BY <2>1, <2>2, ServedFields DEF Serving, Right, Acting
    <2>c. Exists(q.record) /\ <<q.record, q.key>> \notin stored
      BY <2>1, <2>2 DEF OneAtATime, Current
    <2>4. CASE req' = [req EXCEPT ![r] = Idle]
      BY <1>s, <2>2, <2>4, <1>i, OneMoves DEF become
    <2>5. CASE req' = [req EXCEPT ![r] = [q EXCEPT !.phase = "ask"]]
      <3>1. PICK p \in Acting : p = [q EXCEPT !.phase = "ask"]
        BY <2>3, MovedOn
      <3>2. p \in Served /\ p.phase = "ask" /\ p.record = q.record /\ p.key = q.key
        BY <2>3, <3>1, MovedOn DEF Served
      <3>3. Current(p)'
        BY <2>2, <2>c, <3>2 DEF Current, Exists
      <3> QED
        BY <1>s, <2>2, <2>5, <3>1, <3>2, <3>3, OneMoves DEF become
    <2>6. CASE /\ req' = [req EXCEPT ![r] =
                            [q EXCEPT !.phase = "write", !.patch = actionPatch(q, row[q.record])]]
               /\ Exists(q.record) /\ actionPatch(q, row[q.record]) # NoRow
      <3> DEFINE x == q.record
      <3>1. PICK w \in RowWith(AnyStatus) :
              /\ w = actionPatch(q, row[x])
              /\ q.action = "utilise" => /\ w.part = row[x].part + q.amount
                                         /\ row[x].part + q.amount <= row[x].amount
              /\ q.action # "utilise" => allowed(x, q.action, row[x].status)
        BY <2>3, <2>6, PatchIs
      <3>2. PICK p \in Acting : p = [q EXCEPT !.phase = "write", !.patch = w]
        BY <2>3, ToWrite
      <3>a. w \in RowWith(AnyStatus) /\ q \in Acting
        BY <2>3
      <3>3. /\ p.phase = "write" /\ p.patch = w /\ p.record = x
            /\ p.action = q.action /\ p.key = q.key
        BY <3>2, <3>a DEF Acting
      <3>4. q.action = "utilise" => w.part <= row[x].amount
        BY <3>1
      <3>5. q.action # "utilise" /\ Kind(x) \in DOMAIN Posts => row[x].status # Posts[Kind(x)]
        BY <3>1 DEF Posts, allowed, dynamicDiscountingAction, marketplaceBidAction
      <3>6. Current(p)'
        BY <2>2, <2>c, <3>3, <3>4, <3>5 DEF Current, Exists, Kind, Posts
      <3>7. become(r, p)
        BY <2>6, <3>1, <3>2 DEF become
      <3> QED
        BY <1>s, <2>2, <3>6, <3>7, OneMoves DEF Served
    <2> QED
      BY <1>7, <2>1, <2>4, <2>5, <2>6 DEF readAndDecide, become
  <1>9. ASSUME NEW r \in Requests, executeActionWithImpact(r)
        PROVE  OneAtATime'
    <2>1. PICK q : q = req[r]
      OBVIOUS
    <2>2. q \in Acting /\ req[r] # Idle
      BY <1>9, <2>1, ServedFields DEF executeActionWithImpact, Serving, Idle
    <2>3. PICK p \in Acting : p = [q EXCEPT !.phase = "store"] /\ p.phase = "store"
      BY <2>2, MovedOn
    <2>4. Current(p)'
      BY <2>3 DEF Current
    <2>5. become(r, p)
      BY <1>9, <2>1, <2>3 DEF executeActionWithImpact
    <2> QED
      BY <1>s, <2>2, <2>4, <2>5, OneMoves DEF Served
  <1>12. ASSUME NEW r \in Requests, NEW a \in Approvals, NEW user \in Users, approve(r, a, user)
         PROVE  OneAtATime'
    <2>a. [phase |-> "execute", approval |-> a, by |-> user] \in Executing
      BY DEF Executing
    <2>1. PICK q \in Executing :
            q = [phase |-> "execute", approval |-> a, by |-> user] /\ q.phase = "execute"
      BY <2>a
    <2>2. Current(q)'
      BY <2>1 DEF Current
    <2>3. become(r, q) /\ Quiet
      BY <1>12, <2>1, <1>b DEF approve
    <2> QED
      BY <1>s, <2>2, <2>3, OneMoves DEF Served
  <1>13. ASSUME NEW r \in Requests, executeProductApproval(r)
         PROVE  OneAtATime'
    <2>1. PICK q : q = req[r]
      OBVIOUS
    <2>a. q.phase = "execute"
      BY <1>13, <2>1 DEF executeProductApproval
    <2>2. q \in Executing /\ req[r] # Idle
      BY <2>1, <2>a, ServedFields DEF Serving, Idle
    <2>3. [q EXCEPT !.phase = "mark"] \in Executing /\ [q EXCEPT !.phase = "mark"].phase = "mark"
      BY <2>2 DEF Executing
    <2>4. PICK p \in Executing : p = [q EXCEPT !.phase = "mark"] /\ p.phase = "mark"
      BY <2>3
    <2>5. Current(p)'
      BY <2>4 DEF Current
    <2>6. become(r, p)
      BY <1>13, <2>1, <2>4 DEF executeProductApproval
    <2> QED
      BY <1>s, <2>2, <2>5, <2>6, OneMoves DEF Served
  <1>15. ASSUME (\E x \in Records : bidExpires(x)) \/ UNCHANGED vars
         PROVE  OneAtATime'
    <2>1. UNCHANGED <<row, stored, req, scope>>
      BY <1>15 DEF bidExpires, vars
    <2>2. ASSUME NEW s \in Requests PROVE Current(req[s])'
      <3>1. PICK q : q = req[s] /\ q = req'[s]
        BY <2>1
      <3>2. Current(q)
        BY <3>1 DEF OneAtATime
      <3>3. PICK x, new : x = q.record /\ new = over(q.fields, row[x]) /\ new = over(q.fields, row'[x])
        BY <2>1
      <3>4. Kind(x) \in {"offer", "facility"} /\ validateRecord(x, new) => validateRecord(x, new)'
        BY ValidAlike
      <3>5. Current(q)'
        BY <2>1, <3>2, <3>3, <3>4 DEF Current, Exists, Kind, Posts, assertEditable
      <3> QED
        BY <3>1, <3>5 DEF Current, Exists
    <2> QED
      BY <2>1, <2>2 DEF OneAtATime, Without
  <1> QED
    BY <1>1, <1>2, <1>3, <1>4, <1>6, <1>7, <1>9, <1>12, <1>13, <1>15 DEF Next
-----------------------------------------------------------------------------
(***************************************************************************)
(* What has reached its final status is on the ledger.                     *)
(***************************************************************************)

LEMMA TargetsOf ==
  ASSUME NEW k \in Kinds, NEW a \in DOMAIN Target[k]
  PROVE  /\ k = "offer" => /\ Target[k][a] = "SETTLED" <=> a = "settle"
                           /\ Target[k][a] = "ACCEPTED" <=> a = "accept"
         /\ k = "bid" => (Target[k][a] = "ALLOCATED" <=> a = "allocate")
         /\ k = "facility" => (Target[k][a] = "ACTIVE" <=> a = "activate")
         /\ k = "scorecard" => (Target[k][a] = "ACTIVE" <=> a = "activate")
  <1>1. CASE k = "offer"
    <2>1. a \in {"accept", "settle", "cancel"}
      BY <1>1 DEF Target
    <2> QED
      BY <1>1, <2>1 DEF Target
  <1>2. CASE k = "facility"
    <2>1. a \in {"approve", "activate", "suspend", "close"}
      BY <1>2 DEF Target
    <2> QED
      BY <1>2, <2>1 DEF Target
  <1>3. CASE k = "bid"
    <2>1. a \in {"confirm", "allocate", "withdraw"}
      BY <1>3 DEF Target
    <2> QED
      BY <1>3, <2>1 DEF Target
  <1>4. CASE k = "scorecard"
    <2>1. a \in {"review", "activate", "expire"}
      BY <1>4 DEF Target
    <2> QED
      BY <1>4, <2>1 DEF Target
  <1>5. CASE k \in {"signal", "report"}
    BY <1>5
  <1> QED
    BY <1>1, <1>2, <1>3, <1>4, <1>5 DEF Kinds

LEMMA PresetStatuses ==
  ASSUME NEW x \in Records, NEW status, ~Preset(x, status)
  PROVE  /\ Kind(x) \in DOMAIN Posts => status # Posts[Kind(x)]
         /\ Kind(x) = "facility" => status # "ACTIVE"
         /\ Kind(x) \in DOMAIN Gates => status # Target[Kind(x)][Gates[Kind(x)]]
  <1>1. Kind(x) \in Kinds
    BY KindIsKnown
  <1>2. CASE Kind(x) = "offer"
    BY <1>2 DEF Preset, Posts, Gates, Target
  <1>3. CASE Kind(x) = "facility"
    BY <1>3 DEF Preset, Posts, Gates, Target
  <1>4. CASE Kind(x) = "bid"
    BY <1>4 DEF Preset, Posts, Gates, Target
  <1>5. CASE Kind(x) = "scorecard"
    BY <1>5 DEF Preset, Posts, Gates, Target
  <1>6. CASE Kind(x) \in {"signal", "report"}
    BY <1>6 DEF Posts, Gates
  <1> QED
    BY <1>1, <1>2, <1>3, <1>4, <1>5, <1>6 DEF Kinds

LEMMA FinalIsPostedInit ==
  ASSUME Init
  PROVE  FinalIsPosted
  BY DEF Init, FinalIsPosted, Exists

\* An action that is applied to a record, as the request or an approval has it.
LEMMA ImpactIsPosted ==
  ASSUME DataTypes, FinalIsPosted, Without({"edit", "preset"}), scope' = scope,
         NEW x \in Records, NEW new, NEW act, Impact(x, act, new), Exists(x),
         \/ new.status = row[x].status
         \/ act \in DOMAIN Target[Kind(x)] /\ new.status = Target[Kind(x)][act]
  PROVE  FinalIsPosted'
  <1>1. ASSUME NEW y \in Records, Exists(y)',
               Kind(y) \in DOMAIN Posts, row'[y].status = Posts[Kind(y)]
        PROVE  ledger'[y] # <<>>
    <2>1. CASE y # x \/ new.status = row[x].status
      <3>1. Exists(y) /\ row[y].status = Posts[Kind(y)]
        BY <1>1, <2>1 DEF Impact, Replaced, Exists
      <3>2. ledger[y] # <<>>
        BY <1>1, <3>1 DEF FinalIsPosted
      <3> QED
        BY <3>2 DEF Impact
    <2>2. CASE y = x /\ act \in DOMAIN Target[Kind(x)] /\ new.status = Target[Kind(x)][act]
      <3>1. Kind(x) \in {"offer", "bid"}
        BY <1>1, <2>2 DEF Posts
      <3>2. Target[Kind(x)][act] = Posts[Kind(x)]
        BY <1>1, <2>2 DEF Impact, Replaced
      <3>3. Posting(x, act)
        BY <2>2, <3>1, <3>2, KindIsKnown, TargetsOf DEF Posts, Posting
      <3> QED
        BY <2>2, <3>3 DEF Impact
    <2> QED
      BY <2>1, <2>2
  <1>2. ASSUME NEW y \in Records, Exists(y)', Kind(y) = "facility", row'[y].status = "ACTIVE"
        PROVE  Limited(y)' /\ exposures'[y] > 0
    <2>1. CASE y # x \/ new.status = row[x].status
      <3>1. Exists(y) /\ row[y].status = "ACTIVE"
        BY <1>2, <2>1 DEF Impact, Replaced, Exists
      <3>2. Limited(y) /\ exposures[y] > 0 /\ exposures[y] \in Nat
        BY <1>2, <3>1 DEF FinalIsPosted, DataTypes
      <3>3. exposures'[y] >= exposures[y] /\ exposures'[y] \in Nat
        BY DEF Impact
      <3>4. \A d \in Matching(DimensionOf[y]) : limits[d] # <<>> => limits'[d] # <<>>
        BY DEF Impact, Matching
      <3>5. Limited(y)'
        BY <3>2, <3>4 DEF Limited
      <3> QED
        BY <3>2, <3>3, <3>5
    <2>2. CASE y = x /\ act \in DOMAIN Target[Kind(x)] /\ new.status = Target[Kind(x)][act]
      <3>1. activates(x, act)
        BY <1>2, <2>2, KindIsKnown, TargetsOf DEF Impact, Replaced, activates
      <3> QED
        BY <2>2, <3>1 DEF Impact
    <2> QED
      BY <2>1, <2>2
  <1> QED
    BY <1>1, <1>2 DEF FinalIsPosted, Kind

LEMMA FinalIsPostedNext ==
  ASSUME DataTypes, Serving, FinalIsPosted, [Next]_vars
  PROVE  FinalIsPosted'
  <1>s. scope' = scope
    BY ScopeStays
  <1> SUFFICES ASSUME Without({"edit", "preset"}) PROVE FinalIsPosted'
    BY <1>s DEF FinalIsPosted, Without
  <1>1. CASE UNCHANGED Rows
    BY <1>s, <1>1 DEF Rows, FinalIsPosted, Exists, Without, Kind, Limited
  <1>2. CASE \E x \in Records : \E data \in Inputs[x] : \E new : Creates(x, new, data)
    <2>1. PICK x \in Records : \E data \in Inputs[x] : \E new : Creates(x, new, data)
      BY <1>2
    <2>2p. PICK data \in Inputs[x] : \E new : Creates(x, new, data)
      BY <2>1
    <2>2. PICK new : Creates(x, new, data)
      BY <2>2p
    <2>3. Replaced(x, new) /\ new.status = data.status /\ UNCHANGED <<ledger, limits, exposures>>
      BY <2>2, ReplacedBy DEF Creates
    <2>4. /\ Kind(x) \in DOMAIN Posts => row'[x].status # Posts[Kind(x)]
          /\ Kind(x) = "facility" => row'[x].status # "ACTIVE"
      <3>1. ~Preset(x, data.status)
        BY <2>2 DEF Creates, Without
      <3>2. row'[x].status = data.status
        BY <2>3 DEF Replaced
      <3> QED
        BY <3>1, <3>2, PresetStatuses
    <2>5. \A y \in Records \ {x} : row'[y] = row[y]
      BY <2>3 DEF Replaced
    <2> QED
      BY <2>3, <2>4, <2>5 DEF FinalIsPosted, Exists, Kind, Limited
  <1>3. CASE \E r \in Requests, x \in Records : \E new :
               req[r].phase = "edit" /\ "edit" \in scope /\ Changes(r, x, new)
    BY <1>3 DEF Without
  <1>4. CASE \E r \in Requests, x \in Records : remove(r, x)
    <2>1. PICK r \in Requests, x \in Records : remove(r, x)
      BY <1>4
    <2>2. row' = [row EXCEPT ![x] = Removed] /\ UNCHANGED <<ledger, limits, exposures>>
      BY <2>1 DEF remove
    <2>3. row'[x] = Removed /\ \A y \in Records \ {x} : row'[y] = row[y]
      BY <2>2 DEF DataTypes
    <2> QED
      BY <2>2, <2>3 DEF FinalIsPosted, Exists, Kind, Limited
  <1>5. CASE \E r \in Requests, x \in Records : \E new, act, key : Writes(r, x, new, act, key)
    <2>1p. PICK r \in Requests, x \in Records : \E new, act, key : Writes(r, x, new, act, key)
      BY <1>5
    <2>1. PICK new, act, key : Writes(r, x, new, act, key)
      BY <2>1p
    <2>2. Exists(x) /\ \/ new.status = row[x].status
                       \/ act \in DOMAIN Target[Kind(x)] /\ new.status = Target[Kind(x)][act]
      BY <2>1 DEF Writes
    <2> QED
      BY <1>s, <2>1, <2>2, WriteImpact, ImpactIsPosted
  <1>6. CASE \E r \in Requests, x \in Records : \E new, act : Executes(r, x, new, act)
    <2>1p. PICK r \in Requests, x \in Records : \E new, act : Executes(r, x, new, act)
      BY <1>6
    <2>1. PICK new, act : Executes(r, x, new, act)
      BY <2>1p
    <2>2. Exists(x) /\ act \in DOMAIN Target[Kind(x)] /\ new.status = Target[Kind(x)][act]
      BY <2>1 DEF Executes
    <2> QED
      BY <1>s, <2>1, <2>2, ExecuteImpact, ImpactIsPosted
  <1> QED
    BY <1>1, <1>2, <1>3, <1>4, <1>5, <1>6, StepsOnRows
-----------------------------------------------------------------------------
(***************************************************************************)
(* Postings are made once and as agreed.                                   *)
(***************************************************************************)

LEMMA PostingsInit ==
  ASSUME Init
  PROVE  PostedForRecords /\ OffersAddUp /\ PostingIsLast /\ PartAsPosted
  BY DEF Init, PostedForRecords, OffersAddUp, PostingIsLast, PartAsPosted, Exists

LEMMA PostedForRecordsNext ==
  ASSUME DataTypes, Serving, PostedForRecords, [Next]_vars
  PROVE  PostedForRecords'
  <1>1. ASSUME NEW x \in Records, NEW new, NEW act, Impact(x, act, new), Exists(x)
        PROVE  PostedForRecords'
    BY <1>1 DEF PostedForRecords, Impact, Replaced, Exists
  <1>2. CASE UNCHANGED Rows
    BY <1>2 DEF Rows, PostedForRecords
  <1>3. CASE UNCHANGED ledger
    BY <1>3, RowsNext DEF PostedForRecords
  <1>4. CASE \E r \in Requests, x \in Records : \E new, act, key : Writes(r, x, new, act, key)
    <2>1p. PICK r \in Requests, x \in Records : \E new, act, key : Writes(r, x, new, act, key)
      BY <1>4
    <2>1. PICK new, act, key : Writes(r, x, new, act, key)
      BY <2>1p
    <2>2. Exists(x)
      BY <2>1 DEF Writes
    <2> QED
      BY <1>1, <2>1, <2>2, WriteImpact
  <1>5. CASE \E r \in Requests, x \in Records : \E new, act : Executes(r, x, new, act)
    <2>1p. PICK r \in Requests, x \in Records : \E new, act : Executes(r, x, new, act)
      BY <1>5
    <2>1. PICK new, act : Executes(r, x, new, act)
      BY <2>1p
    <2>2. Exists(x)
      BY <2>1 DEF Executes
    <2> QED
      BY <1>1, <2>1, <2>2, ExecuteImpact
  <1> QED
    BY <1>2, <1>3, <1>4, <1>5, StepsOnRows DEF Creates, Changes, remove

\* A request that edits an offer or utilises a facility has read it as it is.
LEMMA EditedAsRead ==
  ASSUME OneAtATime, Without({"overlap"}), NEW r \in Requests, NEW x, NEW new,
         req[r].phase = "edit", Changes(r, x, new)
  PROVE  /\ assertEditable(x)
         /\ Kind(x) \in {"offer", "facility"} => validateRecord(x, new)
  <1>1. Current(req[r])
    BY DEF OneAtATime
  <1> QED
    BY <1>1 DEF Current, Changes

LEMMA OffersAddUpNext ==
  ASSUME DataTypes, Serving, OneAtATime, OffersAddUp, [Next]_vars
  PROVE  OffersAddUp'
  <1>s. scope' = scope
    BY ScopeStays
  <1> SUFFICES ASSUME Without({"edit"}) \/ Without({"overlap"}) PROVE OffersAddUp'
    BY <1>s DEF OffersAddUp, Without
  <1>1. ASSUME NEW x \in Records, NEW new, Replaced(x, new),
               Kind(x) = "offer" => addsUp(new)
        PROVE  OffersAddUp'
    BY <1>s, <1>1 DEF OffersAddUp, Replaced, Exists, Kind, addsUp
  <1>2. CASE UNCHANGED Rows
    BY <1>s, <1>2 DEF Rows, OffersAddUp, Exists, Without, Kind, addsUp
  <1>v. ASSUME NEW x, NEW new \in Row(Kind(x)), Kind(x) = "offer", validateRecord(x, new)
        PROVE  addsUp(new)
    BY <1>v DEF validateRecord
  <1>3. CASE \E x \in Records : \E data \in Inputs[x] : \E new : Creates(x, new, data)
    <2>1p. PICK x \in Records : \E new : Replaced(x, new) /\ new \in Row(Kind(x)) /\ validateRecord(x, new)
      BY <1>3, ReplacedBy DEF Creates
    <2>1. PICK new : Replaced(x, new) /\ new \in Row(Kind(x)) /\ validateRecord(x, new)
      BY <2>1p
    <2> QED
      BY <1>1, <1>v, <2>1
  <1>4. CASE \E r \in Requests, x \in Records : \E new :
               req[r].phase = "edit" /\ "edit" \in scope /\ Changes(r, x, new)
    <2>1p. PICK r \in Requests, x \in Records : \E new :
            req[r].phase = "edit" /\ "edit" \in scope /\ Changes(r, x, new)
      BY <1>4
    <2>1. PICK new :
            req[r].phase = "edit" /\ "edit" \in scope /\ Changes(r, x, new)
      BY <2>1p
    <2>2. Without({"overlap"})
      BY <2>1 DEF Without
    <2>3. Kind(x) = "offer" => validateRecord(x, new)
      BY <2>1, <2>2, EditedAsRead
    <2>4. Replaced(x, new) /\ new \in Row(Kind(x))
      BY <2>1, ReplacedBy DEF Changes
    <2> QED
      BY <1>1, <1>v, <2>3, <2>4
  <1>5. CASE \E r \in Requests, x \in Records : remove(r, x)
    <2>1. PICK r \in Requests, x \in Records : remove(r, x)
      BY <1>5
    <2>2. row' = [row EXCEPT ![x] = Removed]
      BY <2>1 DEF remove
    <2>3. row'[x] = Removed /\ \A y \in Records \ {x} : row'[y] = row[y]
      BY <2>2 DEF DataTypes
    <2> QED
      BY <1>s, <2>3 DEF OffersAddUp, Exists, Kind, addsUp
  <1>k. ASSUME NEW x \in Records, NEW new, Replaced(x, new), Exists(x), Kind(x) # "facility" =>
               new.part = row[x].part /\ new.amount = row[x].amount /\ new.net = row[x].net
        PROVE  OffersAddUp'
    BY <1>1, <1>k DEF OffersAddUp, addsUp
  <1>6. CASE \E r \in Requests, x \in Records : \E new, act, key : Writes(r, x, new, act, key)
    <2>1p. PICK r \in Requests, x \in Records : \E new, act, key : Writes(r, x, new, act, key)
      BY <1>6
    <2>1. PICK new, act, key : Writes(r, x, new, act, key)
      BY <2>1p
    <2>2. Exists(x) /\ (Kind(x) # "facility" =>
            new.part = row[x].part /\ new.amount = row[x].amount /\ new.net = row[x].net)
      BY <2>1 DEF Writes
    <2>3. Replaced(x, new)
      BY <2>1, WriteImpact DEF Impact
    <2> QED
      BY <1>k, <2>2, <2>3
  <1>7. CASE \E r \in Requests, x \in Records : \E new, act : Executes(r, x, new, act)
    <2>1p. PICK r \in Requests, x \in Records : \E new, act : Executes(r, x, new, act)
      BY <1>7
    <2>1. PICK new, act : Executes(r, x, new, act)
      BY <2>1p
    <2>2. Exists(x) /\ new.part = row[x].part /\ new.amount = row[x].amount /\ new.net = row[x].net
      BY <2>1 DEF Executes
    <2>3. Replaced(x, new)
      BY <2>1, ExecuteImpact DEF Impact
    <2> QED
      BY <1>k, <2>2, <2>3
  <1> QED
    BY <1>2, <1>3, <1>4, <1>5, <1>6, <1>7, StepsOnRows

\* What a posting of this record looks like to the two invariants below.
NothingFollows(x) ==
  /\ Len(ledger[x]) <= 1
  /\ ledger[x] # <<>> /\ Exists(x) => Kind(x) \in DOMAIN Posts /\ row[x].status = Posts[Kind(x)]

LEMMA PostingIsLastNext ==
  ASSUME DataTypes, Serving, OneAtATime, PostedForRecords, PostingIsLast, [Next]_vars
  PROVE  PostingIsLast'
  <1>s. scope' = scope
    BY ScopeStays
  <1> SUFFICES ASSUME Without({"overlap", "approve"}), NEW y \in Records,
                      Kind(y) = "offer" \/ Without({"edit"})
               PROVE  NothingFollows(y)'
    BY <1>s DEF PostingIsLast, Without, NothingFollows, Kind
  <1>y. NothingFollows(y) /\ Without({"overlap"}) /\ ledger[y] \in Seq(Int)
    BY DEF PostingIsLast, NothingFollows, Without, DataTypes
  <1>u. ASSUME ledger'[y] = ledger[y],
               Exists(y)' => Exists(y) /\ row'[y].status = row[y].status
        PROVE  NothingFollows(y)'
    BY <1>y, <1>u DEF NothingFollows, Kind
  <1>1. CASE UNCHANGED Rows
    BY <1>1, <1>u DEF Rows, Exists
  <1>2. CASE \E x \in Records : \E data \in Inputs[x] : \E new : Creates(x, new, data)
    <2>1p. PICK x \in Records : \E new : Replaced(x, new) /\ row[x] = NoRow /\ UNCHANGED ledger
      BY <1>2, ReplacedBy DEF Creates
    <2>1. PICK new : Replaced(x, new) /\ row[x] = NoRow /\ UNCHANGED ledger
      BY <2>1p
    <2>2. CASE y = x
      <3>1. ledger'[y] = <<>>
        BY <2>1, <2>2 DEF PostedForRecords
      <3> QED
        BY <3>1 DEF NothingFollows
    <2>3. CASE y # x
      BY <1>u, <2>1, <2>3 DEF Replaced, Exists
    <2> QED
      BY <2>2, <2>3
  <1>3. CASE \E r \in Requests, x \in Records : \E new :
               req[r].phase = "edit" /\ "edit" \in scope /\ Changes(r, x, new)
    <2>1p. PICK r \in Requests, x \in Records : \E new :
            req[r].phase = "edit" /\ "edit" \in scope /\ Changes(r, x, new)
      BY <1>3
    <2>1. PICK new :
            req[r].phase = "edit" /\ "edit" \in scope /\ Changes(r, x, new)
      BY <2>1p
    <2>2. Kind(y) = "offer" /\ assertEditable(x) /\ Replaced(x, new) /\ UNCHANGED ledger /\ Exists(x)
      BY <1>y, <2>1, EditedAsRead, ReplacedBy DEF Changes, Without
    <2>3. CASE y = x
      <3>1. row[x].status # "SETTLED"
        BY <2>2, <2>3 DEF assertEditable
      <3>2. ledger[y] = <<>>
        BY <1>y, <2>2, <2>3, <3>1 DEF NothingFollows, Posts
      <3> QED
        BY <2>2, <3>2 DEF NothingFollows
    <2>4. CASE y # x
      BY <1>u, <2>2, <2>4 DEF Replaced, Exists
    <2> QED
      BY <2>3, <2>4
  <1>4. CASE \E r \in Requests, x \in Records : remove(r, x)
    <2>1. PICK r \in Requests, x \in Records : remove(r, x)
      BY <1>4
    <2>2. row' = [row EXCEPT ![x] = Removed] /\ UNCHANGED ledger
      BY <2>1 DEF remove
    <2>3. row'[x] = Removed /\ \A z \in Records \ {x} : row'[z] = row[z]
      BY <2>2 DEF DataTypes
    <2> QED
      BY <1>u, <2>2, <2>3 DEF Exists
  <1>5. CASE \E r \in Requests, x \in Records : \E new, act, key : Writes(r, x, new, act, key)
    <2>1p. PICK r \in Requests, x \in Records : \E new, act, key : Writes(r, x, new, act, key)
      BY <1>5
    <2>1. PICK new, act, key : Writes(r, x, new, act, key)
      BY <2>1p
    <2>2. Impact(x, act, new) /\ Exists(x) /\ act = req[r].action /\ x = req[r].record
      BY <2>1, WriteImpact DEF Writes
    <2>3. CASE y # x
      BY <1>u, <2>2, <2>3 DEF Impact, Replaced, Exists
    <2>4. CASE y = x /\ act = "utilise"
      <3>1. Kind(x) = "facility" /\ new.status = row[x].status
        BY <2>1, <2>4 DEF Writes
      <3>2. ~Posting(x, act)
        BY <3>1 DEF Posting
      <3> QED
        BY <1>u, <2>2, <2>4, <3>1, <3>2 DEF Impact, Replaced
    <2>5. CASE y = x /\ act # "utilise" /\ Kind(x) \in DOMAIN Posts
      <3>1. row[x].status # Posts[Kind(x)]
        <4>1. Current(req[r])
          BY <1>y DEF OneAtATime
        <4> QED
          BY <2>1, <2>2, <2>5, <4>1 DEF Current, Writes
      <3>2. ledger[x] = <<>>
        BY <1>y, <2>2, <2>5, <3>1 DEF NothingFollows
      <3>3. CASE Posting(x, act)
        <4>1. Len(ledger'[x]) = 1
          BY <2>2, <3>2, <3>3 DEF Impact
        <4>2. act \in DOMAIN Target[Kind(x)] /\ new.status = Target[Kind(x)][act]
          BY <2>1, <2>5 DEF Writes
        <4>3. new.status = Posts[Kind(x)]
          BY <3>3, <4>2, KindIsKnown, TargetsOf DEF Posting, Posts
        <4> QED
          BY <2>2, <2>5, <4>1, <4>3 DEF NothingFollows, Impact, Replaced, Kind
      <3>4. CASE ~Posting(x, act)
        BY <2>2, <2>5, <3>2, <3>4 DEF NothingFollows, Impact
      <3> QED
        BY <3>3, <3>4
    <2>6. CASE y = x /\ Kind(x) \notin DOMAIN Posts
      <3>1. ~Posting(x, act)
        BY <2>6 DEF Posting, Posts
      <3>2. ledger'[y] = ledger[y]
        BY <2>2, <3>1 DEF Impact
      <3>3. ledger[y] = <<>>
        BY <1>y, <2>2, <2>6 DEF NothingFollows
      <3> QED
        BY <3>2, <3>3 DEF NothingFollows
    <2> QED
      BY <2>3, <2>4, <2>5, <2>6
  <1>6. CASE \E r \in Requests, x \in Records : \E new, act : Executes(r, x, new, act)
    BY <1>6 DEF Executes, Without
  <1> QED
    BY <1>1, <1>2, <1>3, <1>4, <1>5, <1>6, StepsOnRows

AsPosted(x) ==
  Exists(x) /\ Kind(x) = "offer" /\ ledger[x] # <<>> => row[x].part = ledger[x][Len(ledger[x])]

LEMMA PartAsPostedNext ==
  ASSUME DataTypes, Serving, OneAtATime, PostedForRecords, PostingIsLast, PartAsPosted, [Next]_vars
  PROVE  PartAsPosted'
  <1>s. scope' = scope
    BY ScopeStays
  <1> SUFFICES ASSUME Without({"edit"}) \/ Without({"overlap", "approve"}), NEW y \in Records,
                      Kind(y) = "offer"
               PROVE  AsPosted(y)'
    BY <1>s DEF PartAsPosted, Without, AsPosted, Kind
  <1>y. AsPosted(y)
    BY DEF PartAsPosted, AsPosted
  <1>u. ASSUME ledger'[y] = ledger[y], Exists(y)' => Exists(y) /\ row'[y].part = row[y].part
        PROVE  AsPosted(y)'
    BY <1>y, <1>u DEF AsPosted, Kind
  <1>i. ASSUME NEW x \in Records, NEW new, NEW act, Impact(x, act, new), Exists(x),
               Kind(x) = "offer" => new.part = row[x].part
        PROVE  AsPosted(y)'
    <2>1. CASE y = x /\ Posting(x, act)
      BY <1>i, <2>1 DEF AsPosted, Impact, Replaced
    <2>2. CASE y # x \/ ~Posting(x, act)
      BY <1>i, <1>u, <2>2 DEF Impact, Replaced, Exists
    <2> QED
      BY <2>1, <2>2
  <1>1. CASE UNCHANGED Rows
    BY <1>1, <1>u DEF Rows, Exists
  <1>2. CASE \E x \in Records : \E data \in Inputs[x] : \E new : Creates(x, new, data)
    <2>1p. PICK x \in Records : \E new : Replaced(x, new) /\ row[x] = NoRow /\ UNCHANGED ledger
      BY <1>2, ReplacedBy DEF Creates
    <2>1. PICK new : Replaced(x, new) /\ row[x] = NoRow /\ UNCHANGED ledger
      BY <2>1p
    <2>2. CASE y = x
      BY <2>1, <2>2 DEF PostedForRecords, AsPosted
    <2>3. CASE y # x
      BY <1>u, <2>1, <2>3 DEF Replaced, Exists
    <2> QED
      BY <2>2, <2>3
  <1>3. CASE \E r \in Requests, x \in Records : \E new :
               req[r].phase = "edit" /\ "edit" \in scope /\ Changes(r, x, new)
    <2>1p. PICK r \in Requests, x \in Records : \E new :
            req[r].phase = "edit" /\ "edit" \in scope /\ Changes(r, x, new)
      BY <1>3
    <2>1. PICK new :
            req[r].phase = "edit" /\ "edit" \in scope /\ Changes(r, x, new)
      BY <2>1p
    <2>a. Without({"overlap", "approve"}) /\ Without({"overlap"})
      BY <2>1 DEF Without
    <2>2. assertEditable(x) /\ Replaced(x, new) /\ UNCHANGED ledger /\ Exists(x)
      BY <2>1, <2>a, EditedAsRead, ReplacedBy DEF Changes
    <2>3. CASE y = x
      <3>1. row[x].status # "SETTLED"
        BY <2>2, <2>3 DEF assertEditable
      <3>2. ledger[y] = <<>>
        BY <2>a, <2>2, <2>3, <3>1 DEF PostingIsLast, Posts
      <3> QED
        BY <2>2, <3>2 DEF AsPosted
    <2>4. CASE y # x
      BY <1>u, <2>2, <2>4 DEF Replaced, Exists
    <2> QED
      BY <2>3, <2>4
  <1>4. CASE \E r \in Requests, x \in Records : remove(r, x)
    <2>1. PICK r \in Requests, x \in Records : remove(r, x)
      BY <1>4
    <2>2. row' = [row EXCEPT ![x] = Removed] /\ UNCHANGED ledger
      BY <2>1 DEF remove
    <2>3. row'[x] = Removed /\ \A z \in Records \ {x} : row'[z] = row[z]
      BY <2>2 DEF DataTypes
    <2> QED
      BY <1>u, <2>2, <2>3 DEF Exists
  <1>5. CASE \E r \in Requests, x \in Records : \E new, act, key : Writes(r, x, new, act, key)
    <2>1p. PICK r \in Requests, x \in Records : \E new, act, key : Writes(r, x, new, act, key)
      BY <1>5
    <2>1. PICK new, act, key : Writes(r, x, new, act, key)
      BY <2>1p
    <2>2. Exists(x) /\ (Kind(x) = "offer" => new.part = row[x].part)
      BY <2>1 DEF Writes
    <2> QED
      BY <1>i, <2>1, <2>2, WriteImpact
  <1>6. CASE \E r \in Requests, x \in Records : \E new, act : Executes(r, x, new, act)
    <2>1p. PICK r \in Requests, x \in Records : \E new, act : Executes(r, x, new, act)
      BY <1>6
    <2>1. PICK new, act : Executes(r, x, new, act)
      BY <2>1p
    <2>2. Exists(x) /\ new.part = row[x].part
      BY <2>1 DEF Executes
    <2> QED
      BY <1>i, <2>1, <2>2, ExecuteImpact
  <1> QED
    BY <1>1, <1>2, <1>3, <1>4, <1>5, <1>6, StepsOnRows

PostingInv ==
  /\ DataTypes /\ Serving /\ OneAtATime /\ FinalIsPosted
  /\ PostedForRecords /\ OffersAddUp /\ PostingIsLast /\ PartAsPosted

LEMMA PostingInvGives ==
  ASSUME PostingInv
  PROVE  PostingsHold
  <1>1. TypeOK
    BY TypesGiveTypeOK DEF PostingInv
  <1>2. FinalIsPosted
    BY DEF PostingInv
  <1>3. PostedOnce
    BY DEF PostingInv, PostingIsLast, PostedOnce, Without
  <1>4. PostedAsAgreed
    BY DEF PostingInv, PartAsPosted, OffersAddUp, PostedAsAgreed, Without
  <1> QED
    BY <1>1, <1>2, <1>3, <1>4 DEF PostingsHold

\* What an action or an approval has brought to its final status is on the
\* ledger; it posts once where requests do not overlap and no approval is
\* executed, and what it posted is what an offer goes on to say.
THEOREM FinalProductsArePosted == Spec => []PostingsHold
  <1>1. Init => PostingInv
    BY InitTypes, OneAtATimeInit, FinalIsPostedInit, PostingsInit DEF PostingInv
  <1>2. PostingInv /\ [Next]_vars => PostingInv'
    BY TypesNext, OneAtATimeNext, FinalIsPostedNext, PostedForRecordsNext, OffersAddUpNext,
       PostingIsLastNext, PartAsPostedNext DEF PostingInv
  <1>3. PostingInv => PostingsHold
    BY PostingInvGives
  <1> QED
    BY <1>1, <1>2, <1>3, PTL DEF Spec
-----------------------------------------------------------------------------
(***************************************************************************)
(* A facility is used within its limit, facilities have one limit record,  *)
(* and a key is applied once.                                              *)
(***************************************************************************)

LEMMA FacilitiesInit ==
  ASSUME Init
  PROVE  WithinFacility /\ OneLimitPerDimension /\ UsedKeysAreStored
  <1>1. Len(<<>>) <= 1
    OBVIOUS
  <1> QED
    BY <1>1 DEF Init, WithinFacility, OneLimitPerDimension, UsedKeysAreStored, Exists

LEMMA WithinFacilityNext ==
  ASSUME DataTypes, Serving, OneAtATime, WithinFacility, [Next]_vars
  PROVE  WithinFacility'
  <1>s. scope' = scope
    BY ScopeStays
  <1> SUFFICES ASSUME Without({"overlap"}) PROVE WithinFacility'
    BY <1>s DEF WithinFacility, Without
  <1>1. ASSUME NEW x \in Records, NEW new, Replaced(x, new),
               Kind(x) = "facility" => new.part <= new.amount
        PROVE  WithinFacility'
    BY <1>1 DEF WithinFacility, Replaced, Exists, Kind
  <1>v. ASSUME NEW x, NEW new \in Row(Kind(x)), Kind(x) = "facility", validateRecord(x, new)
        PROVE  new.part <= new.amount
    BY <1>v DEF validateRecord
  <1>w. ASSUME NEW x \in Records, Exists(x), Kind(x) = "facility"
        PROVE  row[x].part <= row[x].amount
    BY <1>w DEF WithinFacility
  <1>2. CASE UNCHANGED Rows
    BY <1>2 DEF Rows, WithinFacility, Exists, Kind
  <1>3. CASE \E x \in Records : \E data \in Inputs[x] : \E new : Creates(x, new, data)
    <2>1p. PICK x \in Records : \E new : Replaced(x, new) /\ new \in Row(Kind(x)) /\ validateRecord(x, new)
      BY <1>3, ReplacedBy DEF Creates
    <2>1. PICK new : Replaced(x, new) /\ new \in Row(Kind(x)) /\ validateRecord(x, new)
      BY <2>1p
    <2> QED
      BY <1>1, <1>v, <2>1
  <1>4. CASE \E r \in Requests, x \in Records : \E new :
               req[r].phase = "edit" /\ "edit" \in scope /\ Changes(r, x, new)
    <2>1p. PICK r \in Requests, x \in Records : \E new :
            req[r].phase = "edit" /\ "edit" \in scope /\ Changes(r, x, new)
      BY <1>4
    <2>1. PICK new :
            req[r].phase = "edit" /\ "edit" \in scope /\ Changes(r, x, new)
      BY <2>1p
    <2>2. Kind(x) = "facility" => validateRecord(x, new)
      BY <2>1, EditedAsRead
    <2>3. Replaced(x, new) /\ new \in Row(Kind(x))
      BY <2>1, ReplacedBy DEF Changes
    <2> QED
      BY <1>1, <1>v, <2>2, <2>3
  <1>5. CASE \E r \in Requests, x \in Records : remove(r, x)
    <2>1. PICK r \in Requests, x \in Records : remove(r, x)
      BY <1>5
    <2>2. row' = [row EXCEPT ![x] = Removed]
      BY <2>1 DEF remove
    <2>3. row'[x] = Removed /\ \A y \in Records \ {x} : row'[y] = row[y]
      BY <2>2 DEF DataTypes
    <2> QED
      BY <2>3 DEF WithinFacility, Exists, Kind
  <1>6. CASE \E r \in Requests, x \in Records : \E new, act, key : Writes(r, x, new, act, key)
    <2>1p. PICK r \in Requests, x \in Records : \E new, act, key : Writes(r, x, new, act, key)
      BY <1>6
    <2>1. PICK new, act, key : Writes(r, x, new, act, key)
      BY <2>1p
    <2>2. Replaced(x, new)
      BY <2>1, WriteImpact DEF Impact
    <2>3. /\ Exists(x) /\ row[x] \in Row(Kind(x)) /\ new.amount = row[x].amount
          /\ act = "utilise" => new.part = req[r].patch.part
          /\ act # "utilise" => new.part = row[x].part
          /\ act = req[r].action /\ x = req[r].record /\ req[r].phase = "write"
      BY <2>1 DEF Writes
    <2>4. act = "utilise" => new.part <= row[x].amount
      <3>1. Current(req[r])
        BY DEF OneAtATime
      <3> QED
        BY <2>3, <3>1 DEF Current
    <2>5. Kind(x) = "facility" => new.part <= new.amount
      <3>1. CASE act = "utilise"
        BY <2>3, <2>4, <3>1
      <3>2. CASE act # "utilise"
        BY <1>w, <2>3, <3>2
      <3> QED
        BY <3>1, <3>2
    <2> QED
      BY <1>1, <2>2, <2>5
  <1>7. CASE \E r \in Requests, x \in Records : \E new, act : Executes(r, x, new, act)
    <2>1p. PICK r \in Requests, x \in Records : \E new, act : Executes(r, x, new, act)
      BY <1>7
    <2>1. PICK new, act : Executes(r, x, new, act)
      BY <2>1p
    <2>2. Exists(x) /\ new.part = row[x].part /\ new.amount = row[x].amount
      BY <2>1 DEF Executes
    <2>3. Replaced(x, new)
      BY <2>1, ExecuteImpact DEF Impact
    <2> QED
      BY <1>1, <1>w, <2>2, <2>3
  <1> QED
    BY <1>2, <1>3, <1>4, <1>5, <1>6, <1>7, StepsOnRows

LEMMA OneLimitNext ==
  ASSUME DataTypes, Serving, OneLimitPerDimension, [Next]_vars
  PROVE  OneLimitPerDimension'
  <1>s. scope' = scope
    BY ScopeStays
  <1> SUFFICES ASSUME Without({"overlap", "approve"}) PROVE OneLimitPerDimension'
    BY <1>s DEF OneLimitPerDimension, Without
  <1>1. CASE UNCHANGED limits
    BY <1>1 DEF OneLimitPerDimension, Dimensions
  <1>2. CASE \E r \in Requests, x \in Records : \E new, act, key : Writes(r, x, new, act, key)
    <2>1. \A s \in Dimensions : limits'[s] = limits[s] \/ Len(limits'[s]) = 1
      BY <1>2, WriteImpact
    <2>2. ASSUME NEW s \in Dimensions PROVE Len(limits'[s]) <= 1
      <3>1. Len(limits[s]) <= 1
        BY DEF OneLimitPerDimension
      <3>2. CASE limits'[s] = limits[s]
        BY <3>1, <3>2
      <3>3. CASE Len(limits'[s]) = 1
        BY <3>3
      <3> QED
        BY <2>1, <3>2, <3>3
    <2> QED
      BY <2>2 DEF OneLimitPerDimension, Dimensions
  <1>3. CASE \E r \in Requests, x \in Records : \E new, act : Executes(r, x, new, act)
    BY <1>3 DEF Executes, Without
  <1> QED
    BY <1>1, <1>2, <1>3, StepsOnRows DEF Rows, Creates, Changes, remove

\* A step that neither uses nor stores a key, nor ends a request about to.
LEMMA KeysKept ==
  ASSUME DataTypes, Serving, UsedKeysAreStored, scope' = scope,
         Without({"overlap", "crash", "approve"}),
         \A x \in Records, key \in Keys : uses'[x][key] = uses[x][key],
         stored \subseteq stored', \A r \in Requests : req[r].phase = "store" => req'[r] = req[r]
  PROVE  UsedKeysAreStored'
  <1>1. ASSUME NEW x \in Records, NEW key \in Keys
        PROVE  /\ uses'[x][key] <= 1
               /\ uses'[x][key] = 1 => \/ <<x, key>> \in stored'
                                       \/ \E r \in Requests : /\ req'[r].phase = "store"
                                                              /\ req'[r].record = x /\ req'[r].key = key
    <2>1. /\ uses[x][key] <= 1
          /\ uses[x][key] = 1 => \/ <<x, key>> \in stored
                                 \/ \E r \in Requests : /\ req[r].phase = "store"
                                                        /\ req[r].record = x /\ req[r].key = key
      BY DEF UsedKeysAreStored, Without
    <2>2. uses'[x][key] = uses[x][key]
      OBVIOUS
    <2>3. ASSUME NEW r \in Requests, req[r].phase = "store", req[r].record = x, req[r].key = key
          PROVE  req'[r].phase = "store" /\ req'[r].record = x /\ req'[r].key = key
      BY <2>3
    <2> QED
      BY <2>1, <2>2, <2>3
  <1> QED
    BY <1>1 DEF UsedKeysAreStored

LEMMA KeysNext ==
  ASSUME DataTypes, Serving, OneAtATime, UsedKeysAreStored, [Next]_vars
  PROVE  UsedKeysAreStored'
  <1>s. scope' = scope
    BY ScopeStays
  <1> SUFFICES ASSUME Without({"overlap", "crash", "approve"}) PROVE UsedKeysAreStored'
    BY <1>s DEF UsedKeysAreStored, Without
  <1>o. Without({"overlap"}) /\ "crash" \notin scope /\ "approve" \notin scope
    BY DEF Without
  <1>k. ASSUME UNCHANGED <<uses, stored>>,
               UNCHANGED req \/ \E r \in Requests : \E q : become(r, q) /\ req[r].phase # "store"
        PROVE  UsedKeysAreStored'
    <2>1. \A r \in Requests : req[r].phase = "store" => req'[r] = req[r]
      BY <1>k DEF become, Serving
    <2> QED
      BY <1>s, <1>k, <2>1, KeysKept
  <1>1. ASSUME NEW r \in Requests, NEW x \in Records,
               \/ \E data \in Inputs[x] : create(r, x, data)
               \/ \E fields \in Edits[KindOf[x]] : update(r, x, fields)
               \/ remove(r, x) \/ action(r, x) \/ createApproval(r, x)
        PROVE  UsedKeysAreStored'
    <2>1. UNCHANGED <<uses, stored>>
      BY <1>1 DEF create, update, remove, action, createApproval
    <2>2. CASE (\E data \in Inputs[x] : create(r, x, data)) \/ remove(r, x) \/ createApproval(r, x)
      BY <1>k, <2>1, <2>2 DEF create, remove, createApproval
    <2>3. CASE (\E fields \in Edits[KindOf[x]] : update(r, x, fields)) \/ action(r, x)
      <3>1. req[r] = Idle /\ \E q : become(r, q)
        BY <2>3 DEF update, action, mayBegin
      <3> QED
        BY <1>k, <2>1, <3>1 DEF Idle
    <2> QED
      BY <1>1, <2>2, <2>3
  <1>2. ASSUME NEW r \in Requests,
               \/ updateRecord(r) \/ readAndDecide(r) \/ ask(r) \/ writeFails(r) \/ crash(r)
               \/ \E a \in Approvals, user \in Users : approve(r, a, user)
               \/ executionFails(r) \/ markApproved(r)
        PROVE  UsedKeysAreStored'
    <2>1. UNCHANGED <<uses, stored>>
      BY <1>2 DEF updateRecord, readAndDecide, ask, writeFails, crash, approve, executionFails,
                  markApproved
    <2>2. \E q : become(r, q)
      BY <1>2 DEF updateRecord, readAndDecide, ask, writeFails, crash, approve, executionFails,
                  markApproved
    <2>3. req[r].phase # "store"
      <3>1. CASE updateRecord(r)
        BY <3>1 DEF updateRecord
      <3>2. CASE readAndDecide(r)
        BY <3>2 DEF readAndDecide
      <3>3. CASE ask(r) \/ writeFails(r) \/ executionFails(r) \/ markApproved(r)
        BY <3>3 DEF ask, writeFails, executionFails, markApproved
      <3>4. CASE crash(r)
        BY <1>o, <3>4 DEF crash
      <3>5. CASE \E a \in Approvals, user \in Users : approve(r, a, user)
        <4>1. req[r] = Idle
          BY <3>5 DEF approve, mayBegin
        <4> QED
          BY <4>1 DEF Idle
      <3> QED
        BY <1>2, <3>1, <3>2, <3>3, <3>4, <3>5
    <2> QED
      BY <1>k, <2>1, <2>2, <2>3
  <1>3. ASSUME NEW r \in Requests, executeActionWithImpact(r)
        PROVE  UsedKeysAreStored'
    <2>1p. PICK x \in Records : \E new, act, key : Writes(r, x, new, act, key)
      BY <1>3, Written
    <2>1. PICK new, act, key : Writes(r, x, new, act, key)
      BY <2>1p
    <2>2. req[r].phase = "write" /\ x = req[r].record /\ key = req[r].key /\ key \in Keys \cup {NoKey}
      BY <2>1 DEF Writes
    <2>3. <<x, key>> \notin stored
      <3>1. Current(req[r])
        BY <1>o DEF OneAtATime
      <3> QED
        BY <2>2, <3>1 DEF Current
    <2>4. \A s \in Requests : s # r => req[s] = Idle
      BY <1>o, <2>2 DEF OneAtATime, Idle
    <2>5. \A s \in Requests : req[s].phase # "store"
      BY <2>2, <2>4 DEF Idle
    <2>6. /\ req'[r].phase = "store" /\ req'[r].record = x /\ req'[r].key = key
          /\ stored' = stored
      <3>1. req[r] \in Acting
        BY <2>2, ServedFields DEF Serving
      <3>2. PICK p : p = [req[r] EXCEPT !.phase = "store"]
        OBVIOUS
      <3>3. p.phase = "store" /\ p.record = x /\ p.key = key
        BY <2>2, <3>1, <3>2 DEF Acting
      <3>4. req' = [req EXCEPT ![r] = p] /\ stored' = stored
        BY <1>3, <3>2 DEF executeActionWithImpact, become
      <3> QED
        BY <3>3, <3>4 DEF Serving
    <2>7. \A y \in Records, k \in Keys \cup {NoKey} :
            uses'[y][k] = IF y = x /\ k = key THEN uses[y][k] + 1 ELSE uses[y][k]
      BY <2>1, WriteImpact
    <2>8. ASSUME NEW y \in Records, NEW k \in Keys
          PROVE  /\ uses'[y][k] <= 1
                 /\ uses'[y][k] = 1 => \/ <<y, k>> \in stored'
                                       \/ \E s \in Requests : /\ req'[s].phase = "store"
                                                              /\ req'[s].record = y /\ req'[s].key = k
      <3>1. /\ uses[y][k] <= 1 /\ uses[y][k] \in Nat
            /\ uses[y][k] = 1 => <<y, k>> \in stored
        <4>1. /\ uses[y][k] <= 1
              /\ uses[y][k] = 1 => \/ <<y, k>> \in stored
                                   \/ \E s \in Requests : /\ req[s].phase = "store"
                                                          /\ req[s].record = y /\ req[s].key = k
          BY DEF UsedKeysAreStored
        <4>2. uses[y][k] \in Nat
          BY DEF DataTypes
        <4> QED
          BY <2>5, <4>1, <4>2
      <3>2. CASE y = x /\ k = key
        <4>1. uses[y][k] = 0
          BY <2>3, <3>1, <3>2
        <4> QED
          BY <2>6, <2>7, <3>2, <4>1
      <3>3. CASE ~(y = x /\ k = key)
        <4>1. uses'[y][k] = uses[y][k]
          BY <2>7, <3>3
        <4> QED
          BY <2>6, <3>1, <4>1
      <3> QED
        BY <3>2, <3>3
    <2> QED
      BY <2>8 DEF UsedKeysAreStored
  <1>4. ASSUME NEW r \in Requests, storeKey(r)
        PROVE  UsedKeysAreStored'
    <2>1. /\ req[r].phase = "store" /\ UNCHANGED uses /\ req' = [req EXCEPT ![r] = Idle]
          /\ stored' = IF req[r].key # NoKey THEN stored \cup {<<req[r].record, req[r].key>>} ELSE stored
      BY <1>4 DEF storeKey, become
    <2>2. ASSUME NEW y \in Records, NEW k \in Keys
          PROVE  /\ uses'[y][k] <= 1
                 /\ uses'[y][k] = 1 => \/ <<y, k>> \in stored'
                                       \/ \E s \in Requests : /\ req'[s].phase = "store"
                                                              /\ req'[s].record = y /\ req'[s].key = k
      <3>1. /\ uses[y][k] <= 1
            /\ uses[y][k] = 1 => \/ <<y, k>> \in stored
                                 \/ \E s \in Requests : /\ req[s].phase = "store"
                                                        /\ req[s].record = y /\ req[s].key = k
        BY DEF UsedKeysAreStored, Without
      <3>2. ASSUME NEW s \in Requests, req[s].phase = "store", req[s].record = y, req[s].key = k
            PROVE  \/ <<y, k>> \in stored'
                   \/ req'[s].phase = "store" /\ req'[s].record = y /\ req'[s].key = k
        <4>1. CASE s = r
          BY <2>1, <3>2, <4>1
        <4>2. CASE s # r
          BY <2>1, <3>2, <4>2 DEF Serving
        <4> QED
          BY <4>1, <4>2
      <3> QED
        BY <2>1, <3>1, <3>2
    <2> QED
      BY <2>2 DEF UsedKeysAreStored
  <1>5. ASSUME NEW r \in Requests, executeProductApproval(r)
        PROVE  UsedKeysAreStored'
    <2>1. \E x \in Records : \E new, act : Executes(r, x, new, act)
      BY <1>5, Executed
    <2> QED
      BY <1>o, <2>1 DEF Executes
  <1>6. ASSUME (\E x \in Records : bidExpires(x)) \/ UNCHANGED vars
        PROVE  UsedKeysAreStored'
    BY <1>6, <1>k DEF bidExpires, vars
  <1> QED
    BY <1>1, <1>2, <1>3, <1>4, <1>5, <1>6 DEF Next

FacilityInv ==
  /\ DataTypes /\ Serving /\ OneAtATime
  /\ WithinFacility /\ OneLimitPerDimension /\ UsedKeysAreStored

\* Uses and edits of a facility stay within its limit, there is one limit record
\* from the facilities of a supplier, programme and currency, and a key does one
\* thing.
THEOREM FacilitiesAreKept == Spec => []FacilitiesHold
  <1>1. Init => FacilityInv
    BY InitTypes, OneAtATimeInit, FacilitiesInit DEF FacilityInv
  <1>2. FacilityInv /\ [Next]_vars => FacilityInv'
    BY TypesNext, OneAtATimeNext, WithinFacilityNext, OneLimitNext, KeysNext DEF FacilityInv
  <1>3. FacilityInv => FacilitiesHold
    BY DEF FacilityInv, FacilitiesHold, UsedKeysAreStored, KeyAppliedOnce
  <1> QED
    BY <1>1, <1>2, <1>3, PTL DEF Spec
-----------------------------------------------------------------------------
(***************************************************************************)
(* Large amounts need a second user.                                       *)
(***************************************************************************)

LEMMA LargeByAmount ==
  ASSUME NEW x, NEW v, NEW w, v.amount = w.amount
  PROVE  Large(x, v) <=> Large(x, w)
  BY DEF Large

\* Without edits a record keeps its amount.
LEMMA AmountsStay ==
  ASSUME DataTypes, Serving, [Next]_vars, Without({"edit"})
  PROVE  \A x \in Records : row[x] # NoRow /\ Exists(x)' =>
           Exists(x) /\ row'[x].amount = row[x].amount
  <1> SUFFICES ASSUME NEW y \in Records, row[y] # NoRow, Exists(y)'
               PROVE  Exists(y) /\ row'[y].amount = row[y].amount
    OBVIOUS
  <1>1. ASSUME NEW x \in Records, NEW new, Replaced(x, new),
               y = x => Exists(x) /\ new.amount = row[x].amount
        PROVE  Exists(y) /\ row'[y].amount = row[y].amount
    BY <1>1 DEF Replaced, Exists
  <1>2. CASE UNCHANGED Rows
    BY <1>2 DEF Rows, Exists
  <1>3. CASE \E x \in Records : \E data \in Inputs[x] : \E new : Creates(x, new, data)
    <2>1p. PICK x \in Records : \E new : Replaced(x, new) /\ row[x] = NoRow
      BY <1>3, ReplacedBy DEF Creates
    <2>1. PICK new : Replaced(x, new) /\ row[x] = NoRow
      BY <2>1p
    <2> QED
      BY <1>1, <2>1
  <1>4. CASE \E r \in Requests, x \in Records : \E new :
               req[r].phase = "edit" /\ "edit" \in scope /\ Changes(r, x, new)
    BY <1>4 DEF Without
  <1>5. CASE \E r \in Requests, x \in Records : remove(r, x)
    <2>1. PICK x \in Records : row' = [row EXCEPT ![x] = Removed]
      BY <1>5 DEF remove
    <2> QED
      BY <2>1 DEF Exists, DataTypes
  <1>6. CASE \E r \in Requests, x \in Records : \E new, act, key : Writes(r, x, new, act, key)
    <2>1p. PICK r \in Requests, x \in Records : \E new, act, key : Writes(r, x, new, act, key)
      BY <1>6
    <2>1. PICK new, act, key : Writes(r, x, new, act, key)
      BY <2>1p
    <2>2. Replaced(x, new)
      BY <2>1, WriteImpact DEF Impact
    <2>3. Exists(x) /\ new.amount = row[x].amount
      BY <2>1 DEF Writes
    <2> QED
      BY <1>1, <2>2, <2>3
  <1>7. CASE \E r \in Requests, x \in Records : \E new, act : Executes(r, x, new, act)
    <2>1p. PICK r \in Requests, x \in Records : \E new, act : Executes(r, x, new, act)
      BY <1>7
    <2>1. PICK new, act : Executes(r, x, new, act)
      BY <2>1p
    <2>2. Replaced(x, new)
      BY <2>1, ExecuteImpact DEF Impact
    <2>3. Exists(x) /\ new.amount = row[x].amount
      BY <2>1 DEF Executes
    <2> QED
      BY <1>1, <2>2, <2>3
  <1> QED
    BY <1>2, <1>3, <1>4, <1>5, <1>6, <1>7, StepsOnRows

\* A request comes to write by deciding to.
LEMMA DecidedToWrite ==
  ASSUME Serving, [Next]_vars, NEW s \in Requests, req'[s] # req[s], req'[s].phase = "write"
  PROVE  readAndDecide(s)
  <1>1. ASSUME NEW r, NEW q, become(r, q), q.phase # "write" PROVE FALSE
    BY <1>1 DEF become, Serving
  <1>i. Idle.phase # "write"
    BY DEF Idle
  <1>2. ASSUME NEW r \in Requests, NEW x \in Records,
               \/ \E data \in Inputs[x] : create(r, x, data)
               \/ remove(r, x) \/ createApproval(r, x)
        PROVE  FALSE
    BY <1>2 DEF create, remove, createApproval
  <1>3. ASSUME NEW r \in Requests, NEW x \in Records, NEW fields \in Edits[KindOf[x]],
               update(r, x, fields)
        PROVE  FALSE
    <2>1. PICK q : q = [phase |-> "edit", record |-> x, fields |-> fields]
      OBVIOUS
    <2>2. q.phase # "write" /\ become(r, q)
      BY <1>3, <2>1 DEF update
    <2> QED
      BY <1>1, <2>2
  <1>4. ASSUME NEW r \in Requests, NEW x \in Records, action(r, x)
        PROVE  FALSE
    <2>1. PICK q \in Asked(x) : become(r, q)
      BY <1>4 DEF action
    <2>2. q.phase # "write"
      BY <1>4, <2>1, ActionsKnown DEF action, Exists
    <2> QED
      BY <1>1, <2>1, <2>2
  <1>5. ASSUME NEW r \in Requests,
               updateRecord(r) \/ ask(r) \/ writeFails(r) \/ storeKey(r) \/ executionFails(r)
                 \/ markApproved(r) \/ crash(r)
        PROVE  FALSE
    <2>1. become(r, Idle)
      BY <1>5 DEF updateRecord, ask, writeFails, storeKey, executionFails, markApproved, crash
    <2> QED
      BY <1>1, <1>i, <2>1
  <1>6. ASSUME NEW r \in Requests, executeActionWithImpact(r)
        PROVE  FALSE
    <2>1. req[r] \in Acting
      BY <1>6, ServedFields DEF executeActionWithImpact, Serving
    <2>2. PICK q : q = [req[r] EXCEPT !.phase = "store"] /\ q.phase = "store"
      BY <2>1, MovedOn
    <2>3. become(r, q)
      BY <1>6, <2>2 DEF executeActionWithImpact
    <2> QED
      BY <1>1, <2>2, <2>3
  <1>7. ASSUME NEW r \in Requests, NEW a \in Approvals, NEW user \in Users, approve(r, a, user)
        PROVE  FALSE
    <2>1. PICK q : q = [phase |-> "execute", approval |-> a, by |-> user]
      OBVIOUS
    <2>2. q.phase # "write" /\ become(r, q)
      BY <1>7, <2>1 DEF approve
    <2> QED
      BY <1>1, <2>1, <2>2
  <1>8. ASSUME NEW r \in Requests, executeProductApproval(r)
        PROVE  FALSE
    <2>a. req[r].phase = "execute"
      BY <1>8 DEF executeProductApproval
    <2>1. req[r] \in Executing
      BY <2>a, ServedFields DEF Serving
    <2>b. [req[r] EXCEPT !.phase = "mark"].phase = "mark"
      BY <2>1 DEF Executing
    <2>2. PICK q : q = [req[r] EXCEPT !.phase = "mark"] /\ q.phase = "mark"
      BY <2>b
    <2>3. become(r, q)
      BY <1>8, <2>2 DEF executeProductApproval
    <2> QED
      BY <1>1, <2>2, <2>3
  <1>9. ASSUME NEW r \in Requests, readAndDecide(r)
        PROVE  r = s
    BY <1>9 DEF readAndDecide, become, Serving
  <1>10. ASSUME (\E x \in Records : bidExpires(x)) \/ UNCHANGED vars
         PROVE  FALSE
    BY <1>10 DEF bidExpires, vars
  <1> QED
    BY <1>2, <1>3, <1>4, <1>5, <1>6, <1>7, <1>8, <1>9, <1>10 DEF Next

LEMMA SmallNext ==
  ASSUME DataTypes, Serving, SmallIsWritten, [Next]_vars
  PROVE  SmallIsWritten'
  <1>s. scope' = scope
    BY ScopeStays
  <1> SUFFICES ASSUME Without({"skip", "edit"}), NEW r \in Requests, req'[r].phase = "write",
                      NEW x, x = req'[r].record, Exists(x)',
                      Kind(x) \in DOMAIN Gates, req'[r].action = Gates[Kind(x)]
               PROVE  ~Large(x, row'[x])
    BY <1>s DEF SmallIsWritten, Without, Kind, Large
  <1>e. Without({"edit"}) /\ "skip" \notin scope
    BY DEF Without
  <1>1. CASE req'[r] = req[r]
    <2>1. req[r] \in Acting /\ Decided(req[r])
      BY <1>1, ServedFields DEF Serving, Right
    <2>2. x \in Records /\ row[x] # NoRow
      BY <1>1, <2>1 DEF Acting, Decided
    <2>3. Exists(x) /\ row'[x].amount = row[x].amount
      BY <1>e, <2>2, AmountsStay
    <2>4. ~Large(x, row[x])
      BY <1>1, <2>3 DEF SmallIsWritten
    <2> QED
      BY <2>3, <2>4, LargeByAmount
  <1>2. CASE req'[r] # req[r]
    <2>1. readAndDecide(r)
      BY <1>2, DecidedToWrite
    <2>2. PICK q : q = req[r]
      OBVIOUS
    <2>3. q.phase = "read" /\ row' = row
      BY <2>1, <2>2 DEF readAndDecide
    <2>4. q \in Acting /\ Decided(q)
      BY <2>2, <2>3, ServedFields DEF Serving, Right
    <2>5. PICK w : w = actionPatch(q, row[q.record])
      OBVIOUS
    <2>6. /\ ~requiresApproval(q, row[q.record])
          /\ req' = [req EXCEPT ![r] = [q EXCEPT !.phase = "write", !.patch = w]]
      <3>1. CASE req' = [req EXCEPT ![r] = Idle]
        BY <3>1 DEF Serving, Idle
      <3>2. CASE req' = [req EXCEPT ![r] = [q EXCEPT !.phase = "ask"]]
        <4>1. req'[r].phase = "ask"
          BY <2>4, <3>2, MovedOn DEF Serving
        <4> QED
          BY <4>1
      <3> QED
        BY <2>1, <2>2, <2>5, <3>1, <3>2 DEF readAndDecide, become
    <2>7. req'[r].record = q.record /\ req'[r].action = q.action
      <3>1. req'[r] = [q EXCEPT !.phase = "write", !.patch = w]
        BY <2>6 DEF Serving
      <3> QED
        BY <2>4, <3>1 DEF Acting
    <2>8. q.skip = FALSE
      BY <1>e, <2>4 DEF Decided, Acting
    <2> QED
      BY <2>3, <2>6, <2>7, <2>8 DEF requiresApproval
  <1> QED
    BY <1>1, <1>2

LEMMA GatedStatus ==
  ASSUME NEW x \in Records, Kind(x) \in DOMAIN Gates
  PROVE  /\ Target[Kind(x)][Gates[Kind(x)]] # Removed.status
         /\ \A a \in DOMAIN Target[Kind(x)] :
              Target[Kind(x)][a] = Target[Kind(x)][Gates[Kind(x)]] => a = Gates[Kind(x)]
  <1>1. Kind(x) \in {"offer", "facility", "bid", "scorecard"}
    BY DEF Gates
  <1>2. CASE Kind(x) = "offer"
    <2>1. Gates[Kind(x)] = "accept" /\ Target[Kind(x)][Gates[Kind(x)]] = "ACCEPTED"
      BY <1>2 DEF Gates, Target
    <2> QED
      BY <1>2, <2>1, KindIsKnown, TargetsOf DEF Removed
  <1>3. CASE Kind(x) = "facility"
    <2>1. Gates[Kind(x)] = "activate" /\ Target[Kind(x)][Gates[Kind(x)]] = "ACTIVE"
      BY <1>3 DEF Gates, Target
    <2> QED
      BY <1>3, <2>1, KindIsKnown, TargetsOf DEF Removed
  <1>4. CASE Kind(x) = "bid"
    <2>1. Gates[Kind(x)] = "allocate" /\ Target[Kind(x)][Gates[Kind(x)]] = "ALLOCATED"
      BY <1>4 DEF Gates, Target
    <2> QED
      BY <1>4, <2>1, KindIsKnown, TargetsOf DEF Removed
  <1>5. CASE Kind(x) = "scorecard"
    <2>1. Gates[Kind(x)] = "activate" /\ Target[Kind(x)][Gates[Kind(x)]] = "ACTIVE"
      BY <1>5 DEF Gates, Target
    <2> QED
      BY <1>5, <2>1, KindIsKnown, TargetsOf DEF Removed
  <1> QED
    BY <1>1, <1>2, <1>3, <1>4, <1>5

LEMMA TwoUsersStep ==
  ASSUME DataTypes, Serving, SmallIsWritten, [Next]_vars, Without({"skip", "edit", "preset"}),
         NEW y \in Records, Kind(y) \in DOMAIN Gates,
         row[y].status # Target[Kind(y)][Gates[Kind(y)]],
         row'[y].status = Target[Kind(y)][Gates[Kind(y)]], Large(y, row'[y])
  PROVE  \E r \in Requests : /\ req[r].phase = "execute" /\ req'[r] # req[r]
                             /\ approval[req[r].approval].record = y
                             /\ approval[req[r].approval].by # req[r].by
  <1>1. row'[y] # row[y]
    OBVIOUS
  <1>2. CASE UNCHANGED Rows
    BY <1>1, <1>2 DEF Rows
  <1>3. CASE \E r \in Requests, x \in Records : \E data \in Inputs[x] : create(r, x, data)
    <2>1p. PICK x \in Records : \E new, data : Creates(x, new, data)
      BY <1>3, Created
    <2>1. PICK new, data : Creates(x, new, data)
      BY <2>1p
    <2>2. row'[x] = new /\ \A z \in Records \ {x} : row'[z] = row[z]
      BY <2>1, ReplacedBy DEF Creates, Replaced
    <2>3. y = x /\ row'[y].status = data.status /\ ~Preset(x, data.status)
      BY <1>1, <2>1, <2>2 DEF Creates, Without
    <2> QED
      BY <2>3, PresetStatuses
  <1>4. CASE \E r \in Requests : updateRecord(r)
    BY <1>4, Changed DEF Without
  <1>5. CASE \E r \in Requests, x \in Records : remove(r, x)
    <2>1. PICK x \in Records : row' = [row EXCEPT ![x] = Removed]
      BY <1>5 DEF remove
    <2>2. row'[y] = Removed
      BY <1>1, <2>1 DEF DataTypes
    <2> QED
      BY <2>2, GatedStatus
  <1>6. CASE \E r \in Requests : executeActionWithImpact(r)
    <2>1p. PICK r \in Requests, x \in Records : \E new, act, key : Writes(r, x, new, act, key)
      BY <1>6, Written
    <2>1. PICK new, act, key : Writes(r, x, new, act, key)
      BY <2>1p
    <2>2. Replaced(x, new)
      BY <2>1, WriteImpact DEF Impact
    <2>3. x = y /\ new.status = row'[y].status
      BY <1>1, <2>2 DEF Replaced
    <2>4. act = Gates[Kind(y)]
      <3>1. act # "utilise" /\ act \in DOMAIN Target[Kind(x)] /\ new.status = Target[Kind(x)][act]
        BY <2>1, <2>3 DEF Writes
      <3> QED
        BY <2>3, <3>1, GatedStatus
    <2>5. req[r].phase = "write" /\ req[r].record = y /\ req[r].action = Gates[Kind(y)]
      BY <2>1, <2>3, <2>4 DEF Writes
    <2>6. ~Large(y, row[y])
      BY <2>1, <2>3, <2>5 DEF SmallIsWritten, Writes, Without
    <2>7. row'[y].amount = row[y].amount
      BY <2>1, <2>2, <2>3 DEF Writes, Replaced
    <2> QED
      BY <2>6, <2>7, LargeByAmount
  <1>7. CASE \E r \in Requests : executeProductApproval(r)
    <2>1. PICK r \in Requests : executeProductApproval(r)
      BY <1>7
    <2>2. /\ req[r].phase = "execute" /\ req'[r] # req[r]
          /\ approval[req[r].approval].by # req[r].by
      <3>1. req[r].phase = "execute"
        BY <2>1 DEF executeProductApproval
      <3>2. req[r] \in Executing /\ Right(req[r])
        BY <3>1, ServedFields DEF Serving
      <3>3. [req[r] EXCEPT !.phase = "mark"].phase = "mark"
        BY <3>2 DEF Executing
      <3>4. PICK p : p = [req[r] EXCEPT !.phase = "mark"] /\ p.phase = "mark"
        BY <3>3
      <3>5. req' = [req EXCEPT ![r] = p]
        BY <2>1, <3>4 DEF executeProductApproval, become
      <3>6. req'[r] = p
        BY <3>5 DEF Serving
      <3> QED
        BY <3>1, <3>2, <3>4, <3>6 DEF Right
    <2>3p. PICK x \in Records : \E new, act : Executes(r, x, new, act)
      BY <2>1, Executed
    <2>3. PICK new, act : Executes(r, x, new, act)
      BY <2>3p
    <2>4. Replaced(x, new)
      BY <2>3, ExecuteImpact DEF Impact
    <2>5. x = y
      BY <1>1, <2>4 DEF Replaced
    <2> QED
      BY <2>2, <2>3, <2>5 DEF Executes
  <1> QED
    BY <1>2, <1>3, <1>4, <1>5, <1>6, <1>7, StepKinds

\* A record above its threshold comes to the gated status only by an approval
\* that a user other than the one who asked for it executes.
THEOREM LargeProductsNeedTwoUsers == Spec => LargeNeedsTwoUsers
  <1> DEFINE Inv == DataTypes /\ Serving /\ SmallIsWritten
             Gated(x) ==
               /\ Without({"skip", "edit", "preset"}) /\ Kind(x) \in DOMAIN Gates
               /\ row[x].status # Target[Kind(x)][Gates[Kind(x)]]
               /\ row'[x].status = Target[Kind(x)][Gates[Kind(x)]] /\ Large(x, row'[x])
               => \E r \in Requests :
                    /\ req[r].phase = "execute" /\ req'[r] # req[r]
                    /\ approval[req[r].approval].record = x
                    /\ approval[req[r].approval].by # req[r].by
  <1>1. Init => Inv
    <2>1. Init => SmallIsWritten
      BY DEF Init, SmallIsWritten, Idle
    <2> QED
      BY <2>1, InitTypes
  <1>2. Inv /\ [Next]_vars => Inv'
    BY TypesNext, SmallNext
  <1>3. Inv /\ [Next]_vars => \A x \in Records : Gated(x)
    BY TwoUsersStep
  <1> QED
    BY <1>1, <1>2, <1>3, PTL DEF Spec, LargeNeedsTwoUsers
===============================================================================
