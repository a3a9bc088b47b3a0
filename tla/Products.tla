------------------------------- MODULE Products -------------------------------
(***************************************************************************)
(* The product records: dynamic discounting offers, receivables facilities, *)
(* marketplace bids, ESG scorecards, anomaly signals and investor reports,  *)
(* with what they post to the ledger, the limits and exposures they create, *)
(* and the approvals large ones wait for: products/products.service.ts and  *)
(* executeProductApproval of approvals/approvals.service.ts.                *)
(*                                                                         *)
(* A lifecycle action looks for an earlier use of its idempotency key,      *)
(* reads the record, decides, writes record and impact in one transaction,  *)
(* and stores the key afterwards, in a statement of its own; one that waits *)
(* for an approval never stores it.  The execution of an approval looks     *)
(* neither at keys nor at the status it replaces.                          *)
(***************************************************************************)
EXTENDS Integers, SequencesExt, FiniteSetsExt

CONSTANTS
  Requests, Users, Approvals, Keys, NoKey,
  Records, KindOf,   \* the records that exist or may be created, by resource
  Inputs,            \* what each of them is created from
  Edits,             \* what may be sent to change a record of each kind
  DimensionOf,       \* of each facility: the supplier, programme and currency of its limit
  NoProgramme,       \* for facilities of no programme
  DiscountOf(_),     \* the discount on an invoice amount: see MCProducts
  Threshold,         \* of the kinds of Gates: amounts that need a second user
  Amounts,           \* what may be utilised at once: any number, also a negative one
  Cent,              \* by how much discount and net amount may miss the amount
  MaxUses,           \* bound: transactions on one record
  Scopes             \* bound: the operations and records that occur together

\* No record yet, and a record that was removed: its identifier is not used again.
NoRow == [status |-> "NONE"]
Removed == [status |-> "REMOVED"]
Kinds == {"offer", "facility", "bid", "scorecard", "signal", "report"}
Nobody == "nobody"

Statuses == [offer     |-> {"OFFERED", "REQUESTED", "ACCEPTED", "SETTLED", "CANCELLED"},
             facility  |-> {"DRAFT", "APPROVED", "ACTIVE", "SUSPENDED", "CLOSED"},
             bid       |-> {"SUBMITTED", "CONFIRMED", "ALLOCATED", "WITHDRAWN"},
             scorecard |-> {"ACTIVE", "UNDER_REVIEW", "EXPIRED"},
             signal    |-> {"OPEN", "UNDER_REVIEW", "RESOLVED", "DISMISSED"},
             report    |-> {"GENERATED", "PUBLISHED", "ARCHIVED"}]

Operations == {"create", "preset", "edit", "remove", "act", "utilise", "key", "skip", "approve",
               "request", "overlap", "crash", "expire"}

\* What a client may send for a record of this kind.
Fits(fields, kind) ==
  /\ DOMAIN fields \subseteq {"status", "amount", "part", "net"}
  /\ \A f \in DOMAIN fields : IF f = "status" THEN fields[f] \in Statuses[kind]
                                             ELSE fields[f] \in Int

ASSUME ProductsAssumption ==
  /\ KindOf \in [Records -> Kinds]
  /\ Nobody \notin Users /\ NoKey \notin Keys /\ IsFiniteSet(Keys)
  /\ \A x \in Records : KindOf[x] = "facility" => x \in DOMAIN DimensionOf
  /\ \A x \in Records : \A data \in Inputs[x] :
       /\ Fits(data, KindOf[x]) /\ {"status", "amount"} \subseteq DOMAIN data
       /\ DiscountOf(data.amount) \in Int
  /\ \A kind \in Kinds : \A fields \in Edits[kind] : Fits(fields, kind)
  /\ Threshold \in [{"offer", "facility", "bid"} -> Nat]
  /\ Amounts \subseteq Int /\ Cent \in Nat /\ MaxUses \in Nat
  /\ Scopes \subseteq SUBSET (Operations \cup Records)

VARIABLES
  row,        \* the records: status, the amount, and how it is divided
  ledger,     \* of each record: the amounts posted for it, each on both sides
  limits,     \* of each supplier, programme and currency: the limit records
  exposures,  \* of each record: the exposure snapshots taken for it
  stored,     \* the <<record, key>> pairs of the audit log
  expired,    \* the bids whose validUntil has passed
  approval,   \* the approval requests for product actions
  uses,       \* history: how often each key was used to change each record
  req, scope

vars == <<row, ledger, limits, exposures, stored, expired, approval, uses, req, scope>>

\* amount is the invoice amount, the facility limit, the offered amount or the
\* pricing adjustment; part is the discount or what is utilised; net what the
\* supplier is paid.
RowWith(statuses) == [status : statuses, amount : Int, part : Int, net : Int]
Row(kind) == RowWith(Statuses[kind])
Exists(x) == row[x] \notin {NoRow, Removed}
Kind(x) == KindOf[x]
Dimensions == {DimensionOf[x] : x \in DOMAIN DimensionOf}
Limit == [amount : Int, available : Int]

Actions == {"accept", "settle", "cancel", "approve", "activate", "suspend", "close", "utilise",
            "confirm", "allocate", "withdraw", "review", "expire", "resolve", "dismiss",
            "generate", "publish", "archive"}

NoApproval == [status |-> "NONE"]
Approval == [status : {"PENDING", "APPROVED"}, record : Records, action : Actions, by : Users,
             key : Keys \cup {NoKey}]

Idle == [phase |-> "idle"]
Acting == [phase : {"read", "ask", "write", "store"}, record : Records, action : Actions,
           key : Keys \cup {NoKey}, by : Users, skip : BOOLEAN, amount : Int,
           patch : {NoRow} \cup RowWith(UNION {Statuses[k] : k \in Kinds})]
Executing == [phase : {"execute", "mark"}, approval : Approvals, by : Users]

TypeOK ==
  /\ \A x \in Records :
       /\ row[x] \in {NoRow, Removed} \cup Row(Kind(x))
       /\ Exists(x) => row[x].amount \in Int
       /\ ledger[x] \in Seq(Int) /\ exposures[x] \in Nat
  /\ \A d \in Dimensions : limits[d] \in Seq(Limit)
  /\ stored \subseteq Records \X Keys
  /\ expired \subseteq Records
  /\ approval \in [Approvals -> {NoApproval} \cup Approval]
  /\ uses \in [Records -> [Keys \cup {NoKey} -> 0..MaxUses]]
  /\ \A r \in Requests :
       \/ req[r] \in {Idle} \cup Executing
       \/ req[r].phase = "edit" /\ req[r].record \in Records
       \/ req[r] \in Acting
  /\ scope \in Scopes

Init ==
  /\ row = [x \in Records |-> NoRow]
  /\ ledger = [x \in Records |-> <<>>]
  /\ limits = [d \in Dimensions |-> <<>>]
  /\ exposures = [x \in Records |-> 0]
  /\ stored = {} /\ expired = {}
  /\ uses = [x \in Records |-> [key \in Keys \cup {NoKey} |-> 0]]
  /\ approval = [a \in Approvals |-> NoApproval]
  /\ req = [r \in Requests |-> Idle]
  /\ scope \in Scopes

become(r, state) == req' = [req EXCEPT ![r] = state]
Quiet == \A r \in Requests : req[r] = Idle
mayBegin(r, op) == op \in scope /\ req[r] = Idle /\ ("overlap" \in scope \/ Quiet)
-----------------------------------------------------------------------------
(* Records *)

\* What is sent is laid over what is there.
over(fields, base) == [f \in DOMAIN base |-> IF f \in DOMAIN fields THEN fields[f] ELSE base[f]]

calculateRecord(kind, data) ==
  LET d == DiscountOf(data.amount)
  IN IF kind = "offer" THEN [part |-> d, net |-> data.amount - d] ELSE [part |-> 0, net |-> 0]

\* Discount and net amount are calculated where they are not sent, each on its
\* own.
applyCalculatedDefaults(kind, data) ==
  over(data, over(calculateRecord(kind, data),
                  [status |-> data.status, amount |-> data.amount, part |-> 0, net |-> 0]))

\* Up to a cent of rounding.
addsUp(offer) == offer.amount - offer.part - offer.net \in -Cent..Cent

\* Mutation: a limit may be lowered below what is utilised.
validUnlessLowered(x, new) ==
  CASE Kind(x) = "offer"    -> /\ new.amount > 0 /\ new.part >= 0 /\ new.part <= new.amount
                               /\ new.net >= 0 /\ addsUp(new)
    [] Kind(x) \in {"bid", "facility"} -> new.amount > 0
    [] OTHER -> TRUE

\* Amounts are not negative, parts do not exceed them, discount and net add up.
validateRecord(x, new) ==
  CASE Kind(x) = "offer"    -> /\ new.amount > 0 /\ new.part >= 0 /\ new.part <= new.amount
                               /\ new.net >= 0 /\ addsUp(new)
    [] Kind(x) = "facility" -> new.amount > 0 /\ new.part >= 0 /\ new.part <= new.amount
    [] Kind(x) = "bid"      -> new.amount > 0 /\ ~(new.status = "CONFIRMED" /\ x \in expired)
    [] OTHER                -> TRUE

\* The statuses an action needs a second user for, or posts with.
Preset(x, status) ==
  CASE Kind(x) = "offer"                    -> status \in {"ACCEPTED", "SETTLED"}
    [] Kind(x) \in {"facility", "scorecard"} -> status = "ACTIVE"
    [] Kind(x) = "bid"                      -> status = "ALLOCATED"
    [] OTHER                                -> FALSE

\* A record may be created in any status: a scorecard is ACTIVE by default.
create(r, x, data) ==
  LET new == applyCalculatedDefaults(Kind(x), data)
  IN /\ mayBegin(r, "create") /\ x \in scope /\ row[x] = NoRow
     /\ Preset(x, data.status) => "preset" \in scope
     /\ validateRecord(x, new)
     /\ row' = [row EXCEPT ![x] = new]
     /\ UNCHANGED <<ledger, limits, exposures, stored, expired, approval, uses, req, scope>>

\* Mutation: records may be edited at any time.
alwaysEditable(x) == TRUE

assertEditable(x) == ~(Kind(x) = "offer" /\ row[x].status \in {"ACCEPTED", "SETTLED"})

\* update: what is sent is validated together with the record as it was read,
\* and written on its own.
update(r, x, fields) ==
  /\ mayBegin(r, "edit") /\ Exists(x)
  /\ assertEditable(x)
  /\ validateRecord(x, over(fields, row[x]))
  /\ become(r, [phase |-> "edit", record |-> x, fields |-> fields])
  /\ UNCHANGED <<row, ledger, limits, exposures, stored, expired, approval, uses, scope>>

updateRecord(r) ==
  LET x == req[r].record
  IN /\ req[r].phase = "edit"
     /\ row' = IF Exists(x) THEN [row EXCEPT ![x] = over(req[r].fields, @)] ELSE row
     /\ become(r, Idle)
     /\ UNCHANGED <<ledger, limits, exposures, stored, expired, approval, uses, scope>>

remove(r, x) ==
  /\ mayBegin(r, "remove") /\ Exists(x)
  /\ row' = [row EXCEPT ![x] = Removed]
  /\ UNCHANGED <<ledger, limits, exposures, stored, expired, approval, uses, req, scope>>

\* The validity of a bid ends.
bidExpires(x) ==
  /\ "expire" \in scope /\ Exists(x) /\ Kind(x) = "bid"
  /\ expired' = expired \cup {x}
  /\ UNCHANGED <<row, ledger, limits, exposures, stored, approval, uses, req, scope>>
-----------------------------------------------------------------------------
(* Lifecycle actions *)

\* Mutation: a bid is withdrawn with the status of an offer.
OfferStatusTarget ==
  [offer     |-> [accept |-> "ACCEPTED", settle |-> "SETTLED", cancel |-> "CANCELLED"],
   facility  |-> [approve |-> "APPROVED", activate |-> "ACTIVE", suspend |-> "SUSPENDED",
                  close |-> "CLOSED"],
   bid       |-> [confirm |-> "CONFIRMED", allocate |-> "ALLOCATED", withdraw |-> "CANCELLED"],
   scorecard |-> [review |-> "UNDER_REVIEW", activate |-> "ACTIVE", expire |-> "EXPIRED"],
   signal    |-> [review |-> "UNDER_REVIEW", resolve |-> "RESOLVED", dismiss |-> "DISMISSED"],
   report    |-> [generate |-> "GENERATED", publish |-> "PUBLISHED", archive |-> "ARCHIVED"]]

\* Where an action leads, whatever the status.
Target ==
  [offer     |-> [accept |-> "ACCEPTED", settle |-> "SETTLED", cancel |-> "CANCELLED"],
   facility  |-> [approve |-> "APPROVED", activate |-> "ACTIVE", suspend |-> "SUSPENDED",
                  close |-> "CLOSED"],
   bid       |-> [confirm |-> "CONFIRMED", allocate |-> "ALLOCATED", withdraw |-> "WITHDRAWN"],
   scorecard |-> [review |-> "UNDER_REVIEW", activate |-> "ACTIVE", expire |-> "EXPIRED"],
   signal    |-> [review |-> "UNDER_REVIEW", resolve |-> "RESOLVED", dismiss |-> "DISMISSED"],
   report    |-> [generate |-> "GENERATED", publish |-> "PUBLISHED", archive |-> "ARCHIVED"]]

dynamicDiscountingAction(action, status) ==
  \/ action = "accept" /\ status \in {"OFFERED", "REQUESTED"}
  \/ action = "settle" /\ status = "ACCEPTED"
  \/ action = "cancel" /\ status \notin {"SETTLED", "CANCELLED"}

receivablesAction(action, status) ==
  \/ action = "approve" /\ status = "DRAFT"
  \/ action = "activate" /\ status \in {"APPROVED", "SUSPENDED"}
  \/ action = "suspend" /\ status = "ACTIVE"
  \/ action = "close" /\ status # "CLOSED"

marketplaceBidAction(x, action, status) ==
  \/ action = "confirm" /\ status = "SUBMITTED" /\ x \notin expired
  \/ action = "allocate" /\ status = "CONFIRMED"
  \/ action = "withdraw" /\ status \notin {"ALLOCATED", "WITHDRAWN"}

allowed(x, action, status) ==
  CASE Kind(x) = "offer"    -> dynamicDiscountingAction(action, status)
    [] Kind(x) = "facility" -> receivablesAction(action, status)
    [] Kind(x) = "bid"      -> marketplaceBidAction(x, action, status)
    [] OTHER                -> action \in DOMAIN Target[Kind(x)]

\* Mutation: an action may be repeated on what it has already led to.
repeatablePatch(q, before) ==
  LET x == q.record
  IN IF Kind(x) = "facility" /\ q.action = "utilise"
     THEN IF before.part + q.amount <= before.amount
          THEN [before EXCEPT !.part = @ + q.amount] ELSE NoRow
     ELSE IF allowed(x, q.action, before.status)
               \/ /\ q.action \in DOMAIN Target[Kind(x)]
                  /\ before.status = Target[Kind(x)][q.action]
          THEN [before EXCEPT !.status = Target[Kind(x)][q.action]] ELSE NoRow

\* actionPatch: the record as the action would have it, or a refusal.
actionPatch(q, before) ==
  LET x == q.record
  IN IF Kind(x) = "facility" /\ q.action = "utilise"
     THEN IF before.part + q.amount <= before.amount
          THEN [before EXCEPT !.part = @ + q.amount] ELSE NoRow
     ELSE IF allowed(x, q.action, before.status)
          THEN [before EXCEPT !.status = Target[Kind(x)][q.action]] ELSE NoRow

Gates == [offer |-> "accept", facility |-> "activate", bid |-> "allocate",
          scorecard |-> "activate"]

Large(x, before) ==
  IF Kind(x) = "scorecard" THEN before.amount # 0
  ELSE Kind(x) \in DOMAIN Threshold /\ before.amount >= Threshold[Kind(x)]

\* Mutation: a facility is activated by one user.
gateBelowThreshold(q, before) ==
  ~q.skip /\ Kind(q.record) \in DOMAIN Gates \ {"facility"} /\ q.action = Gates[Kind(q.record)]
          /\ Large(q.record, before)

\* The client may say that no approval is needed.
requiresApproval(q, before) ==
  ~q.skip /\ Kind(q.record) \in DOMAIN Gates /\ q.action = Gates[Kind(q.record)]
          /\ Large(q.record, before)

\* What a client may ask of a record.
Asked(x) ==
  [phase : {"read"}, record : {x}, action : DOMAIN Target[Kind(x)], amount : {0},
   by : Users, key : {NoKey} \cup IF "key" \in scope THEN Keys ELSE {},
   skip : {FALSE} \cup IF "skip" \in scope THEN {TRUE} ELSE {}, patch : {NoRow}]
  \cup IF Kind(x) # "facility" THEN {} ELSE
  [phase : {"read"}, record : {x}, action : {"utilise"}, amount : Amounts, by : Users,
   key : {NoKey} \cup IF "key" \in scope THEN Keys ELSE {}, skip : {FALSE}, patch : {NoRow}]

\* action: the answer to a key that was stored is that it is a duplicate.
action(r, x) ==
  /\ Exists(x)
  /\ \E q \in Asked(x) : /\ mayBegin(r, IF q.action = "utilise" THEN "utilise" ELSE "act")
                         /\ <<x, q.key>> \notin stored
                         /\ become(r, q)
  /\ UNCHANGED <<row, ledger, limits, exposures, stored, expired, approval, uses, scope>>

\* The record is read; what follows is decided from this reading.
readAndDecide(r) ==
  LET q == req[r]  before == row[q.record]
      patch == actionPatch(q, before)
  IN /\ q.phase = "read"
     /\ become(r, IF ~Exists(q.record) THEN Idle
                  ELSE IF requiresApproval(q, before) THEN [q EXCEPT !.phase = "ask"]
                  ELSE IF patch = NoRow THEN Idle
                  ELSE [q EXCEPT !.phase = "write", !.patch = patch])
     /\ UNCHANGED <<row, ledger, limits, exposures, stored, expired, approval, uses, scope>>

requested(x, act, user, key) ==
  [status |-> "PENDING", record |-> x, action |-> act, by |-> user, key |-> key]

\* A gated action is only asked for; its key is not stored, then or later.
ask(r) ==
  LET q == req[r]
  IN /\ q.phase = "ask"
     /\ \E a \in Approvals :
          /\ approval[a] = NoApproval
          /\ approval' = [approval EXCEPT ![a] = requested(q.record, q.action, q.by, q.key)]
     /\ become(r, Idle)
     /\ UNCHANGED <<row, ledger, limits, exposures, stored, expired, uses, scope>>

\* postBalancedLedger: one amount on both sides.
postings(x, act, new) ==
  CASE Kind(x) = "offer" /\ act = "settle" -> <<new.part>>
    [] Kind(x) = "bid" /\ act = "allocate" -> <<new.amount>>
    [] OTHER                               -> <<>>

activates(x, act) == Kind(x) = "facility" /\ act = "activate"

\* Mutation: an activation always creates a limit record.
alwaysCreateLimit(x, act, new) ==
  IF ~activates(x, act) THEN limits
  ELSE [limits EXCEPT ![DimensionOf[x]] =
          Append(@, [amount |-> new.amount, available |-> new.amount])]

\* The records a facility's limit is looked for among: of its supplier and its
\* currency, and of its programme, if it has one.
Matching(d) ==
  {e \in Dimensions : /\ e.supplier = d.supplier /\ e.currency = d.currency
                      /\ d.programme \in {NoProgramme, e.programme}}

Limited(x) == \E d \in Matching(DimensionOf[x]) : limits[d] # <<>>

\* upsertProductLimit: a limit record that is found is left as it is.
upsertProductLimit(x, act, new) ==
  IF ~activates(x, act) \/ Limited(x) THEN limits
  ELSE [limits EXCEPT ![DimensionOf[x]] =
          Append(@, [amount |-> new.amount, available |-> new.amount])]

Uses(x) == MapThenSumSet(LAMBDA key : uses[x][key], Keys \cup {NoKey})
used(x, key) == uses' = [uses EXCEPT ![x][key] = @ + 1]

\* What the patch holds is written over the record: the status, or what is
\* utilised.
patched(x, act, patch) ==
  IF act = "utilise" THEN [row[x] EXCEPT !.part = patch.part]
                     ELSE [row[x] EXCEPT !.status = patch.status]

\* Mutation: the postings are left to a later statement, which may never come.
executeWithoutImpact(r) ==
  LET q == req[r]  x == q.record
  IN /\ q.phase = "write" /\ Uses(x) < MaxUses
     /\ Exists(x)
     /\ row' = [row EXCEPT ![x] = patched(x, q.action, q.patch)]
     /\ become(r, [q EXCEPT !.phase = "store"])
     /\ UNCHANGED <<ledger, limits, exposures, stored, expired, approval, uses, scope>>

\* executeActionWithImpact, in one transaction.
executeActionWithImpact(r) ==
  LET q == req[r]  x == q.record  new == patched(x, q.action, q.patch)
  IN /\ q.phase = "write" /\ Uses(x) < MaxUses
     /\ Exists(x)
     /\ row' = [row EXCEPT ![x] = new]
     /\ ledger' = [ledger EXCEPT ![x] = @ \o postings(x, q.action, new)]
     /\ limits' = upsertProductLimit(x, q.action, new)
     /\ exposures' = [exposures EXCEPT ![x] =
          IF activates(x, q.action) \/ (Kind(x) = "bid" /\ q.action = "allocate") THEN @ + 1 ELSE @]
     /\ used(x, q.key)
     /\ become(r, [q EXCEPT !.phase = "store"])
     /\ UNCHANGED <<stored, expired, approval, scope>>

writeFails(r) ==
  /\ req[r].phase = "write" /\ ~Exists(req[r].record)
  /\ become(r, Idle)
  /\ UNCHANGED <<row, ledger, limits, exposures, stored, expired, approval, uses, scope>>

\* Mutation: the key is stored only for actions that post.
storePostingKey(r) ==
  LET q == req[r]
  IN /\ q.phase = "store"
     /\ stored' = IF q.key # NoKey /\ q.action \in {"settle", "allocate"}
                  THEN stored \cup {<<q.record, q.key>>} ELSE stored
     /\ become(r, Idle)
     /\ UNCHANGED <<row, ledger, limits, exposures, expired, approval, uses, scope>>

storeKey(r) ==
  LET q == req[r]
  IN /\ q.phase = "store"
     /\ stored' = IF q.key # NoKey THEN stored \cup {<<q.record, q.key>>} ELSE stored
     /\ become(r, Idle)
     /\ UNCHANGED <<row, ledger, limits, exposures, expired, approval, uses, scope>>
-----------------------------------------------------------------------------
(* Approvals of product actions *)

\* An approval may also be requested as such, for any action.
createApproval(r, x) ==
  /\ mayBegin(r, "request") /\ Exists(x)
  /\ \E a \in Approvals, act \in Actions, user \in Users :
       /\ approval[a] = NoApproval
       /\ approval' = [approval EXCEPT ![a] = requested(x, act, user, NoKey)]
  /\ UNCHANGED <<row, ledger, limits, exposures, stored, expired, uses, req, scope>>

approve(r, a, user) ==
  /\ mayBegin(r, "approve")
  /\ approval[a].status = "PENDING" /\ approval[a].by # user
  /\ become(r, [phase |-> "execute", approval |-> a, by |-> user])
  /\ UNCHANGED <<row, ledger, limits, exposures, stored, expired, approval, uses, scope>>

\* Any other action, and a record that is gone, fails, and the approval stays.
executable(x, act) == Exists(x) /\ Kind(x) \in DOMAIN Gates /\ act \in DOMAIN Target[Kind(x)]

\* executeProductApproval, in one transaction: a status without a look at the
\* one before, and on activation a limit record of its own.
executeProductApproval(r) ==
  LET q == req[r]  x == approval[q.approval].record  act == approval[q.approval].action
      new == [row[x] EXCEPT !.status = Target[Kind(x)][act]]
  IN /\ q.phase = "execute" /\ executable(x, act) /\ Uses(x) < MaxUses
     /\ row' = [row EXCEPT ![x] = new]
     /\ ledger' = [ledger EXCEPT ![x] = @ \o postings(x, act, new)]
     /\ limits' = IF ~activates(x, act) THEN limits
                  ELSE [limits EXCEPT ![DimensionOf[x]] =
                          Append(@, [amount |-> new.amount, available |-> new.amount - new.part])]
     /\ exposures' = [exposures EXCEPT ![x] = IF activates(x, act) THEN @ + 1 ELSE @]
     /\ used(x, approval[q.approval].key)
     /\ become(r, [q EXCEPT !.phase = "mark"])
     /\ UNCHANGED <<stored, expired, approval, scope>>

executionFails(r) ==
  /\ req[r].phase = "execute"
  /\ ~executable(approval[req[r].approval].record, approval[req[r].approval].action)
  /\ become(r, Idle)
  /\ UNCHANGED <<row, ledger, limits, exposures, stored, expired, approval, uses, scope>>

markApproved(r) ==
  /\ req[r].phase = "mark"
  /\ approval' = [approval EXCEPT ![req[r].approval].status = "APPROVED"]
  /\ become(r, Idle)
  /\ UNCHANGED <<row, ledger, limits, exposures, stored, expired, uses, scope>>

crash(r) ==
  /\ "crash" \in scope /\ req[r] # Idle /\ become(r, Idle)
  /\ UNCHANGED <<row, ledger, limits, exposures, stored, expired, approval, uses, scope>>

Next ==
  \/ \E r \in Requests, x \in Records :
       \/ \E data \in Inputs[x] : create(r, x, data)
       \/ \E fields \in Edits[KindOf[x]] : update(r, x, fields)
       \/ remove(r, x) \/ action(r, x) \/ createApproval(r, x)
  \/ \E r \in Requests :
       \/ updateRecord(r) \/ readAndDecide(r) \/ ask(r) \/ executeActionWithImpact(r)
       \/ writeFails(r) \/ storeKey(r)
       \/ \E a \in Approvals, user \in Users : approve(r, a, user)
       \/ executeProductApproval(r) \/ executionFails(r) \/ markApproved(r) \/ crash(r)
  \/ \E x \in Records : bidExpires(x)

Spec == Init /\ [][Next]_vars
-----------------------------------------------------------------------------
(* Properties *)

Without(ops) == ops \cap scope = {}
Posts == [offer |-> "SETTLED", bid |-> "ALLOCATED"]

\* A settled offer and an allocated bid have been posted, an active facility has
\* a limit and an exposure record, also when requests overlap, are approved,
\* repeated, or cut short between any two statements; unless the record is
\* created in that status or a PATCH writes it.
FinalIsPosted ==
  Without({"edit", "preset"}) =>
    \A x \in Records : Exists(x) =>
      /\ Kind(x) \in DOMAIN Posts /\ row[x].status = Posts[Kind(x)] => ledger[x] # <<>>
      /\ Kind(x) = "facility" /\ row[x].status = "ACTIVE" => Limited(x) /\ exposures[x] > 0

\* A record posts at most once, however often its actions are repeated, with
\* the same key, another key or none, and also after a stop of the process;
\* unless requests overlap, an approval is executed, or its status is patched.
PostedOnce ==
  Without({"overlap", "approve", "edit"}) => \A x \in Records : Len(ledger[x]) <= 1

\* What was posted is what the offer still says, to the cent: it cannot be
\* edited any more; unless an approval is executed on the settled offer and makes
\* it accepted, and by that open to a cancellation and an edit, again.
PostedAsAgreed ==
  Without({"edit"}) \/ Without({"overlap", "approve"}) =>
    \A x \in Records : Exists(x) /\ Kind(x) = "offer" =>
      /\ ledger[x] # <<>> => row[x].part = ledger[x][Len(ledger[x])]
      /\ addsUp(row[x])

\* Utilisation and edits of the limit, in any order, keep what is utilised within
\* the limit, whatever the facility's status, as long as they do not overlap.
\* There is no lower end: a use of a negative amount may go below nothing.
WithinFacility ==
  Without({"overlap"}) =>
    \A x \in Records : Exists(x) /\ Kind(x) = "facility" => row[x].part <= row[x].amount

\* There is one limit record from facilities of one supplier, programme and
\* currency, also after they are suspended and activated again, or when two of
\* them are activated.
OneLimitPerDimension ==
  Without({"overlap", "approve"}) => \A d \in Dimensions : Len(limits[d]) <= 1

\* A record above its threshold comes to the gated status only by an approval
\* that a user other than the one who asked for it executes, whatever else
\* overlaps; unless the record is created in that status, edited on the way, or
\* the client says that no approval is needed.
LargeNeedsTwoUsers ==
  [][\A x \in Records :
       /\ Without({"skip", "edit", "preset"}) /\ Kind(x) \in DOMAIN Gates
       /\ row[x].status # Target[Kind(x)][Gates[Kind(x)]]
       /\ row'[x].status = Target[Kind(x)][Gates[Kind(x)]] /\ Large(x, row'[x])
       => \E r \in Requests :
            /\ req[r].phase = "execute" /\ req'[r] # req[r]
            /\ approval[req[r].approval].record = x
            /\ approval[req[r].approval].by # req[r].by]_vars

\* One use of a key does one thing: a second request with the key changes
\* nothing, when requests neither overlap nor are cut short, and none of them
\* waits for an approval.
KeyAppliedOnce ==
  Without({"overlap", "crash", "approve"}) =>
    \A x \in Records, key \in Keys : uses[x][key] <= 1

\* "Does not repeat lifecycle impact for duplicate idempotency keys", however
\* requests overlap or are repeated.
KeyNeverRepeats == \A x \in Records, key \in Keys : uses[x][key] <= 1

\* What has reached its final status is on the ledger, once and as it was agreed.
PostingsHold == TypeOK /\ FinalIsPosted /\ PostedOnce /\ PostedAsAgreed

\* Neither repeated uses, nor edits, nor several facilities of one supplier
\* stretch what a facility allows.
FacilitiesHold == WithinFacility /\ OneLimitPerDimension /\ KeyAppliedOnce
===============================================================================
