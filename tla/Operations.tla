-------------------------------- MODULE Operations --------------------------------
(***************************************************************************)
(* The operations desk: operations/operations.service.ts, and the            *)
(* connections of integrations/integrations.service.ts, which it writes too.  *)
(*                                                                         *)
(* create and update write any data to a table of the database, around the    *)
(* service the table belongs to.  The dashboard sums the debits and then the   *)
(* credits of the ledger, while the other services post.                     *)
(***************************************************************************)
EXTENDS Service

CONSTANTS
  Tables,      \* the resources written to
  Connections,
  MaxWrites    \* bound: records made, versions of a record, postings made

resources ==
  {"limits", "exposures", "credit-decisions", "funder-profiles", "provenance", "obligations", "reconciliation",
   "investors", "documents", "workflow-cases", "notifications", "reports", "dynamic-discounting-offers",
   "receivables-facilities", "funder-marketplace-bids", "esg-scorecards", "integration-connections",
   "ai-anomaly-signals", "investor-report-snapshots"}
appendOnly == {"exposures", "credit-decisions", "provenance", "investors", "documents"}

ASSUME OperationsAssumption == Tables \subseteq resources /\ MaxWrites \in Nat

VARIABLES
  records,     \* of each table: the version of each record made here
  connection,  \* of each connection: status, environment, whether a test of it succeeded
  ledger,      \* how much has been debited, and how much credited
  imbalance    \* what the dashboard last showed

operationsVars == <<records, connection, ledger, imbalance>>

NoConnection == [status |-> "NONE"]
Connection == [status : {"ENABLED", "DISABLED"}, environment : {"SANDBOX", "PRODUCTION"}, tested : BOOLEAN]

OperationsTypeOK ==
  /\ records \in [Tables -> Seq(Nat)]
  /\ connection \in [Connections -> {NoConnection} \cup Connection]
  /\ ledger \in [debits : Nat, credits : Nat] /\ imbalance \in Int
  /\ \A r \in Requests : at(r, "sumCredits") => req[r] \in [phase : {"sumCredits"}, debits : Int]

OperationsInit ==
  /\ records = [t \in Tables |-> <<>>] /\ connection = [c \in Connections |-> NoConnection]
  /\ ledger = [debits |-> 0, credits |-> 0] /\ imbalance = 0
-----------------------------------------------------------------------------
createRecord(r, t) ==
  /\ mayBegin(r, "records") /\ Len(records[t]) < MaxWrites
  /\ records' = [records EXCEPT ![t] = Append(@, 0)]
  /\ UNCHANGED <<connection, ledger, imbalance, req, scope>>

\* Mutation: every table is updated.
updateAnyRecord(r, t, i) ==
  /\ mayBegin(r, "records") /\ i \in DOMAIN records[t] /\ records[t][i] < MaxWrites
  /\ records' = [records EXCEPT ![t][i] = @ + 1]
  /\ UNCHANGED <<connection, ledger, imbalance, req, scope>>

\* Looked for first, and refused there and again at the write where the table is
\* one of evidence.
updateRecord(r, t, i) ==
  /\ mayBegin(r, "records") /\ i \in DOMAIN records[t] /\ t \notin appendOnly /\ records[t][i] < MaxWrites
  /\ records' = [records EXCEPT ![t][i] = @ + 1]
  /\ UNCHANGED <<connection, ledger, imbalance, req, scope>>
-----------------------------------------------------------------------------
createConnection(r, c, environment) ==
  /\ mayBegin(r, "connection") /\ connection[c] = NoConnection
  /\ connection' = [connection EXCEPT ![c] = [status |-> "DISABLED", environment |-> environment, tested |-> FALSE]]
  /\ UNCHANGED <<records, ledger, imbalance, req, scope>>

\* setStatus, and updateConnection, to which the environment may be sent as well.
updateConnection(r, c, status, environment) ==
  /\ mayBegin(r, "connection") /\ connection[c] # NoConnection
  /\ environment # connection[c].environment => "environment" \in scope
  /\ connection' = [connection EXCEPT ![c].status = status, ![c].environment = environment]
  /\ UNCHANGED <<records, ledger, imbalance, req, scope>>

\* Mutation: every connection is tested.
testAnyConnection(r, c) ==
  /\ mayBegin(r, "connection") /\ connection[c] # NoConnection
  /\ become(r, [phase |-> "markTested", connection |-> c])
  /\ UNCHANGED <<operationsVars, scope>>

testConnection(r, c) ==
  /\ mayBegin(r, "connection") /\ connection[c] # NoConnection /\ connection[c].environment = "SANDBOX"
  /\ become(r, [phase |-> "markTested", connection |-> c])
  /\ UNCHANGED <<operationsVars, scope>>

markTested(r) ==
  /\ at(r, "markTested")
  /\ connection' = [connection EXCEPT ![req[r].connection].status = "ENABLED", ![req[r].connection].tested = TRUE]
  /\ become(r, Idle)
  /\ UNCHANGED <<records, ledger, imbalance, scope>>
\* createRecord and updateRecord of a connection: any status and environment, tested
\* or not, around the service it belongs to.
writeConnection(r, c, row) ==
  /\ mayBegin(r, "connectionRecord") /\ connection[c] # row
  /\ connection' = [connection EXCEPT ![c] = row]
  /\ UNCHANGED <<records, ledger, imbalance, req, scope>>
-----------------------------------------------------------------------------
\* A debit and a credit of the same amount, in one transaction of the service
\* that posts them.
post ==
  /\ "post" \in scope /\ ledger.debits < MaxWrites
  /\ ledger' = [debits |-> ledger.debits + 1, credits |-> ledger.credits + 1]
  /\ UNCHANGED <<records, connection, imbalance, req, scope>>

sumDebits(r) ==
  /\ mayBegin(r, "dashboard")
  /\ become(r, [phase |-> "sumCredits", debits |-> ledger.debits])
  /\ UNCHANGED <<operationsVars, scope>>

\* Mutation: the first query was the one for the credits.
sumDebitsLast(r) ==
  /\ at(r, "sumCredits")
  /\ imbalance' = ledger.debits - req[r].debits
  /\ become(r, Idle)
  /\ UNCHANGED <<records, connection, ledger, scope>>

sumCredits(r) ==
  /\ at(r, "sumCredits")
  /\ imbalance' = req[r].debits - ledger.credits
  /\ become(r, Idle)
  /\ UNCHANGED <<records, connection, ledger, scope>>
-----------------------------------------------------------------------------
OperationsNext ==
  \/ post
  \/ \E r \in Requests :
    \/ markTested(r) \/ sumDebits(r) \/ sumCredits(r)
    \/ \E t \in Tables : createRecord(r, t) \/ \E i \in 1..MaxWrites : updateRecord(r, t, i)
    \/ \E c \in Connections :
         \/ testConnection(r, c)
         \/ \E row \in Connection : writeConnection(r, c, row)
         \/ \E environment \in {"SANDBOX", "PRODUCTION"} :
              \/ createConnection(r, c, environment)
              \/ \E status \in {"ENABLED", "DISABLED"} : updateConnection(r, c, status, environment)
-----------------------------------------------------------------------------
(* Properties *)

\* What was recorded as evidence is neither changed nor taken away by an operator.
EvidenceIsKept ==
  [][\A t \in Tables \cap appendOnly : IsPrefix(records[t], records'[t])]_<<records, req, scope>>

\* A connection that passed its test is one to a sandbox, as long as the environment
\* of a connection is left as it is and no operator writes its record.
TestedIsSandbox ==
  Without({"environment", "connectionRecord"}) =>
    \A c \in Connections : connection[c] # NoConnection /\ connection[c].tested => connection[c].environment = "SANDBOX"

\* The dashboard never shows more debits than credits while what is posted
\* balances, however postings fall between its queries; the other way round it
\* does.
NoDebitsToSpare == imbalance <= 0
===============================================================================
