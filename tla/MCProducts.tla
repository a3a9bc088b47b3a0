------------------------------ MODULE MCProducts ------------------------------
(***************************************************************************)
(* Small instances of Products: one record of each kind and a second        *)
(* facility of the same supplier.  Amounts are in one unit of money; the     *)
(* discount is a quarter, rounded to it.                                     *)
(***************************************************************************)
EXTENDS Products, TLC

CONSTANTS r1, r2, u1, u2, a1, a2, k1, none, offer, facility, facility2, bid, scorecard, signal,
          report, supplier, programme, none_programme, currency

OneOfEach == [x \in Records |->
  CASE x = offer -> "offer" [] x \in {facility, facility2} -> "facility" [] x = bid -> "bid"
    [] x = scorecard -> "scorecard" [] x = signal -> "signal" [] OTHER -> "report"]

NewRow(status, amount) == [status |-> status, amount |-> amount]

FirstStatus == [offer |-> {"OFFERED"}, facility |-> {"DRAFT"}, bid |-> {"SUBMITTED"},
                scorecard |-> {"UNDER_REVIEW"}, signal |-> {"OPEN"}, report |-> {"GENERATED"}]
Reached == [offer |-> "ACCEPTED", facility |-> "ACTIVE", bid |-> "ALLOCATED",
            scorecard |-> "ACTIVE"]
\* Small and large ones, offers whose discount and net amount miss the amount by
\* a cent and by more, and records created in the gated status.
Sent == [x \in Records |->
  {NewRow(s, n) : s \in FirstStatus[OneOfEach[x]], n \in {2, 5}}
    \cup (IF x = offer THEN {[status |-> "REQUESTED", amount |-> n, part |-> n] : n \in {2, 5}}
                       ELSE {})
    \cup (IF OneOfEach[x] \in DOMAIN Reached THEN {NewRow(Reached[OneOfEach[x]], 5)} ELSE {})]

Changes == [k \in Kinds |->
  CASE k = "offer" -> {[part |-> 0, net |-> 2], [part |-> 0, net |-> 5], [amount |-> 5]}
    [] k = "facility" -> {[amount |-> 1], [status |-> "DRAFT"]}
    [] k = "bid" -> {[status |-> "CONFIRMED"]}
    [] OTHER -> {}]

\* Two facilities of one supplier, the second of no programme.
OneSupplier == [x \in {facility, facility2} |->
  [supplier |-> supplier, currency |-> currency,
   programme |-> IF x = facility THEN programme ELSE none_programme]]
Moves == {-1, 1, 2}
Quarter(amount) == (2 * amount + 4) \div 8
FromFour == [k \in {"offer", "facility", "bid"} |-> 4]

\* What may happen in one behaviour.
Occurring ==
  {{"create", "act", "remove", x} : x \in {scorecard, signal, report}} \cup
  {{"create", "act", "utilise", "key", "crash", x} : x \in {offer, facility, bid}} \cup
  {{"create", "edit", "act", "utilise", x} : x \in {offer, facility, bid}} \cup
  {{"create", "act", "approve", x} : x \in {offer, facility, bid, scorecard}} \cup
  {{"create", "preset", "act", x} : x \in {offer, facility, bid, scorecard}} \cup
  {{"create", "act", "utilise", "key", facility}, {"create", "act", "skip", facility, facility2},
   {"create", "act", "skip", "expire", bid}, {"create", "act", "key", "approve", offer},
   {"create", "edit", "act", "approve", "remove", offer},
   {"create", "act", "approve", "overlap", offer}, {"create", "act", "approve", "overlap", bid},
   {"create", "request", "approve", "remove", "overlap", offer},
   {"create", "edit", "utilise", "remove", "overlap", facility}}

Symmetry == Permutations(Requests) \cup Permutations(Users) \cup Permutations(Approvals)
===============================================================================
