------------------------ MODULE LimitReservationProofs ------------------------
(***************************************************************************)
(* Proofs about LimitReservation for any financings, requests, dimensions,  *)
(* amounts and limits.                                                      *)
(*                                                                         *)
(* OrderInv: the records are taken in one order, so nothing waits in a      *)
(* circle.  LimitInv: the transaction that has updated the programme's      *)
(* record alone moves the others until it ends, so what it read is still    *)
(* what is committed, and what it commits is what was committed moved once. *)
(***************************************************************************)
EXTENDS LimitReservation, SumTheorems, SequenceTheorems, TLAPS

(* The plans of the handlers *)

CoreOf(f) == {Programme, AnchorOf[f], SupplierOf[f]}
Anchors == {AnchorOf[f] : f \in Financings}
Suppliers == {SupplierOf[f] : f \in Financings}

\* The order in which the handlers take the records.
Rank(d) ==
  IF d = Programme THEN 0
  ELSE IF d \in Anchors THEN 1
  ELSE IF d \in Suppliers THEN 2
  ELSE 2 + CHOOSE k \in 1..Len(Funders) : Funders[k] = d

\* A non-empty set of naturals with a bound has a largest member.
LEMMA LargestNatural ==
  ASSUME NEW S, S \subseteq Nat, S # {}, NEW n \in Nat, \A x \in S : x <= n
  PROVE  \E m \in S : \A x \in S : x <= m
<1> DEFINE Bounds == {b \in Nat : \A x \in S : x <= b}
<1>1. n \in Bounds
  OBVIOUS
<1>2. PICK b \in Bounds : \A y \in Bounds : <<y, b>> \notin OpToRel(<, Nat)
  BY <1>1, NatLessThanWellFounded, WFMin
<1>3. \A y \in Bounds : ~(y < b)
  BY <1>2 DEF OpToRel
<1>4. ASSUME b \notin S PROVE FALSE
  <2>1. \A x \in S : x < b
    BY <1>4
  <2>2. b # 0
    <3>1. PICK x \in S : TRUE
      OBVIOUS
    <3>2. x \in Nat /\ x < b
      BY <2>1, <3>1
    <3>3. QED
      BY <3>2
  <2>3. b - 1 \in Bounds
    BY <2>1, <2>2
  <2>4. QED
    BY <2>3, <1>3
<1>5. QED
  BY <1>4

LEMMA DimensionTypes ==
  /\ Programme \in Dimensions
  /\ \A f \in Financings : AnchorOf[f] \in Dimensions /\ SupplierOf[f] \in Dimensions
  /\ \A k \in 1..Len(Funders) : Funders[k] \in Dimensions /\ Funders[k] \in FunderSet
  /\ Len(Funders) \in Nat
BY LimitAssumption DEF Dimensions, CoreDimensions, FunderSet, DimensionsDiffer

LEMMA Ranks ==
  /\ Rank(Programme) = 0
  /\ \A f \in Financings : Rank(AnchorOf[f]) = 1 /\ Rank(SupplierOf[f]) = 2
  /\ \A k \in 1..Len(Funders) : Rank(Funders[k]) = 2 + k
  /\ \A d \in Dimensions : Rank(d) \in 0..(2 + Len(Funders))
<1> USE LimitAssumption, DimensionTypes
<1>1. Rank(Programme) = 0
  BY DEF Rank
<1>2. \A f \in Financings : Rank(AnchorOf[f]) = 1
  BY DEF Rank, DimensionsDiffer, Anchors
<1>3. \A f \in Financings : Rank(SupplierOf[f]) = 2
  BY DEF Rank, DimensionsDiffer, Anchors, Suppliers
<1>4. ASSUME NEW k \in 1..Len(Funders) PROVE Rank(Funders[k]) = 2 + k
  <2>1. Funders[k] # Programme /\ Funders[k] \notin Anchors /\ Funders[k] \notin Suppliers
    BY DEF DimensionsDiffer, Anchors, Suppliers, FunderSet
  <2>2. \A j \in 1..Len(Funders) : Funders[j] = Funders[k] => j = k
    BY DEF DimensionsDiffer
  <2>3. (CHOOSE j \in 1..Len(Funders) : Funders[j] = Funders[k]) = k
    BY <2>2
  <2>4. QED
    BY <2>1, <2>3 DEF Rank
<1>5. ASSUME NEW d \in Dimensions PROVE Rank(d) \in 0..(2 + Len(Funders))
  <2>1. \/ d = Programme \/ \E f \in Financings : d = AnchorOf[f] \/ d = SupplierOf[f]
        \/ \E k \in 1..Len(Funders) : d = Funders[k]
    BY DEF Dimensions, CoreDimensions, FunderSet
  <2>2. QED
    BY <2>1, <1>1, <1>2, <1>3, <1>4
<1>6. QED
  BY <1>1, <1>2, <1>3, <1>4, <1>5

MoveOf(op, f, d) ==
  CASE op = "accept" -> moveIfAvailable(d, Amount[f], 0)
    [] op = "fund" -> IF d \in FunderSet THEN moveIfAvailable(d, 0, Share[f])
                                         ELSE move(d, -Amount[f], Amount[f])
    [] op = "collect" -> IF d \in FunderSet THEN move(d, 0, -Share[f])
                                            ELSE move(d, 0, -Amount[f])
    [] OTHER -> move(d, -Amount[f], 0)

LEMMA StepTypes ==
  ASSUME NEW f \in Financings, NEW d \in Dimensions
  PROVE  /\ ensure(d) \in Step
         /\ \A op \in Ops : MoveOf(op, f, d) \in Step
         /\ \A op \in Ops : MoveOf(op, f, d).kind = "move" /\ MoveOf(op, f, d).dimension = d
         /\ ensure(d).kind = "ensure" /\ ensure(d).dimension = d
         /\ moveIfAvailable(d, Amount[f], 0) = MoveOf("accept", f, d)
         /\ d \notin FunderSet => move(d, -Amount[f], Amount[f]) = MoveOf("fund", f, d)
         /\ d \in FunderSet => moveIfAvailable(d, 0, Share[f]) = MoveOf("fund", f, d)
         /\ d \notin FunderSet => move(d, 0, -Amount[f]) = MoveOf("collect", f, d)
         /\ d \in FunderSet => move(d, 0, -Share[f]) = MoveOf("collect", f, d)
         /\ move(d, -Amount[f], 0) = MoveOf("remove", f, d)
<1>1. Amount[f] \in Nat /\ Share[f] \in Nat
  BY LimitAssumption
<1>2. -Amount[f] \in Int /\ -Share[f] \in Int /\ Amount[f] \in Int /\ Share[f] \in Int
  BY <1>1
<1>3. \A a, b \in Int : /\ move(d, a, b) \in Step /\ moveIfAvailable(d, a, b) \in Step
                       /\ move(d, a, b).kind = "move" /\ moveIfAvailable(d, a, b).kind = "move"
                       /\ move(d, a, b).dimension = d /\ moveIfAvailable(d, a, b).dimension = d
  BY DEF move, moveIfAvailable, Step
<1>4. ensure(d) \in Step /\ ensure(d).kind = "ensure" /\ ensure(d).dimension = d
  BY DEF ensure, Step
<1>5. \A op \in Ops : /\ MoveOf(op, f, d) \in Step
                     /\ MoveOf(op, f, d).kind = "move" /\ MoveOf(op, f, d).dimension = d
  <2>1. MoveOf("accept", f, d) = moveIfAvailable(d, Amount[f], 0)
    BY DEF MoveOf
  <2>2. \/ MoveOf("fund", f, d) = moveIfAvailable(d, 0, Share[f])
        \/ MoveOf("fund", f, d) = move(d, -Amount[f], Amount[f])
    BY DEF MoveOf
  <2>3. \/ MoveOf("collect", f, d) = move(d, 0, -Share[f])
        \/ MoveOf("collect", f, d) = move(d, 0, -Amount[f])
    BY DEF MoveOf
  <2>4. /\ MoveOf("disburse", f, d) = move(d, -Amount[f], 0)
        /\ MoveOf("remove", f, d) = move(d, -Amount[f], 0)
    BY DEF MoveOf
  <2>5. QED
    BY <1>2, <1>3, <2>1, <2>2, <2>3, <2>4 DEF Ops
<1>6. QED
  BY <1>4, <1>5 DEF MoveOf

LEMMA CorePlans ==
  ASSUME NEW f \in Financings
  PROVE  /\ LET s == reserveCoreLimits(f) IN
            /\ s \in Seq(Step) /\ Len(s) = 6
            /\ s[1] = ensure(Programme) /\ s[2] = ensure(AnchorOf[f]) /\ s[3] = ensure(SupplierOf[f])
            /\ s[4] = MoveOf("accept", f, Programme) /\ s[5] = MoveOf("accept", f, AnchorOf[f])
            /\ s[6] = MoveOf("accept", f, SupplierOf[f])
         /\ LET s == utiliseCoreLimits(f) IN
            /\ s \in Seq(Step) /\ Len(s) = 3
            /\ s[1] = MoveOf("fund", f, Programme) /\ s[2] = MoveOf("fund", f, AnchorOf[f])
            /\ s[3] = MoveOf("fund", f, SupplierOf[f])
         /\ LET s == releaseCoreLimits(f, "utilised") IN
            /\ s \in Seq(Step) /\ Len(s) = 3
            /\ s[1] = MoveOf("collect", f, Programme) /\ s[2] = MoveOf("collect", f, AnchorOf[f])
            /\ s[3] = MoveOf("collect", f, SupplierOf[f])
         /\ LET s == releaseCoreLimits(f, "reserved") IN
            /\ s \in Seq(Step) /\ Len(s) = 3
            /\ s[1] = MoveOf("remove", f, Programme) /\ s[2] = MoveOf("remove", f, AnchorOf[f])
            /\ s[3] = MoveOf("remove", f, SupplierOf[f])
<1> DEFINE P == Programme A == AnchorOf[f] S == SupplierOf[f]
<1>1. /\ P \in Dimensions /\ A \in Dimensions /\ S \in Dimensions
      /\ P \notin FunderSet /\ A \notin FunderSet /\ S \notin FunderSet
  BY DimensionTypes, LimitAssumption DEF DimensionsDiffer
<1>2. /\ coreLimitDimensions(f)[1] = P /\ coreLimitDimensions(f)[2] = A /\ coreLimitDimensions(f)[3] = S
  BY DEF coreLimitDimensions
<1>a. /\ \A op \in Ops : MoveOf(op, f, P) \in Step /\ MoveOf(op, f, A) \in Step /\ MoveOf(op, f, S) \in Step
      /\ ensure(P) \in Step /\ ensure(A) \in Step /\ ensure(S) \in Step
  BY <1>1, StepTypes
<1>3. LET e == onCore(f, ensure) IN
      e \in Seq(Step) /\ Len(e) = 3 /\ e[1] = ensure(P) /\ e[2] = ensure(A) /\ e[3] = ensure(S)
  BY <1>2, <1>a DEF onCore
<1>4. LET e == onCore(f, LAMBDA d : moveIfAvailable(d, Amount[f], 0)) IN
      /\ e \in Seq(Step) /\ Len(e) = 3
      /\ e[1] = MoveOf("accept", f, P) /\ e[2] = MoveOf("accept", f, A) /\ e[3] = MoveOf("accept", f, S)
  <2>1. /\ moveIfAvailable(P, Amount[f], 0) = MoveOf("accept", f, P)
        /\ moveIfAvailable(A, Amount[f], 0) = MoveOf("accept", f, A)
        /\ moveIfAvailable(S, Amount[f], 0) = MoveOf("accept", f, S)
    BY <1>1, StepTypes
  <2>2. QED
    BY <1>2, <1>a, <2>1 DEF onCore, Ops
<1>5. LET s == reserveCoreLimits(f) IN
            /\ s \in Seq(Step) /\ Len(s) = 6
            /\ s[1] = ensure(Programme) /\ s[2] = ensure(AnchorOf[f]) /\ s[3] = ensure(SupplierOf[f])
            /\ s[4] = MoveOf("accept", f, Programme) /\ s[5] = MoveOf("accept", f, AnchorOf[f])
            /\ s[6] = MoveOf("accept", f, SupplierOf[f])
  BY <1>3, <1>4 DEF reserveCoreLimits, onCore
<1>6. LET s == utiliseCoreLimits(f) IN
            /\ s \in Seq(Step) /\ Len(s) = 3
            /\ s[1] = MoveOf("fund", f, Programme) /\ s[2] = MoveOf("fund", f, AnchorOf[f])
            /\ s[3] = MoveOf("fund", f, SupplierOf[f])
  <2>1. /\ move(P, -Amount[f], Amount[f]) = MoveOf("fund", f, P)
        /\ move(A, -Amount[f], Amount[f]) = MoveOf("fund", f, A)
        /\ move(S, -Amount[f], Amount[f]) = MoveOf("fund", f, S)
    BY <1>1, StepTypes
  <2>2. QED
    BY <1>2, <1>a, <2>1 DEF onCore, Ops, utiliseCoreLimits
<1>7. LET s == releaseCoreLimits(f, "utilised") IN
            /\ s \in Seq(Step) /\ Len(s) = 3
            /\ s[1] = MoveOf("collect", f, Programme) /\ s[2] = MoveOf("collect", f, AnchorOf[f])
            /\ s[3] = MoveOf("collect", f, SupplierOf[f])
  <2>1. /\ move(P, 0, -Amount[f]) = MoveOf("collect", f, P)
        /\ move(A, 0, -Amount[f]) = MoveOf("collect", f, A)
        /\ move(S, 0, -Amount[f]) = MoveOf("collect", f, S)
    BY <1>1, StepTypes
  <2>2. QED
    BY <1>2, <1>a, <2>1 DEF onCore, Ops, releaseCoreLimits
<1>8. LET s == releaseCoreLimits(f, "reserved") IN
            /\ s \in Seq(Step) /\ Len(s) = 3
            /\ s[1] = MoveOf("remove", f, Programme) /\ s[2] = MoveOf("remove", f, AnchorOf[f])
            /\ s[3] = MoveOf("remove", f, SupplierOf[f])
  <2>1. /\ move(P, -Amount[f], 0) = MoveOf("remove", f, P)
        /\ move(A, -Amount[f], 0) = MoveOf("remove", f, A)
        /\ move(S, -Amount[f], 0) = MoveOf("remove", f, S)
    BY <1>1, StepTypes
  <2>2. QED
    BY <1>2, <1>a, <2>1 DEF onCore, Ops, releaseCoreLimits
<1>9. QED
  BY <1>5, <1>6, <1>7, <1>8

LEMMA FunderPlans ==
  ASSUME NEW f \in Financings
  PROVE  LET n == Len(Funders) IN
         /\ LET s == utiliseFunderLimits(f) IN
            /\ s \in Seq(Step) /\ Len(s) = 2 * n
            /\ \A k \in 1..n : /\ s[2 * k - 1] = ensure(Funders[k])
                               /\ s[2 * k] = MoveOf("fund", f, Funders[k])
         /\ LET s == releaseFunderLimits(f) IN
            /\ s \in Seq(Step) /\ Len(s) = IF allocations[f] = 0 THEN 0 ELSE n
            /\ \A k \in 1..Len(s) : s[k] = MoveOf("collect", f, Funders[k])
<1> DEFINE n == Len(Funders)
<1>1. n \in Nat /\ \A k \in 1..n : Funders[k] \in Dimensions /\ Funders[k] \in FunderSet
  BY DimensionTypes
<1>2. \A k \in 1..n : /\ ensure(Funders[k]) \in Step
                      /\ MoveOf("fund", f, Funders[k]) \in Step
                      /\ MoveOf("collect", f, Funders[k]) \in Step
                      /\ moveIfAvailable(Funders[k], 0, Share[f]) = MoveOf("fund", f, Funders[k])
                      /\ move(Funders[k], 0, -Share[f]) = MoveOf("collect", f, Funders[k])
  BY <1>1, StepTypes DEF Ops
<1>3. LET s == utiliseFunderLimits(f) IN
            /\ s \in Seq(Step) /\ Len(s) = 2 * n
            /\ \A k \in 1..n : /\ s[2 * k - 1] = ensure(Funders[k])
                               /\ s[2 * k] = MoveOf("fund", f, Funders[k])
  <2> DEFINE s == utiliseFunderLimits(f)
             F(k) == LET d == Funders[(k + 1) \div 2]
                     IN IF k % 2 = 1 THEN ensure(d) ELSE moveIfAvailable(d, 0, Share[f])
  <2>1. s = [k \in 1 .. 2 * n |-> F(k)]
    BY DEF utiliseFunderLimits
  <2>2. \A k \in 1 .. 2 * n : F(k) \in Step
    <3>1. \A k \in 1 .. 2 * n : (k + 1) \div 2 \in 1..n
      BY <1>1
    <3>2. QED
      BY <3>1, <1>2
  <2>3. \A k \in 1..n : /\ 2 * k - 1 \in 1 .. 2 * n /\ 2 * k \in 1 .. 2 * n
                        /\ ((2 * k - 1) + 1) \div 2 = k /\ (2 * k - 1) % 2 = 1
                        /\ (2 * k + 1) \div 2 = k /\ (2 * k) % 2 # 1
    BY <1>1
  <2>4. \A k \in 1..n : F(2 * k - 1) = ensure(Funders[k]) /\ F(2 * k) = MoveOf("fund", f, Funders[k])
    BY <2>3, <1>2
  <2> HIDE DEF F
  <2>5. 2 * n \in Nat
    BY <1>1
  <2>6. s \in Seq(Step) /\ Len(s) = 2 * n
    BY <2>1, <2>2, <2>5, IsASeq
  <2>7. QED
    BY <2>1, <2>3, <2>4, <2>6
<1>4. LET s == releaseFunderLimits(f) IN
            /\ s \in Seq(Step) /\ Len(s) = IF allocations[f] = 0 THEN 0 ELSE n
            /\ \A k \in 1..Len(s) : s[k] = MoveOf("collect", f, Funders[k])
  <2>1. CASE allocations[f] = 0
    BY <2>1 DEF releaseFunderLimits
  <2>2. CASE allocations[f] # 0
    <3>1. releaseFunderLimits(f) = [k \in 1..n |-> move(Funders[k], 0, -Share[f])]
      BY <2>2 DEF releaseFunderLimits, onFunders
    <3>2. QED
      BY <2>2, <3>1, <1>1, <1>2
  <2>3. QED
    BY <2>1, <2>2
<1>5. QED
  BY <1>3, <1>4

MovesOn(todo, k, d) == todo[k].kind = "move" /\ todo[k].dimension = d
HasMove(todo, d) == \E k \in 1..Len(todo) : MovesOn(todo, k, d)
HasEnsure(todo, d) ==
  \E k \in 1..Len(todo) : todo[k].kind = "ensure" /\ todo[k].dimension = d

\* Movements come in the order of the records, each after its ensure.
Ordered(todo) ==
  /\ \A j, k \in 1..Len(todo) :
       j < k /\ todo[j].kind = "move" /\ todo[k].kind = "move"
         => Rank(todo[j].dimension) < Rank(todo[k].dimension)
  /\ \A k \in 1..Len(todo) : todo[k].kind = "ensure" =>
       \E j \in 1..Len(todo) : k < j /\ MovesOn(todo, j, todo[k].dimension)

\* The dimensions whose records a transaction moves.
Touched(op, f) ==
  CASE op = "accept" -> CoreOf(f)
    [] op = "fund" -> CoreOf(f) \cup FunderSet
    [] op = "collect" -> CoreOf(f) \cup (IF allocations[f] = 0 THEN {} ELSE FunderSet)
    [] op = "remove" /\ status[f] = "ACCEPTED" -> CoreOf(f)
    [] OTHER -> {}

IsPlan(s, op, f) ==
  /\ s \in Seq(Step)
  /\ Ordered(s)
  /\ \A k \in 1..Len(s) : s[k].kind = "move" =>
       /\ s[k].dimension \in Touched(op, f)
       /\ s[k] = MoveOf(op, f, s[k].dimension)
  /\ \A d \in Touched(op, f) : HasMove(s, d)
  /\ op = "accept" => \A d \in CoreOf(f) : HasEnsure(s, d)
  /\ op = "fund" => \A d \in FunderSet : HasEnsure(s, d)

LEMMA MovesOf ==
  ASSUME NEW f \in Financings, NEW op \in Ops
  PROVE  LET P == Programme  A == AnchorOf[f]  S == SupplierOf[f]  n == Len(Funders) IN
         /\ n \in Nat
         /\ \A m \in {MoveOf(op, f, P), MoveOf(op, f, A), MoveOf(op, f, S)} : m.kind = "move"
         /\ MoveOf(op, f, P).dimension = P /\ MoveOf(op, f, A).dimension = A
         /\ MoveOf(op, f, S).dimension = S
         /\ \A e \in {ensure(P), ensure(A), ensure(S)} : e.kind = "ensure"
         /\ ensure(P).dimension = P /\ ensure(A).dimension = A /\ ensure(S).dimension = S
         /\ Rank(P) = 0 /\ Rank(A) = 1 /\ Rank(S) = 2
         /\ \A k \in 1..n : /\ MoveOf(op, f, Funders[k]).kind = "move"
                            /\ MoveOf(op, f, Funders[k]).dimension = Funders[k]
                            /\ ensure(Funders[k]).kind = "ensure"
                            /\ ensure(Funders[k]).dimension = Funders[k]
                            /\ Rank(Funders[k]) = 2 + k
  BY StepTypes, DimensionTypes, Ranks

LEMMA EmptyPlan ==
  ASSUME NEW f \in Financings, NEW op \in {"disburse", "remove"}, Touched(op, f) = {}
  PROVE  IsPlan(<<>>, op, f)
<1>1. <<>> \in Seq(Step) /\ 1..Len(<<>>) = {}
  OBVIOUS
<1>2. Ordered(<<>>)
  BY <1>1 DEF Ordered
<1>3. QED
  BY <1>1, <1>2 DEF IsPlan

LEMMA ConcatAt ==
  ASSUME NEW S, NEW u \in Seq(S), NEW v \in Seq(S), NEW i \in 1..(Len(u) + Len(v))
  PROVE  (u \o v)[i] = IF i <= Len(u) THEN u[i] ELSE v[i - Len(u)]
  OBVIOUS

\* A name for the two parts of a plan put together.
Join(u, v) == u \o v

LEMMA Joined ==
  ASSUME NEW u \in Seq(Step), NEW v \in Seq(Step), Len(u) = 3
  PROVE  /\ Join(u, v) \in Seq(Step) /\ Len(Join(u, v)) = 3 + Len(v)
         /\ Join(u, v)[1] = u[1] /\ Join(u, v)[2] = u[2] /\ Join(u, v)[3] = u[3]
         /\ \A k \in 1..Len(v) : Join(u, v)[3 + k] = v[k]
<1>1. Len(u) \in Nat /\ Len(v) \in Nat
  OBVIOUS
<1>2. u \o v \in Seq(Step)
  BY ConcatProperties
<1>3. Len(u \o v) = Len(u) + Len(v)
  BY ConcatProperties
<1>4. ASSUME NEW i \in 1..(Len(u) + Len(v))
      PROVE  (u \o v)[i] = IF i <= Len(u) THEN u[i] ELSE v[i - Len(u)]
  BY ConcatAt
<1> DEFINE w == Join(u, v)
<1> HIDE DEF w
<1>5. \A i \in 1..(3 + Len(v)) : w[i] = IF i <= 3 THEN u[i] ELSE v[i - 3]
  BY <1>4 DEF w, Join
<1>6. ASSUME NEW k \in 1..Len(v) PROVE w[3 + k] = v[k]
  <2>1. 3 + k \in 1..(3 + Len(v)) /\ ~(3 + k <= 3) /\ (3 + k) - 3 = k
    BY <1>1
  <2>2. QED
    BY <1>5, <2>1
<1>7. 1 \in 1..(3 + Len(v)) /\ 2 \in 1..(3 + Len(v)) /\ 3 \in 1..(3 + Len(v))
  BY <1>1
<1>8. w[1] = u[1] /\ w[2] = u[2] /\ w[3] = u[3]
  BY <1>5, <1>7
<1>9. QED
  <2>1. w \in Seq(Step) /\ Len(w) = 3 + Len(v)
    BY <1>2, <1>3 DEF w, Join
  <2>2. QED
    BY <2>1, <1>6, <1>8 DEF w

LEMMA AcceptPlan ==
  ASSUME NEW f \in Financings
  PROVE  IsPlan(plan("accept", f), "accept", f)
<1> DEFINE s == plan("accept", f)
           P == Programme A == AnchorOf[f] S == SupplierOf[f]
<1>1. s = reserveCoreLimits(f)
  BY DEF plan
<1>2. /\ s \in Seq(Step) /\ Len(s) = 6
      /\ s[1] = ensure(P) /\ s[2] = ensure(A) /\ s[3] = ensure(S)
      /\ s[4] = MoveOf("accept", f, P) /\ s[5] = MoveOf("accept", f, A)
      /\ s[6] = MoveOf("accept", f, S)
  BY <1>1, CorePlans
<1> HIDE DEF s
<1>3. /\ s[1].kind = "ensure" /\ s[2].kind = "ensure" /\ s[3].kind = "ensure"
      /\ s[4].kind = "move" /\ s[5].kind = "move" /\ s[6].kind = "move"
      /\ s[1].dimension = P /\ s[2].dimension = A /\ s[3].dimension = S
      /\ s[4].dimension = P /\ s[5].dimension = A /\ s[6].dimension = S
      /\ Rank(P) = 0 /\ Rank(A) = 1 /\ Rank(S) = 2
  BY <1>2, MovesOf DEF Ops
<1>4. Touched("accept", f) = {P, A, S} /\ CoreOf(f) = {P, A, S}
  BY DEF Touched, CoreOf
<1>5. Ordered(s)
  BY <1>2, <1>3 DEF Ordered, MovesOn
<1>6. \A d \in {P, A, S} : HasMove(s, d) /\ HasEnsure(s, d)
  BY <1>2, <1>3 DEF HasMove, HasEnsure, MovesOn
<1>7. \A k \in 1..Len(s) : s[k].kind = "move" =>
         s[k].dimension \in {P, A, S} /\ s[k] = MoveOf("accept", f, s[k].dimension)
  BY <1>2, <1>3
<1>8. IsPlan(s, "accept", f)
  BY <1>2, <1>4, <1>5, <1>6, <1>7 DEF IsPlan
<1>9. QED
  BY <1>8 DEF s

LEMMA RemovePlan ==
  ASSUME NEW f \in Financings
  PROVE  IsPlan(plan("remove", f), "remove", f)
<1> DEFINE s == plan("remove", f)
           P == Programme A == AnchorOf[f] S == SupplierOf[f]
<1>1. CASE status[f] = "ACCEPTED"
  <2>1. s = releaseCoreLimits(f, "reserved")
    BY <1>1 DEF plan
  <2>2. /\ s \in Seq(Step) /\ Len(s) = 3
        /\ s[1] = MoveOf("remove", f, P) /\ s[2] = MoveOf("remove", f, A)
        /\ s[3] = MoveOf("remove", f, S)
    BY <2>1, CorePlans
  <2> HIDE DEF s
  <2>3. /\ s[1].kind = "move" /\ s[2].kind = "move" /\ s[3].kind = "move"
        /\ s[1].dimension = P /\ s[2].dimension = A /\ s[3].dimension = S
        /\ Rank(P) = 0 /\ Rank(A) = 1 /\ Rank(S) = 2
    BY <2>2, MovesOf DEF Ops
  <2>4. Touched("remove", f) = {P, A, S}
    BY <1>1 DEF Touched, CoreOf
  <2>5. Ordered(s)
    BY <2>2, <2>3 DEF Ordered, MovesOn
  <2>6. \A d \in {P, A, S} : HasMove(s, d)
    BY <2>2, <2>3 DEF HasMove, MovesOn
  <2>7. \A k \in 1..Len(s) : s[k].kind = "move" =>
           s[k].dimension \in {P, A, S} /\ s[k] = MoveOf("remove", f, s[k].dimension)
    BY <2>2, <2>3
  <2>8. IsPlan(s, "remove", f)
    BY <2>2, <2>4, <2>5, <2>6, <2>7 DEF IsPlan
  <2>9. QED
    BY <2>8 DEF s
<1>2. CASE status[f] # "ACCEPTED"
  <2>1. s = <<>> /\ Touched("remove", f) = {}
    BY <1>2 DEF plan, Touched
  <2>2. QED
    BY <2>1, EmptyPlan
<1>3. QED
  BY <1>1, <1>2

LEMMA DisbursePlan ==
  ASSUME NEW f \in Financings
  PROVE  IsPlan(plan("disburse", f), "disburse", f)
<1>1. plan("disburse", f) = <<>> /\ Touched("disburse", f) = {}
  BY DEF plan, Touched
<1>2. QED
  BY <1>1, EmptyPlan

LEMMA FundPlan ==
  ASSUME NEW f \in Financings
  PROVE  IsPlan(plan("fund", f), "fund", f)
<1> DEFINE s == plan("fund", f)
           u == utiliseCoreLimits(f)
           v == utiliseFunderLimits(f)
           n == Len(Funders)
           P == Programme A == AnchorOf[f] S == SupplierOf[f]
           m(k) == 2 * k + 3
           e(k) == 2 * k + 2
<1>1. s = Join(u, v)
  BY DEF plan, Join
<1>2. /\ u \in Seq(Step) /\ Len(u) = 3
      /\ u[1] = MoveOf("fund", f, P) /\ u[2] = MoveOf("fund", f, A)
      /\ u[3] = MoveOf("fund", f, S)
  BY CorePlans
<1>3. /\ v \in Seq(Step) /\ Len(v) = 2 * n /\ n \in Nat
      /\ \A k \in 1..n : v[2 * k - 1] = ensure(Funders[k]) /\ v[2 * k] = MoveOf("fund", f, Funders[k])
  BY FunderPlans, DimensionTypes
<1> HIDE DEF u, v
<1>4. /\ s \in Seq(Step) /\ Len(s) = 3 + 2 * n
      /\ s[1] = u[1] /\ s[2] = u[2] /\ s[3] = u[3]
      /\ \A k \in 1..(2 * n) : s[3 + k] = v[k]
  <2> HIDE DEF s
  <2>1. u \in Seq(Step) /\ v \in Seq(Step) /\ Len(u) = 3
    BY <1>2, <1>3
  <2>2. /\ s \in Seq(Step) /\ Len(s) = 3 + Len(v)
        /\ s[1] = u[1] /\ s[2] = u[2] /\ s[3] = u[3]
        /\ \A k \in 1..Len(v) : s[3 + k] = v[k]
    BY <1>1, <2>1, Joined
  <2>3. QED
    BY <1>3, <2>2
<1> HIDE DEF s
<1>5. ASSUME NEW k \in 1..n
      PROVE  /\ s[e(k)] = ensure(Funders[k]) /\ s[m(k)] = MoveOf("fund", f, Funders[k])
             /\ e(k) \in 1..Len(s) /\ m(k) \in 1..Len(s) /\ e(k) < m(k)
             /\ s[e(k)].kind = "ensure" /\ s[e(k)].dimension = Funders[k]
             /\ s[m(k)].kind = "move" /\ s[m(k)].dimension = Funders[k]
             /\ Rank(Funders[k]) = 2 + k
             /\ Funders[k] \in FunderSet
  <2>1. /\ 2 * k - 1 \in 1..(2 * n) /\ 2 * k \in 1..(2 * n)
        /\ 3 + (2 * k - 1) = e(k) /\ 3 + 2 * k = m(k)
    BY <1>3
  <2>2. s[e(k)] = ensure(Funders[k]) /\ s[m(k)] = MoveOf("fund", f, Funders[k])
    BY <1>3, <1>4, <2>1
  <2>3. e(k) \in 1..Len(s) /\ m(k) \in 1..Len(s) /\ e(k) < m(k)
    BY <1>3, <1>4
  <2>4. "fund" \in Ops
    BY DEF Ops
  <2>5. QED
    BY <2>2, <2>3, <2>4, MovesOf, DimensionTypes
<1>6. /\ s[1].kind = "move" /\ s[2].kind = "move" /\ s[3].kind = "move"
      /\ s[1].dimension = P /\ s[2].dimension = A /\ s[3].dimension = S
      /\ Rank(P) = 0 /\ Rank(A) = 1 /\ Rank(S) = 2
      /\ s[1] = MoveOf("fund", f, P) /\ s[2] = MoveOf("fund", f, A)
      /\ s[3] = MoveOf("fund", f, S)
  BY <1>2, <1>4, MovesOf DEF Ops
<1>8. \A i \in 1..Len(s) : \/ i \in {1, 2, 3}
                           \/ \E k \in 1..n : i = e(k) \/ i = m(k)
  <2>1. ASSUME NEW i \in 4..(3 + 2 * n)
        PROVE  \E k \in 1..n : i = e(k) \/ i = m(k)
    <3>1. ((i - 2) \div 2) \in 1..n /\ (i = e((i - 2) \div 2) \/ i = m((i - 2) \div 2))
      BY <1>3
    <3>2. QED
      BY <3>1
  <2>2. QED
    BY <1>3, <1>4, <2>1
<1>9. \A k \in 1..n : m(k) = 2 * k + 3
  OBVIOUS
<1> HIDE DEF m, e
<1>10. Ordered(s)
  <2>1. ASSUME NEW i \in 1..Len(s), s[i].kind = "move"
        PROVE  \/ (i \in {1, 2, 3} /\ Rank(s[i].dimension) = i - 1)
               \/ \E k \in 1..n : i = 2 * k + 3 /\ Rank(s[i].dimension) = 2 + k
    <3>1. CASE i \in {1, 2, 3}
      BY <1>6, <3>1
    <3>2. CASE \E k \in 1..n : i = e(k) \/ i = m(k)
      <4>1. PICK k \in 1..n : i = e(k) \/ i = m(k)
        BY <3>2
      <4>2. i = m(k)
        BY <4>1, <1>5, <2>1
      <4>3. QED
        BY <4>2, <1>5, <1>9
    <3>3. QED
      BY <3>1, <3>2, <1>8
  <2>2. ASSUME NEW i \in 1..Len(s), NEW j \in 1..Len(s), i < j,
               s[i].kind = "move", s[j].kind = "move"
        PROVE  Rank(s[i].dimension) < Rank(s[j].dimension)
    <3>1. \/ (i \in {1, 2, 3} /\ Rank(s[i].dimension) = i - 1)
          \/ \E k \in 1..n : i = 2 * k + 3 /\ Rank(s[i].dimension) = 2 + k
      BY <2>1, <2>2
    <3>2. \/ (j \in {1, 2, 3} /\ Rank(s[j].dimension) = j - 1)
          \/ \E k \in 1..n : j = 2 * k + 3 /\ Rank(s[j].dimension) = 2 + k
      BY <2>1, <2>2
    <3>3. QED
      BY <3>1, <3>2, <2>2, <1>3
  <2>3. ASSUME NEW i \in 1..Len(s), s[i].kind = "ensure"
        PROVE  \E j \in 1..Len(s) : i < j /\ MovesOn(s, j, s[i].dimension)
    <3>1. i \notin {1, 2, 3}
      BY <2>3, <1>6
    <3>2. PICK k \in 1..n : i = e(k) \/ i = m(k)
      BY <3>1, <1>8
    <3>3. i = e(k)
      BY <2>3, <3>2, <1>5
    <3>4. i < m(k) /\ MovesOn(s, m(k), s[i].dimension) /\ m(k) \in 1..Len(s)
      BY <3>3, <1>5 DEF MovesOn
    <3>5. QED
      BY <3>4
  <2>4. QED
    BY <2>2, <2>3 DEF Ordered
<1>11. Touched("fund", f) = {P, A, S} \cup FunderSet
  BY DEF Touched, CoreOf
<1>13. \A d \in {P, A, S} : HasMove(s, d)
  BY <1>3, <1>4, <1>6 DEF HasMove, MovesOn
<1>14. ASSUME NEW d \in FunderSet PROVE HasMove(s, d) /\ HasEnsure(s, d)
  <2>1. PICK k \in 1..n : d = Funders[k]
    BY DEF FunderSet
  <2>2. QED
    BY <2>1, <1>5 DEF HasMove, HasEnsure, MovesOn
<1>15. ASSUME NEW i \in 1..Len(s), s[i].kind = "move"
       PROVE  /\ s[i].dimension \in {P, A, S} \cup FunderSet
              /\ s[i] = MoveOf("fund", f, s[i].dimension)
  <2>1. CASE i \in {1, 2, 3}
    BY <1>6, <2>1
  <2>2. CASE \E k \in 1..n : i = e(k) \/ i = m(k)
    <3>1. PICK k \in 1..n : i = m(k)
      BY <2>2, <1>5, <1>15
    <3>2. QED
      BY <3>1, <1>5
  <2>3. QED
    BY <2>1, <2>2, <1>8
<1>16. IsPlan(s, "fund", f)
  BY <1>4, <1>10, <1>11, <1>13, <1>14, <1>15 DEF IsPlan
<1>17. QED
  BY <1>16 DEF s

LEMMA CollectPlan ==
  ASSUME NEW f \in Financings
  PROVE  IsPlan(plan("collect", f), "collect", f)
<1> DEFINE s == plan("collect", f)
           u == releaseCoreLimits(f, "utilised")
           v == releaseFunderLimits(f)
           n == Len(v)
           P == Programme A == AnchorOf[f] S == SupplierOf[f]
<1>1. s = Join(u, v)
  BY DEF plan, Join
<1>2. /\ u \in Seq(Step) /\ Len(u) = 3
      /\ u[1] = MoveOf("collect", f, P) /\ u[2] = MoveOf("collect", f, A)
      /\ u[3] = MoveOf("collect", f, S)
  BY CorePlans
<1>3. /\ v \in Seq(Step) /\ n \in Nat /\ n = IF allocations[f] = 0 THEN 0 ELSE Len(Funders)
      /\ n <= Len(Funders)
      /\ \A k \in 1..n : v[k] = MoveOf("collect", f, Funders[k])
  BY FunderPlans, DimensionTypes
<1> HIDE DEF u, v
<1>4. /\ s \in Seq(Step) /\ Len(s) = 3 + n
      /\ s[1] = u[1] /\ s[2] = u[2] /\ s[3] = u[3]
      /\ \A k \in 1..n : s[3 + k] = v[k]
  <2> HIDE DEF s
  <2>1. u \in Seq(Step) /\ v \in Seq(Step) /\ Len(u) = 3
    BY <1>2, <1>3
  <2>2. /\ s \in Seq(Step) /\ Len(s) = 3 + Len(v)
        /\ s[1] = u[1] /\ s[2] = u[2] /\ s[3] = u[3]
        /\ \A k \in 1..Len(v) : s[3 + k] = v[k]
    BY <1>1, <2>1, Joined
  <2>3. QED
    BY <1>3, <2>2
<1> HIDE DEF s, n
<1>5. /\ s[1].kind = "move" /\ s[2].kind = "move" /\ s[3].kind = "move"
      /\ s[1].dimension = P /\ s[2].dimension = A /\ s[3].dimension = S
      /\ Rank(P) = 0 /\ Rank(A) = 1 /\ Rank(S) = 2
      /\ s[1] = MoveOf("collect", f, P) /\ s[2] = MoveOf("collect", f, A)
      /\ s[3] = MoveOf("collect", f, S)
  BY <1>2, <1>4, MovesOf DEF Ops
<1>6. ASSUME NEW k \in 1..n
      PROVE  /\ s[3 + k].kind = "move" /\ s[3 + k].dimension = Funders[k]
             /\ Rank(Funders[k]) = 2 + k /\ Funders[k] \in FunderSet
             /\ s[3 + k] = MoveOf("collect", f, Funders[k])
             /\ allocations[f] # 0 /\ 3 + k \in 1..Len(s)
  <2>1. k \in 1..Len(Funders) /\ allocations[f] # 0 /\ 3 + k \in 1..Len(s)
    BY <1>3, <1>4, DimensionTypes
  <2>2. s[3 + k] = MoveOf("collect", f, Funders[k])
    BY <1>3, <1>4
  <2>3. "collect" \in Ops
    BY DEF Ops
  <2>4. QED
    BY <2>1, <2>2, <2>3, MovesOf, DimensionTypes
<1>7. \A i \in 1..Len(s) : i \in {1, 2, 3} \/ \E k \in 1..n : i = 3 + k
  <2>1. ASSUME NEW i \in 4..(3 + n) PROVE \E k \in 1..n : i = 3 + k
    <3>1. i - 3 \in 1..n /\ i = 3 + (i - 3)
      BY <1>3
    <3>2. QED
      BY <3>1
  <2>2. ASSUME NEW i \in 1..(3 + n) PROVE i \in {1, 2, 3} \/ i \in 4..(3 + n)
    BY <1>3
  <2>3. QED
    BY <1>4, <2>1, <2>2
<1>8. Ordered(s)
  <2>1. ASSUME NEW i \in 1..Len(s)
        PROVE  s[i].kind = "move" /\ Rank(s[i].dimension) = i - 1
    <3>1. CASE i \in {1, 2, 3}
      BY <1>5, <3>1
    <3>2. ASSUME NEW k \in 1..n, i = 3 + k
          PROVE  s[i].kind = "move" /\ Rank(s[i].dimension) = i - 1
      <4>1. s[i].kind = "move" /\ s[i].dimension = Funders[k] /\ Rank(Funders[k]) = 2 + k
        BY <1>6, <3>2
      <4>2. 2 + k = i - 1
        BY <3>2, <1>3
      <4>3. QED
        BY <4>1, <4>2
    <3>3. QED
      BY <1>7, <3>1, <3>2
  <2>2. \A i, j \in 1..Len(s) : i < j => i - 1 < j - 1
    BY <1>3, <1>4
  <2>3. \A i \in 1..Len(s) : s[i].kind # "ensure"
    BY <2>1
  <2>4. QED
    BY <2>1, <2>2, <2>3 DEF Ordered
<1>9. Touched("collect", f) = {P, A, S} \cup (IF allocations[f] = 0 THEN {} ELSE FunderSet)
  BY DEF Touched, CoreOf
<1>10. \A d \in {P, A, S} : HasMove(s, d)
  BY <1>3, <1>4, <1>5 DEF HasMove, MovesOn
<1>11. allocations[f] # 0 => \A d \in FunderSet : HasMove(s, d)
  <2>1. ASSUME allocations[f] # 0, NEW k \in 1..Len(Funders) PROVE HasMove(s, Funders[k])
    <3>1. k \in 1..n
      BY <2>1, <1>3, <1>4
    <3>2. QED
      BY <3>1, <1>6 DEF HasMove, MovesOn
  <2>2. QED
    BY <2>1 DEF FunderSet
<1>12. ASSUME NEW i \in 1..Len(s)
       PROVE  /\ s[i].dimension \in {P, A, S} \cup (IF allocations[f] = 0 THEN {} ELSE FunderSet)
              /\ s[i] = MoveOf("collect", f, s[i].dimension)
  <2>1. CASE i \in {1, 2, 3}
    BY <1>5, <2>1
  <2>2. CASE \E k \in 1..n : i = 3 + k
    <3>1. PICK k \in 1..n : i = 3 + k
      BY <2>2
    <3>2. QED
      BY <3>1, <1>6
  <2>3. QED
    BY <1>7, <2>1, <2>2
<1>13. IsPlan(s, "collect", f)
  BY <1>4, <1>8, <1>9, <1>10, <1>11, <1>12 DEF IsPlan
<1>14. QED
  BY <1>13 DEF s

LEMMA Plans ==
  ASSUME NEW f \in Financings, NEW op \in Ops
  PROVE  IsPlan(plan(op, f), op, f)
  BY AcceptPlan, FundPlan, DisbursePlan, CollectPlan, RemovePlan DEF Ops

-----------------------------------------------------------------------------
(* Taking the first statement off a plan *)

LEMMA TailFacts ==
  ASSUME NEW s \in Seq(Step), s # <<>>
  PROVE  /\ Tail(s) \in Seq(Step) /\ Len(s) \in Nat \ {0} /\ Len(Tail(s)) = Len(s) - 1
         /\ \A k \in 1..Len(Tail(s)) : Tail(s)[k] = s[k + 1] /\ k + 1 \in 1..Len(s)
         /\ \A k \in 1..Len(s) : k # 1 => k - 1 \in 1..Len(Tail(s)) /\ Tail(s)[k - 1] = s[k]
         /\ Head(s) = s[1] /\ s[1] \in Step
         /\ \A k \in 1..Len(s) : s[k] \in Step
  OBVIOUS

LEMMA PopOrdered ==
  ASSUME NEW s \in Seq(Step), s # <<>>, Ordered(s)
  PROVE  /\ Ordered(Tail(s))
         /\ Head(s).kind = "move" => \A k \in 1..Len(Tail(s)) : Tail(s)[k].kind = "move" =>
               Rank(Head(s).dimension) < Rank(Tail(s)[k].dimension)
<1> DEFINE t == Tail(s)
<1>1. /\ Len(t) = Len(s) - 1 /\ Len(s) \in Nat /\ Head(s) = s[1]
      /\ \A k \in 1..Len(t) : t[k] = s[k + 1] /\ k + 1 \in 1..Len(s)
      /\ \A k \in 1..Len(s) : k # 1 => k - 1 \in 1..Len(t) /\ t[k - 1] = s[k]
  BY TailFacts
<1> HIDE DEF t
<1>2. ASSUME NEW j \in 1..Len(t), NEW k \in 1..Len(t), j < k, t[j].kind = "move", t[k].kind = "move"
      PROVE  Rank(t[j].dimension) < Rank(t[k].dimension)
  <2>1. j + 1 < k + 1
    BY <1>2, <1>1
  <2>2. QED
    BY <2>1, <1>2, <1>1 DEF Ordered
<1>3. ASSUME NEW k \in 1..Len(t), t[k].kind = "ensure"
      PROVE  \E j \in 1..Len(t) : k < j /\ MovesOn(t, j, t[k].dimension)
  <2>1. PICK j \in 1..Len(s) : k + 1 < j /\ MovesOn(s, j, s[k + 1].dimension)
    BY <1>1, <1>3 DEF Ordered
  <2>2. j # 1 /\ k < j - 1
    BY <2>1, <1>1
  <2>3. QED
    BY <2>1, <2>2, <1>1 DEF MovesOn
<1>4. ASSUME Head(s).kind = "move", NEW k \in 1..Len(t), t[k].kind = "move"
      PROVE  Rank(Head(s).dimension) < Rank(t[k].dimension)
  <2>1. 1 < k + 1 /\ 1 \in 1..Len(s)
    BY <1>1
  <2>2. QED
    BY <2>1, <1>1, <1>4 DEF Ordered
<1>5. Ordered(t)
  BY <1>2, <1>3 DEF Ordered
<1>6. QED
  BY <1>4, <1>5 DEF t

LEMMA PopMoves ==
  ASSUME NEW s \in Seq(Step), s # <<>>, Ordered(s), NEW d
  PROVE  /\ HasMove(Tail(s), d) <=>
              HasMove(s, d) /\ ~(Head(s).kind = "move" /\ Head(s).dimension = d)
         /\ HasEnsure(s, d) => \/ HasEnsure(Tail(s), d)
                               \/ (Head(s).kind = "ensure" /\ Head(s).dimension = d)
         /\ Head(s).kind = "ensure" => HasMove(Tail(s), Head(s).dimension)
<1> DEFINE t == Tail(s)
<1>1. /\ Len(t) = Len(s) - 1 /\ Len(s) \in Nat \ {0} /\ Head(s) = s[1]
      /\ \A k \in 1..Len(t) : t[k] = s[k + 1] /\ k + 1 \in 1..Len(s)
      /\ \A k \in 1..Len(s) : k # 1 => k - 1 \in 1..Len(t) /\ t[k - 1] = s[k]
      /\ s[1] \in Step
  BY TailFacts
<1>2. Head(s).kind = "move" => \A k \in 1..Len(t) : t[k].kind = "move" =>
               Rank(Head(s).dimension) < Rank(t[k].dimension)
  BY PopOrdered
<1>3. \A k \in 1..Len(t) : t[k].kind = "move" => t[k].dimension \in Dimensions
  <2>1. \A k \in 1..Len(t) : t[k] = s[k + 1] /\ s[k + 1] \in Step
    BY TailFacts
  <2>2. \A e \in Step : e.dimension \in Dimensions
    BY DEF Step
  <2>3. QED
    BY <2>1, <2>2
<1> HIDE DEF t
<1>4. ASSUME HasMove(t, d) PROVE HasMove(s, d) /\ ~(Head(s).kind = "move" /\ Head(s).dimension = d)
  <2>1. PICK k \in 1..Len(t) : t[k].kind = "move" /\ t[k].dimension = d
    BY <1>4 DEF HasMove, MovesOn
  <2>2. Rank(d) \in Int
    BY <2>1, <1>3, Ranks, DimensionTypes
  <2>3. ~(Head(s).kind = "move" /\ Head(s).dimension = d)
    BY <2>1, <2>2, <1>2
  <2>4. QED
    BY <2>1, <2>3, <1>1 DEF HasMove, MovesOn
<1>5. ASSUME HasMove(s, d), ~(Head(s).kind = "move" /\ Head(s).dimension = d) PROVE HasMove(t, d)
  <2>1. PICK k \in 1..Len(s) : s[k].kind = "move" /\ s[k].dimension = d
    BY <1>5 DEF HasMove, MovesOn
  <2>2. k # 1
    BY <2>1, <1>5, <1>1
  <2>3. QED
    BY <2>1, <2>2, <1>1 DEF HasMove, MovesOn
<1>6. HasEnsure(s, d) => HasEnsure(t, d) \/ (Head(s).kind = "ensure" /\ Head(s).dimension = d)
  BY <1>1 DEF HasEnsure
<1>7. ASSUME Head(s).kind = "ensure" PROVE HasMove(t, Head(s).dimension)
  <2>1. PICK j \in 1..Len(s) : 1 < j /\ MovesOn(s, j, s[1].dimension)
    BY <1>1, <1>7 DEF Ordered
  <2>2. QED
    BY <2>1, <1>1 DEF HasMove, MovesOn
<1>8. QED
  BY <1>4, <1>5, <1>6, <1>7 DEF t

-----------------------------------------------------------------------------
(* The order of the records *)

Written(r, row) == req[r].writes[row] # NoRecord
\* A record every transaction sees.
Shared(row) == limitRecord[row] # NoRecord

WriteOk(r) ==
  req[r].phase = "write" =>
    /\ req[r].todo # <<>>
    /\ Head(req[r].todo).kind = "move"
    /\ req[r].row[1] = Head(req[r].todo).dimension
    /\ req[r].row[2] = r \/ Shared(req[r].row)

WritesOk(r) ==
  \A row \in Rows : Written(r, row) =>
    /\ row[2] = r \/ Shared(row)
    /\ Shared(row) => \A k \in 1..Len(req[r].todo) :
          req[r].todo[k].kind = "move" => Rank(row[1]) < Rank(req[r].todo[k].dimension)

\* Each transaction takes the shared records in one order.
InOrder(r) == Ordered(req[r].todo) /\ WriteOk(r) /\ WritesOk(r)
Dated == \E n \in Nat : \A row \in Rows : createdAt[row] <= n

OrderInv == TypeOK /\ Dated /\ \A r \in Requests : req[r] # Idle => InOrder(r)

LEMMA RecordTypes ==
  /\ NoRecord \in LimitRecord /\ NoRow \in Rows /\ NothingWritten \in [Rows -> LimitRecord]
  /\ \A d \in Dimensions : newRecord(d) \in LimitRecord
  /\ \A row \in Rows : row[1] \in Dimensions /\ row = <<row[1], row[2]>>
  /\ \A d \in Dimensions, r \in Requests : <<d, r>> \in Rows
  BY LimitAssumption, DimensionTypes
     DEF NoRecord, LimitRecord, NoRow, Rows, NothingWritten, newRecord

LEMMA InProgress ==
  ASSUME TypeOK, NEW r \in Requests, req[r] # Idle
  PROVE  /\ req[r] \in InTransaction
         /\ req[r].phase \in {"next", "write"} /\ req[r].op \in Ops
         /\ req[r].target \in Financings /\ req[r].todo \in Seq(Step)
         /\ req[r].row \in Rows /\ req[r].seen \in LimitRecord
         /\ req[r].writes \in [Rows -> LimitRecord]
         /\ \A row \in Rows : visible(r, row) \in LimitRecord
<1>1. req[r] \in InTransaction
  BY DEF TypeOK
<1>2. /\ req[r].phase \in {"next", "write"} /\ req[r].op \in Ops
      /\ req[r].target \in Financings /\ req[r].todo \in Seq(Step)
      /\ req[r].row \in Rows /\ req[r].seen \in LimitRecord
      /\ req[r].writes \in [Rows -> LimitRecord]
  BY <1>1 DEF InTransaction
<1>3. \A row \in Rows : visible(r, row) \in LimitRecord
  BY <1>2 DEF visible, TypeOK
<1>4. QED
  BY <1>1, <1>2, <1>3

LEMMA NotIdle ==
  /\ \A t \in InTransaction : t # Idle
  /\ Idle.phase = "idle"
<1>1. DOMAIN Idle = {"phase"}
  BY DEF Idle
<1>2. \A t \in InTransaction : "op" \in DOMAIN t
  BY DEF InTransaction
<1>3. QED
  BY <1>1, <1>2 DEF Idle

\* There is a latest record wherever there is one.
LEMMA LatestIsVisible ==
  ASSUME TypeOK, Dated, NEW r, NEW d, recordsOf(r, d) # {}
  PROVE  /\ latest(r, d) \in recordsOf(r, d)
         /\ latest(r, d) \in Rows /\ latest(r, d)[1] = d
         /\ visible(r, latest(r, d)) # NoRecord
<1>1. PICK n \in Nat : \A row \in Rows : createdAt[row] <= n
  BY DEF Dated
<1> DEFINE R == recordsOf(r, d)  S == {createdAt[row] : row \in R}
<1>2. R \subseteq Rows
  BY DEF recordsOf
<1> HIDE DEF R
<1>3. S \subseteq Nat /\ S # {} /\ \A x \in S : x <= n
  BY <1>1, <1>2 DEF TypeOK, R
<1>4. PICK m \in S : \A x \in S : x <= m
  BY <1>3, LargestNatural
<1>5. \E row \in R : \A other \in R : createdAt[other] <= createdAt[row]
  BY <1>4
<1>6. latest(r, d) \in R
  BY <1>5 DEF latest, R
<1>7. QED
  BY <1>6 DEF R, recordsOf

LEMMA NowIsLater ==
  ASSUME TypeOK, Dated
  PROVE  /\ now \in Nat
         /\ \A row \in Rows : createdAt[row] <= now
<1>1. PICK n \in Nat : \A row \in Rows : createdAt[row] <= n
  BY DEF Dated
<1> DEFINE S == {createdAt[row] : row \in Rows}
<1>2. S \subseteq Nat /\ S # {} /\ \A x \in S : x <= n
  BY <1>1, RecordTypes DEF TypeOK
<1>3. PICK m \in S : \A x \in S : x <= m
  BY <1>2, LargestNatural
<1>4. \E x \in S : \A y \in S : x >= y
  <2>1. \A y \in S : m >= y
    BY <1>2, <1>3
  <2>2. QED
    BY <2>1
<1> HIDE DEF S
<1>5. Max(S) \in S /\ \A y \in S : Max(S) >= y
  BY <1>4 DEF Max
<1>6. Max(S) \in Nat
  BY <1>2, <1>5
<1>7. now = 1 + Max(S)
  BY DEF now, S
<1>8. \A row \in Rows : createdAt[row] \in S
  BY DEF S
<1>9. ASSUME NEW row \in Rows PROVE createdAt[row] <= now
  <2>1. createdAt[row] \in Nat
    BY DEF TypeOK
  <2>2. Max(S) >= createdAt[row]
    BY <1>5, <1>8
  <2>3. QED
    BY <2>1, <2>2, <1>6, <1>7
<1>10. QED
  BY <1>6, <1>7, <1>9

LEMMA ExposureType ==
  ASSUME NEW st \in [Financings -> FinancingStatus], NEW al \in [Financings -> Nat], NEW d
  PROVE  exposureAmount(d, st, al) \in Nat
<1>1. \A f \in Financings : Amount[f] \in Nat /\ Share[f] \in Nat /\ al[f] \in Nat
  BY LimitAssumption
<1>2. \A f \in Financings : allocated(al)[f] \in Nat
  BY <1>1 DEF allocated
<1>3. ASSUME NEW S \in SUBSET Financings
      PROVE  /\ Total(Amount, S) \in Nat /\ Total(allocated(al), S) \in Nat
  <2>1. IsFiniteSet(S)
    BY LimitAssumption, FS_Subset
  <2>2. (\A f \in S : Amount[f] \in Nat) /\ (\A f \in S : allocated(al)[f] \in Nat)
    BY <1>1, <1>2
  <2>3. QED
    BY <2>1, <2>2, TotalType
<1> DEFINE A == {f \in Financings : st[f] \in {"FUNDED", "DISBURSED"}}
           B == {f \in Financings : onDimension(f, d) /\ st[f] \in Exposed}
<1>4. exposureAmount(d, st, al) =
        IF d \in FunderSet THEN Total(allocated(al), A) ELSE Total(Amount, B)
  BY DEF exposureAmount, Total, MapThenSumSet, MapThenFoldSet
<1>5. A \in SUBSET Financings /\ B \in SUBSET Financings
  OBVIOUS
<1> HIDE DEF A, B
<1>6. QED
  BY <1>3, <1>4, <1>5

-----------------------------------------------------------------------------
(* The steps of a transaction *)

\* What a step of q leaves alone.
Others(q) ==
  /\ req' \in [Requests -> {Idle} \cup InTransaction]
  /\ \A r \in Requests \ {q} : req'[r] = req[r]
\* The transaction of q goes on, its records as they were.
GoesOn(q) ==
  /\ Others(q)
  /\ req[q] # Idle /\ req'[q] # Idle
  /\ req'[q].op = req[q].op /\ req'[q].target = req[q].target
  /\ UNCHANGED <<status, allocations, limitRecord, snapshot, alone>>

LEMMA Replaced ==
  ASSUME TypeOK, NEW q \in Requests, NEW t, t \in {Idle} \cup InTransaction,
         req' = [req EXCEPT ![q] = t]
  PROVE  Others(q) /\ req'[q] = t
  BY DEF TypeOK, Others

LEMMA BeginStep ==
  ASSUME TypeOK, NEW q \in Requests, NEW op \in Ops, NEW f \in Financings, begin(q, op, f)
  PROVE  /\ Others(q) /\ req[q] = Idle /\ req'[q] # Idle
         /\ req'[q].phase = "next" /\ req'[q].op = op /\ req'[q].target = f
         /\ req'[q].todo = plan(op, f) /\ req'[q].writes = NothingWritten
         /\ \A r \in Requests : req[r] # Idle => req[r].target # f /\ ~alone
         /\ status[f] \in AllowedFrom[op]
         /\ UNCHANGED <<status, allocations, limitRecord, createdAt, snapshot, alone>>
<1> DEFINE t == [phase |-> "next", op |-> op, target |-> f, todo |-> plan(op, f),
                 row |-> NoRow, seen |-> NoRecord, writes |-> NothingWritten]
<1>1. plan(op, f) \in Seq(Step)
  BY Plans DEF IsPlan
<1>2. t \in InTransaction
  BY <1>1, RecordTypes DEF InTransaction
<1>3. req' = [req EXCEPT ![q] = t] /\ req[q] = Idle
  BY DEF begin
<1>4. Others(q) /\ req'[q] = t
  BY <1>2, <1>3, Replaced
<1>5. t # Idle
  BY <1>2, NotIdle
<1>6. \A r \in Requests : req[r] # Idle => req[r].target # f /\ ~alone
  BY DEF begin, Busy
<1>7. QED
  BY <1>3, <1>4, <1>5, <1>6 DEF begin

LEMMA PoppedType ==
  ASSUME NEW t \in InTransaction, t.todo # <<>>
  PROVE  LET u == [t EXCEPT !.todo = Tail(@)] IN
         /\ u \in InTransaction /\ u # Idle
         /\ u.phase = t.phase /\ u.op = t.op /\ u.target = t.target /\ u.row = t.row
         /\ u.seen = t.seen /\ u.writes = t.writes /\ u.todo = Tail(t.todo)
<1>1. t.todo \in Seq(Step)
  BY DEF InTransaction
<1>2. Tail(t.todo) \in Seq(Step)
  BY <1>1
<1> DEFINE u == [t EXCEPT !.todo = Tail(@)]
<1>3. u \in InTransaction
  BY <1>2 DEF InTransaction
<1>4. /\ u.phase = t.phase /\ u.op = t.op /\ u.target = t.target /\ u.row = t.row
      /\ u.seen = t.seen /\ u.writes = t.writes /\ u.todo = Tail(t.todo)
  BY DEF InTransaction
<1>5. QED
  BY <1>3, <1>4, NotIdle

LEMMA CreatedType ==
  ASSUME NEW t \in InTransaction, t.todo # <<>>, NEW d \in Dimensions, NEW q \in Requests
  PROVE  LET u == [t EXCEPT !.todo = Tail(@), !.writes[<<d, q>>] = newRecord(d)] IN
         /\ u \in InTransaction /\ u # Idle
         /\ u.phase = t.phase /\ u.op = t.op /\ u.target = t.target /\ u.row = t.row
         /\ u.seen = t.seen /\ u.todo = Tail(t.todo)
         /\ u.writes = [t.writes EXCEPT ![<<d, q>>] = newRecord(d)]
<1>1. t.todo \in Seq(Step) /\ t.writes \in [Rows -> LimitRecord]
  BY DEF InTransaction
<1>2. Tail(t.todo) \in Seq(Step)
  BY <1>1
<1>3. [t.writes EXCEPT ![<<d, q>>] = newRecord(d)] \in [Rows -> LimitRecord]
  BY <1>1, RecordTypes
<1> DEFINE u == [t EXCEPT !.todo = Tail(@), !.writes[<<d, q>>] = newRecord(d)]
<1>4. u = [t EXCEPT !.todo = Tail(t.todo), !.writes = [t.writes EXCEPT ![<<d, q>>] = newRecord(d)]]
  BY DEF InTransaction
<1> DEFINE w == [t.writes EXCEPT ![<<d, q>>] = newRecord(d)]
           v == [t EXCEPT !.todo = Tail(t.todo), !.writes = w]
<1>5. w \in [Rows -> LimitRecord]
  BY <1>3
<1> HIDE DEF w
<1>6. v \in InTransaction
  BY <1>2, <1>5 DEF InTransaction
<1>7. /\ v.phase = t.phase /\ v.op = t.op /\ v.target = t.target /\ v.row = t.row
      /\ v.seen = t.seen /\ v.todo = Tail(t.todo) /\ v.writes = w
  BY DEF InTransaction
<1>8. u = v
  BY <1>4 DEF w
<1> HIDE DEF u, v
<1>9. QED
  BY <1>6, <1>7, <1>8, NotIdle DEF u, w

LEMMA EnsureStep ==
  ASSUME TypeOK, NEW q \in Requests, ensureConfiguredLimit(q)
  PROVE  LET d == Head(req[q].todo).dimension IN
         /\ GoesOn(q)
         /\ req[q].phase = "next" /\ req[q].todo # <<>> /\ Head(req[q].todo).kind = "ensure"
         /\ d \in Dimensions
         /\ req'[q].phase = "next" /\ req'[q].todo = Tail(req[q].todo)
         /\ \/ /\ req'[q].writes = req[q].writes
               /\ ConfiguredLimit[d] = 0 \/ recordsOf(q, d) # {}
               /\ UNCHANGED createdAt
            \/ /\ req'[q].writes = [req[q].writes EXCEPT ![<<d, q>>] = newRecord(d)]
               /\ recordsOf(q, d) = {} /\ ConfiguredLimit[d] # 0
               /\ createdAt' = [createdAt EXCEPT ![<<d, q>>] = now]
<1> DEFINE t == req[q]  d == Head(req[q].todo).dimension
<1>1. req[q] # Idle /\ t.phase = "next" /\ t.todo # <<>> /\ Head(t.todo).kind = "ensure"
  BY DEF ensureConfiguredLimit, nextIs
<1>2. t \in InTransaction /\ t.todo \in Seq(Step)
  BY <1>1, InProgress
<1>3. d \in Dimensions
  <2>1. Head(t.todo) \in Step
    BY <1>1, <1>2
  <2>2. QED
    BY <2>1 DEF Step
<1>4. UNCHANGED <<status, allocations, limitRecord, snapshot, alone>>
  BY DEF ensureConfiguredLimit
<1>5. CASE ConfiguredLimit[d] = 0 \/ recordsOf(q, d) # {}
  <2>1. req' = [req EXCEPT ![q].todo = Tail(@)] /\ UNCHANGED createdAt
    BY <1>5 DEF ensureConfiguredLimit
  <2> DEFINE u == [t EXCEPT !.todo = Tail(@)]
  <2>2. req' = [req EXCEPT ![q] = u]
    BY <2>1
  <2>3. /\ u \in InTransaction /\ u # Idle
        /\ u.phase = t.phase /\ u.op = t.op /\ u.target = t.target /\ u.row = t.row
        /\ u.seen = t.seen /\ u.writes = t.writes /\ u.todo = Tail(t.todo)
    BY <1>1, <1>2, PoppedType
  <2> HIDE DEF u
  <2>4. Others(q) /\ req'[q] = u
    BY <2>2, <2>3, Replaced
  <2>5. QED
    BY <1>1, <1>3, <1>4, <1>5, <2>1, <2>3, <2>4 DEF GoesOn
<1>6. CASE ~(ConfiguredLimit[d] = 0 \/ recordsOf(q, d) # {})
  <2>1. /\ req' = [req EXCEPT ![q].todo = Tail(@), ![q].writes[<<d, q>>] = newRecord(d)]
        /\ createdAt' = [createdAt EXCEPT ![<<d, q>>] = now]
    BY <1>6 DEF ensureConfiguredLimit
  <2> DEFINE u == [t EXCEPT !.todo = Tail(@), !.writes[<<d, q>>] = newRecord(d)]
  <2>2. req' = [req EXCEPT ![q] = u]
    BY <2>1, <1>2 DEF InTransaction, TypeOK
  <2>3. /\ u \in InTransaction /\ u # Idle
        /\ u.phase = t.phase /\ u.op = t.op /\ u.target = t.target /\ u.row = t.row
        /\ u.seen = t.seen /\ u.todo = Tail(t.todo)
        /\ u.writes = [t.writes EXCEPT ![<<d, q>>] = newRecord(d)]
    BY <1>1, <1>2, <1>3, CreatedType
  <2> HIDE DEF u
  <2>4. Others(q) /\ req'[q] = u
    BY <2>2, <2>3, Replaced
  <2>5. QED
    BY <1>1, <1>3, <1>4, <1>6, <2>1, <2>3, <2>4 DEF GoesOn
<1>7. QED
  BY <1>5, <1>6

LEMMA ReadStep ==
  ASSUME TypeOK, Dated, NEW q \in Requests, readLimit(q)
  PROVE  LET s == Head(req[q].todo)  d == s.dimension  row == latest(q, d) IN
         /\ GoesOn(q) /\ UNCHANGED createdAt
         /\ req[q].phase = "next" /\ req[q].todo # <<>> /\ s.kind = "move"
         /\ d \in Dimensions
         /\ req'[q].writes = req[q].writes
         /\ \/ /\ recordsOf(q, d) = {}
               /\ req'[q].phase = "next" /\ req'[q].todo = Tail(req[q].todo)
            \/ /\ recordsOf(q, d) # {} /\ row \in Rows /\ row[1] = d
               /\ visible(q, row) # NoRecord
               /\ ~breaches(s, visible(q, row))
               /\ req'[q].phase = "write" /\ req'[q].todo = req[q].todo
               /\ req'[q].row = row /\ req'[q].seen = visible(q, row)
<1> DEFINE t == req[q]  s == Head(req[q].todo)  d == s.dimension  row == latest(q, d)
<1>1. req[q] # Idle /\ t.phase = "next" /\ t.todo # <<>> /\ s.kind = "move"
  BY DEF readLimit, nextIs
<1>2. t \in InTransaction /\ t.todo \in Seq(Step)
  BY <1>1, InProgress
<1>3. d \in Dimensions
  <2>1. Head(t.todo) \in Step
    BY <1>1, <1>2
  <2>2. QED
    BY <2>1 DEF Step
<1>4. UNCHANGED <<status, allocations, limitRecord, createdAt, snapshot, alone>>
  BY DEF readLimit
<1>5. CASE recordsOf(q, d) = {}
  <2> DEFINE u == [t EXCEPT !.todo = Tail(@)]
  <2>1. req' = [req EXCEPT ![q].todo = Tail(@)]
    BY <1>5 DEF readLimit
  <2>2. req' = [req EXCEPT ![q] = u]
    BY <2>1
  <2>3. /\ u \in InTransaction /\ u # Idle
        /\ u.phase = t.phase /\ u.op = t.op /\ u.target = t.target /\ u.row = t.row
        /\ u.seen = t.seen /\ u.writes = t.writes /\ u.todo = Tail(t.todo)
    BY <1>1, <1>2, PoppedType
  <2> HIDE DEF u
  <2>4. Others(q) /\ req'[q] = u
    BY <2>2, <2>3, Replaced
  <2>5. QED
    BY <1>1, <1>3, <1>4, <1>5, <2>3, <2>4 DEF GoesOn
<1>6. CASE recordsOf(q, d) # {}
  <2>1. ~breaches(s, visible(q, row))
    BY <1>6 DEF readLimit
  <2>2. row \in Rows /\ row[1] = d /\ visible(q, row) # NoRecord
    BY <1>6, LatestIsVisible
  <2>3. visible(q, row) \in LimitRecord
    BY <2>2, <1>1, InProgress
  <2>4. req' = [req EXCEPT ![q].phase = "write", ![q].row = row, ![q].seen = visible(q, row)]
    BY <1>6 DEF readLimit
  <2> DEFINE v == visible(q, row) w == row
             u == [t EXCEPT !.phase = "write", !.row = w, !.seen = v]
  <2>5. req' = [req EXCEPT ![q] = u]
    BY <2>4
  <2> HIDE DEF v, w
  <2>6. v \in LimitRecord /\ w \in Rows
    BY <2>2, <2>3 DEF v, w
  <2>7. u \in InTransaction
    BY <1>2, <2>6 DEF InTransaction
  <2>8. /\ u.phase = "write" /\ u.op = t.op /\ u.target = t.target /\ u.row = w
        /\ u.seen = v /\ u.writes = t.writes /\ u.todo = t.todo
    BY <1>2 DEF InTransaction
  <2> HIDE DEF u
  <2>9. Others(q) /\ req'[q] = u /\ u # Idle
    BY <2>5, <2>7, Replaced, NotIdle
  <2>10. GoesOn(q)
    BY <1>1, <1>4, <2>8, <2>9 DEF GoesOn
  <2>11. req'[q].row = row /\ req'[q].seen = visible(q, row)
    BY <2>8, <2>9 DEF v, w
  <2>12. QED
    BY <1>1, <1>3, <1>4, <1>6, <2>1, <2>2, <2>8, <2>9, <2>10, <2>11
<1>7. QED
  BY <1>5, <1>6

Moved(l, s) == [limit |-> l.limit, reserved |-> decimalMax(0, l.reserved + s.reserved),
                utilised |-> decimalMax(0, l.utilised + s.utilised)]

LEMMA MovedType ==
  ASSUME NEW l \in LimitRecord, NEW s \in Step
  PROVE  Moved(l, s) \in LimitRecord
<1>1. l.limit \in Nat /\ l.reserved + s.reserved \in Int /\ l.utilised + s.utilised \in Int
  BY DEF LimitRecord, Step
<1>2. \A b \in Int : decimalMax(0, b) \in Nat
  BY DEF decimalMax
<1>3. decimalMax(0, l.reserved + s.reserved) \in Nat /\ decimalMax(0, l.utilised + s.utilised) \in Nat
  BY <1>1, <1>2
<1>4. QED
  BY <1>1, <1>3 DEF Moved, LimitRecord

LEMMA WriteStep ==
  ASSUME TypeOK, NEW q \in Requests, writeLimit(q), req[q].todo # <<>>
  PROVE  LET s == Head(req[q].todo)  row == req[q].row IN
         /\ GoesOn(q) /\ UNCHANGED createdAt
         /\ req[q].phase = "write" /\ ~lockedByOther(q, row)
         /\ row \in Rows /\ s \in Step
         /\ req'[q].phase = "next" /\ req'[q].todo = Tail(req[q].todo)
         /\ req'[q].writes = [req[q].writes EXCEPT ![row] = Moved(req[q].seen, s)]
<1> DEFINE t == req[q]  s == Head(req[q].todo)  row == req[q].row  l == req[q].seen
           w == [t.writes EXCEPT ![row] = Moved(l, s)]
<1>1. req[q] # Idle /\ t.phase = "write" /\ ~lockedByOther(q, row)
  BY DEF writeLimit
<1>2. /\ t \in InTransaction /\ t.todo \in Seq(Step) /\ row \in Rows /\ l \in LimitRecord
      /\ t.writes \in [Rows -> LimitRecord]
  BY <1>1, InProgress
<1>3. s \in Step
  BY <1>2
<1>4. UNCHANGED <<status, allocations, limitRecord, createdAt, snapshot, alone>>
  BY DEF writeLimit
<1> DEFINE u == [t EXCEPT !.phase = "next", !.todo = Tail(t.todo), !.row = NoRow,
                         !.seen = NoRecord, !.writes = w]
<1>5. Moved(l, s) \in LimitRecord
  BY <1>2, <1>3, MovedType
<1>6. w \in [Rows -> LimitRecord]
  BY <1>2, <1>5
<1>7. req' = [req EXCEPT ![q] = [t EXCEPT !.phase = "next", !.todo = Tail(@),
                 !.row = NoRow, !.seen = NoRecord, !.writes[row] = Moved(l, s)]]
  <2>1. Moved(l, s) = [limit |-> l.limit,
                       reserved |-> decimalMax(0, l.reserved + s.reserved),
                       utilised |-> decimalMax(0, l.utilised + s.utilised)]
    BY DEF Moved
  <2>2. req' = [req EXCEPT ![q].phase = "next", ![q].todo = Tail(@),
                  ![q].row = NoRow, ![q].seen = NoRecord,
                  ![q].writes[row] = Moved(l, s)]
    BY <2>1 DEF writeLimit
  <2>3. QED
    BY <2>2, <1>2 DEF InTransaction, TypeOK
<1>8. [t EXCEPT !.phase = "next", !.todo = Tail(@),
                 !.row = NoRow, !.seen = NoRecord, !.writes[row] = Moved(l, s)] = u
  BY <1>2 DEF InTransaction
<1>9. req' = [req EXCEPT ![q] = u]
  BY <1>7, <1>8
<1> HIDE DEF w
<1>10. Tail(t.todo) \in Seq(Step)
  BY <1>2
<1>11. u \in InTransaction
  BY <1>2, <1>6, <1>10, RecordTypes DEF InTransaction
<1>12. /\ u.phase = "next" /\ u.op = t.op /\ u.target = t.target
       /\ u.writes = w /\ u.todo = Tail(t.todo)
  BY <1>2 DEF InTransaction
<1> HIDE DEF u
<1>13. Others(q) /\ req'[q] = u /\ u # Idle
  BY <1>9, <1>11, Replaced, NotIdle
<1>14. GoesOn(q)
  BY <1>1, <1>4, <1>12, <1>13 DEF GoesOn
<1>15. req'[q].writes = [t.writes EXCEPT ![row] = Moved(l, s)]
  BY <1>12, <1>13 DEF w
<1>16. QED
  BY <1>1, <1>2, <1>3, <1>4, <1>12, <1>13, <1>14, <1>15

LEMMA CommitStep ==
  ASSUME TypeOK, NEW q \in Requests, commit(q)
  PROVE  LET f == req[q].target  op == req[q].op IN
         /\ Others(q) /\ req[q] # Idle /\ req'[q] = Idle
         /\ req[q].phase = "next" /\ req[q].todo = <<>>
         /\ f \in Financings /\ op \in Ops
         /\ status' = [status EXCEPT ![f] = StatusAfter[op]]
         /\ allocations' = IF op = "fund" THEN [allocations EXCEPT ![f] = @ + 1] ELSE allocations
         /\ limitRecord' = [row \in Rows |-> visible(q, row)]
         /\ UNCHANGED <<createdAt, alone>>
<1>1. /\ req[q] # Idle /\ req[q].phase = "next" /\ req[q].todo = <<>>
      /\ req' = [req EXCEPT ![q] = Idle]
  BY DEF commit
<1>2. Others(q) /\ req'[q] = Idle
  BY <1>1, Replaced
<1>3. req[q].target \in Financings /\ req[q].op \in Ops
  BY <1>1, InProgress
<1>4. QED
  BY <1>1, <1>2, <1>3 DEF commit

LEMMA EndStep ==
  ASSUME TypeOK, NEW q \in Requests, limitBreached(q) \/ rollback(q)
  PROVE  /\ Others(q) /\ req[q] # Idle /\ req'[q] = Idle
         /\ \A row \in Rows : createdAt'[row] \in {0, createdAt[row]}
         /\ createdAt' \in [Rows -> Nat]
         /\ UNCHANGED <<status, allocations, limitRecord, snapshot, alone>>
<1>1. req[q] # Idle /\ endWithout(q)
  BY DEF limitBreached, rollback, nextIs
<1>2. req' = [req EXCEPT ![q] = Idle]
  BY <1>1 DEF endWithout
<1>3. Others(q) /\ req'[q] = Idle
  BY <1>2, Replaced
<1>4. QED
  BY <1>1, <1>3 DEF endWithout, TypeOK

-----------------------------------------------------------------------------
(* The order is kept *)

LEMMA InitOrder == Init => OrderInv
<1> SUFFICES ASSUME Init PROVE OrderInv
  OBVIOUS
<1>1. status \in [Financings -> FinancingStatus] /\ allocations \in [Financings -> Nat]
  BY DEF Init, FinancingStatus
<1>2. limitRecord \in [Rows -> LimitRecord]
  BY RecordTypes DEF Init
<1>3. createdAt \in [Rows -> Nat] /\ snapshot \in [Dimensions -> Nat]
  BY DEF Init
<1>4. req \in [Requests -> {Idle} \cup InTransaction] /\ alone \in BOOLEAN
  BY DEF Init
<1>5. TypeOK
  BY <1>1, <1>2, <1>3, <1>4 DEF TypeOK
<1>6. Dated
  <2>1. \A row \in Rows : createdAt[row] <= 0
    BY DEF Init
  <2>2. QED
    BY <2>1 DEF Dated
<1>7. \A r \in Requests : req[r] = Idle
  BY DEF Init
<1>8. QED
  BY <1>5, <1>6, <1>7 DEF OrderInv

\* What another transaction does leaves the order of r as it was.
LEMMA OthersInOrder ==
  ASSUME OrderInv, NEW q \in Requests, Others(q),
         NEW r \in Requests, r # q, req'[r] # Idle,
         \A row \in Rows : Shared(row) => Shared(row)',
         \A row \in Rows : Shared(row)' => Shared(row) \/ (req[q] # Idle /\ Written(q, row))
  PROVE  InOrder(r)'
<1>1. req'[r] = req[r] /\ req[r] # Idle
  BY DEF Others
<1>2. InOrder(r) /\ (req[q] # Idle => InOrder(q))
  BY <1>1 DEF OrderInv
<1>3. req[r].row \in Rows
  BY <1>1, InProgress DEF OrderInv
<1>4. WriteOk(r)'
  BY <1>1, <1>2, <1>3 DEF InOrder, WriteOk
<1>5. WritesOk(r)'
  <2> SUFFICES ASSUME NEW row \in Rows, Written(r, row)'
               PROVE  /\ row[2] = r \/ Shared(row)'
                      /\ Shared(row)' => \A k \in 1..Len(req[r].todo) :
                            req[r].todo[k].kind = "move" => Rank(row[1]) < Rank(req[r].todo[k].dimension)
    BY <1>1 DEF WritesOk
  <2>1. Written(r, row)
    BY <1>1 DEF Written
  <2>2. row[2] = r \/ Shared(row)
    BY <2>1, <1>2 DEF InOrder, WritesOk
  <2>3. Shared(row)' => Shared(row)
    <3>1. ASSUME Shared(row)', ~Shared(row) PROVE FALSE
      <4>1. req[q] # Idle /\ Written(q, row)
        BY <3>1
      <4>2. row[2] = q
        BY <4>1, <3>1, <1>2 DEF InOrder, WritesOk
      <4>3. QED
        BY <4>2, <2>2, <3>1
    <3>2. QED
      BY <3>1
  <2>4. QED
    BY <2>1, <2>2, <2>3, <1>2 DEF InOrder, WritesOk
<1>6. QED
  BY <1>1, <1>2, <1>4, <1>5 DEF InOrder

\* A step of q that leaves the committed records alone.
LEMMA StepInOrder ==
  ASSUME OrderInv, NEW q \in Requests, Others(q), UNCHANGED limitRecord,
         TypeOK', Dated', req'[q] # Idle => InOrder(q)'
  PROVE  OrderInv'
<1>1. \A row \in Rows : Shared(row)' <=> Shared(row)
  BY DEF Shared
<1>2. ASSUME NEW r \in Requests, r # q, req'[r] # Idle PROVE InOrder(r)'
  BY <1>1, <1>2, OthersInOrder
<1>3. QED
  BY <1>2 DEF OrderInv

LEMMA BeginInOrder ==
  ASSUME OrderInv, NEW q \in Requests, NEW op \in Ops, NEW f \in Financings, begin(q, op, f)
  PROVE  OrderInv'
<1>1. TypeOK
  BY DEF OrderInv
<1>2. /\ Others(q) /\ req'[q].phase = "next" /\ req'[q].todo = plan(op, f)
      /\ req'[q].writes = NothingWritten
      /\ UNCHANGED <<status, allocations, limitRecord, createdAt, snapshot, alone>>
  BY <1>1, BeginStep
<1>3. TypeOK' /\ Dated'
  BY <1>1, <1>2 DEF TypeOK, Others, OrderInv, Dated
<1>4. Ordered(req'[q].todo)
  BY <1>2, Plans DEF IsPlan
<1>5. WriteOk(q)'
  BY <1>2 DEF WriteOk
<1>6. WritesOk(q)'
  BY <1>2 DEF WritesOk, Written, NothingWritten
<1>7. QED
  BY <1>2, <1>3, <1>4, <1>5, <1>6, StepInOrder DEF InOrder

LEMMA EnsureInOrder ==
  ASSUME OrderInv, NEW q \in Requests, ensureConfiguredLimit(q)
  PROVE  OrderInv'
<1> DEFINE d == Head(req[q].todo).dimension
<1>1. TypeOK /\ Dated
  BY DEF OrderInv
<1>2. /\ GoesOn(q)
      /\ req[q].phase = "next" /\ req[q].todo # <<>> /\ Head(req[q].todo).kind = "ensure"
      /\ d \in Dimensions
      /\ req'[q].phase = "next" /\ req'[q].todo = Tail(req[q].todo)
      /\ \/ /\ req'[q].writes = req[q].writes
            /\ UNCHANGED createdAt
         \/ /\ req'[q].writes = [req[q].writes EXCEPT ![<<d, q>>] = newRecord(d)]
            /\ recordsOf(q, d) = {}
            /\ createdAt' = [createdAt EXCEPT ![<<d, q>>] = now]
  BY <1>1, EnsureStep
<1> HIDE DEF d
<1>3. Others(q) /\ req[q] # Idle /\ UNCHANGED <<status, allocations, limitRecord, snapshot, alone>>
  BY <1>2 DEF GoesOn
<1>4. InOrder(q) /\ req[q].todo \in Seq(Step) /\ req[q].writes \in [Rows -> LimitRecord]
  BY <1>1, <1>3, InProgress DEF OrderInv
<1>5. <<d, q>> \in Rows
  BY <1>2, RecordTypes
<1>6. createdAt' \in [Rows -> Nat] /\ Dated'
  <2>1. CASE UNCHANGED createdAt
    BY <2>1, <1>1 DEF TypeOK, Dated
  <2>2. CASE createdAt' = [createdAt EXCEPT ![<<d, q>>] = now]
    <3>1. now \in Nat /\ \A row \in Rows : createdAt[row] <= now
      BY <1>1, NowIsLater
    <3>2. createdAt \in [Rows -> Nat]
      BY <1>1 DEF TypeOK
    <3>3. createdAt' \in [Rows -> Nat]
      BY <2>2, <3>1, <3>2
    <3> DEFINE n == now
    <3> HIDE DEF n
    <3>4. n \in Nat /\ \A row \in Rows : createdAt'[row] <= n
      BY <2>2, <3>1, <3>2, <1>5 DEF n
    <3>5. PICK m : m = n
      OBVIOUS
    <3>6. m \in Nat /\ \A row \in Rows : createdAt'[row] <= m
      BY <3>4, <3>5
    <3>7. QED
      BY <3>3, <3>6 DEF Dated
  <2>3. QED
    BY <2>1, <2>2, <1>2
<1>7. TypeOK'
  BY <1>1, <1>3, <1>6 DEF TypeOK, Others
<1>8. /\ Ordered(req'[q].todo)
      /\ \A k \in 1..Len(req'[q].todo) : req'[q].todo[k] = req[q].todo[k + 1] /\ k + 1 \in 1..Len(req[q].todo)
  BY <1>2, <1>4, PopOrdered, TailFacts DEF InOrder
<1>9. WriteOk(q)'
  BY <1>2 DEF WriteOk
<1>10. WritesOk(q)'
  <2> SUFFICES ASSUME NEW row \in Rows, Written(q, row)'
               PROVE  /\ row[2] = q \/ Shared(row)
                      /\ Shared(row) => \A k \in 1..Len(req'[q].todo) :
                            req'[q].todo[k].kind = "move" => Rank(row[1]) < Rank(req'[q].todo[k].dimension)
    BY <1>3 DEF WritesOk, Shared
  <2>1. CASE Written(q, row)
    BY <2>1, <1>4, <1>8 DEF InOrder, WritesOk
  <2>2. CASE ~Written(q, row)
    <3>1. recordsOf(q, d) = {} /\ row = <<d, q>>
      BY <2>2, <1>2, <1>4, <1>5 DEF Written
    <3>2. ~Shared(row)
      BY <3>1, <2>2, <1>5 DEF recordsOf, visible, Shared, Written
    <3>3. QED
      BY <3>1, <3>2
  <2>3. QED
    BY <2>1, <2>2
<1>11. QED
  BY <1>3, <1>6, <1>7, <1>8, <1>9, <1>10, StepInOrder DEF InOrder

LEMMA ReadInOrder ==
  ASSUME OrderInv, NEW q \in Requests, readLimit(q)
  PROVE  OrderInv'
<1> DEFINE s == Head(req[q].todo)  d == s.dimension  row == latest(q, d)
<1>1. TypeOK /\ Dated
  BY DEF OrderInv
<1>2. /\ GoesOn(q) /\ UNCHANGED createdAt
      /\ req[q].phase = "next" /\ req[q].todo # <<>> /\ s.kind = "move"
      /\ req'[q].writes = req[q].writes
      /\ \/ /\ req'[q].phase = "next" /\ req'[q].todo = Tail(req[q].todo)
         \/ /\ row \in Rows /\ row[1] = d
            /\ visible(q, row) # NoRecord
            /\ req'[q].phase = "write" /\ req'[q].todo = req[q].todo
            /\ req'[q].row = row
  BY <1>1, ReadStep
<1> HIDE DEF row
<1>3. Others(q) /\ req[q] # Idle /\ UNCHANGED <<status, allocations, limitRecord, snapshot, alone>>
  BY <1>2 DEF GoesOn
<1>4. InOrder(q) /\ req[q].todo \in Seq(Step)
  BY <1>1, <1>3, InProgress DEF OrderInv
<1>5. TypeOK' /\ Dated'
  BY <1>1, <1>2, <1>3 DEF TypeOK, Others, Dated
<1>6. \A other \in Rows : Written(q, other)' <=> Written(q, other)
  BY <1>2 DEF Written
<1>7. CASE req'[q].phase = "next" /\ req'[q].todo = Tail(req[q].todo)
  <2>1. /\ Ordered(req'[q].todo)
        /\ \A k \in 1..Len(req'[q].todo) : req'[q].todo[k] = req[q].todo[k + 1] /\ k + 1 \in 1..Len(req[q].todo)
    BY <1>2, <1>4, <1>7, PopOrdered, TailFacts DEF InOrder
  <2>2. WriteOk(q)'
    BY <1>7 DEF WriteOk
  <2>3. WritesOk(q)'
    BY <2>1, <1>3, <1>4, <1>6 DEF InOrder, WritesOk, Shared
  <2>4. QED
    BY <1>3, <1>5, <2>1, <2>2, <2>3, StepInOrder DEF InOrder
<1>8. CASE /\ row \in Rows /\ row[1] = d
           /\ visible(q, row) # NoRecord
           /\ req'[q].phase = "write" /\ req'[q].todo = req[q].todo
           /\ req'[q].row = row
  <2>1. row[2] = q \/ Shared(row)
    BY <1>8, <1>4 DEF visible, InOrder, WritesOk, Written, Shared
  <2>2. WriteOk(q)'
    BY <2>1, <1>2, <1>3, <1>8 DEF WriteOk, Shared
  <2>3. WritesOk(q)'
    BY <1>3, <1>4, <1>6, <1>8 DEF InOrder, WritesOk, Shared
  <2>4. QED
    BY <1>3, <1>4, <1>5, <1>8, <2>2, <2>3, StepInOrder DEF InOrder
<1>9. QED
  BY <1>2, <1>7, <1>8

LEMMA WriteInOrder ==
  ASSUME OrderInv, NEW q \in Requests, writeLimit(q)
  PROVE  OrderInv'
<1> DEFINE s == Head(req[q].todo)  row == req[q].row
<1>1. TypeOK /\ Dated
  BY DEF OrderInv
<1>2. req[q] # Idle /\ req[q].phase = "write"
  BY DEF writeLimit
<1>3. InOrder(q) /\ req[q].todo \in Seq(Step) /\ req[q].writes \in [Rows -> LimitRecord]
  BY <1>1, <1>2, InProgress DEF OrderInv
<1>4. /\ req[q].todo # <<>> /\ s.kind = "move" /\ row[1] = s.dimension
      /\ row[2] = q \/ Shared(row)
  BY <1>2, <1>3 DEF InOrder, WriteOk
<1>5. /\ GoesOn(q) /\ UNCHANGED createdAt /\ row \in Rows
      /\ req'[q].phase = "next" /\ req'[q].todo = Tail(req[q].todo)
      /\ req'[q].writes = [req[q].writes EXCEPT ![row] = Moved(req[q].seen, s)]
  BY <1>1, <1>4, WriteStep
<1> HIDE DEF row, s
<1>6. Others(q) /\ UNCHANGED <<status, allocations, limitRecord, snapshot, alone>>
  BY <1>5 DEF GoesOn
<1>7. TypeOK' /\ Dated'
  BY <1>1, <1>5, <1>6 DEF TypeOK, Others, Dated
<1>8. /\ Ordered(req'[q].todo)
      /\ \A k \in 1..Len(req'[q].todo) : req'[q].todo[k] = req[q].todo[k + 1] /\ k + 1 \in 1..Len(req[q].todo)
      /\ \A k \in 1..Len(req'[q].todo) : req'[q].todo[k].kind = "move" =>
           Rank(row[1]) < Rank(req'[q].todo[k].dimension)
  BY <1>3, <1>4, <1>5, PopOrdered, TailFacts DEF InOrder, s
<1>9. WriteOk(q)'
  BY <1>5 DEF WriteOk
<1>10. WritesOk(q)'
  <2> SUFFICES ASSUME NEW other \in Rows, Written(q, other)'
               PROVE  /\ other[2] = q \/ Shared(other)
                      /\ Shared(other) => \A k \in 1..Len(req'[q].todo) :
                            req'[q].todo[k].kind = "move" => Rank(other[1]) < Rank(req'[q].todo[k].dimension)
    BY <1>6 DEF WritesOk, Shared
  <2>1. CASE other = row
    BY <2>1, <1>4, <1>8
  <2>2. CASE other # row
    <3>1. Written(q, other)
      BY <2>2, <1>3, <1>5 DEF Written
    <3>2. QED
      BY <3>1, <1>3, <1>8 DEF InOrder, WritesOk
  <2>3. QED
    BY <2>1, <2>2
<1>11. QED
  BY <1>6, <1>7, <1>8, <1>9, <1>10, StepInOrder DEF InOrder

LEMMA CommitInOrder ==
  ASSUME OrderInv, NEW q \in Requests, commit(q)
  PROVE  OrderInv'
<1> DEFINE f == req[q].target  op == req[q].op
<1>1. TypeOK /\ Dated
  BY DEF OrderInv
<1>2. /\ Others(q) /\ req[q] # Idle /\ req'[q] = Idle
      /\ f \in Financings /\ op \in Ops
      /\ status' = [status EXCEPT ![f] = StatusAfter[op]]
      /\ allocations' = IF op = "fund" THEN [allocations EXCEPT ![f] = @ + 1] ELSE allocations
      /\ limitRecord' = [row \in Rows |-> visible(q, row)]
      /\ UNCHANGED <<createdAt, alone>>
  BY <1>1, CommitStep
<1>3. \A row \in Rows : visible(q, row) \in LimitRecord
  BY <1>1, <1>2, InProgress
<1> HIDE DEF f, op
<1>4. StatusAfter[op] \in FinancingStatus
  BY <1>2 DEF StatusAfter, FinancingStatus, Ops
<1>5. status' \in [Financings -> FinancingStatus] /\ allocations' \in [Financings -> Nat]
  BY <1>1, <1>2, <1>4 DEF TypeOK
<1>6. snapshot' \in [Dimensions -> Nat]
  <2>1. /\ snapshot' = [d \in Dimensions |->
                       IF d \notin refreshed(op, f) THEN snapshot[d]
                       ELSE exposureAmount(d, IF op = "accept" THEN status ELSE status',
                                           allocations)]
    BY <1>2 DEF commit, f, op
  <2>2. \A d \in Dimensions : snapshot[d] \in Nat
    BY <1>1 DEF TypeOK
  <2>3. \A d \in Dimensions : /\ exposureAmount(d, status, allocations) \in Nat
                              /\ exposureAmount(d, status', allocations) \in Nat
    BY <1>1, <1>5, ExposureType DEF TypeOK
  <2>4. QED
    BY <2>1, <2>2, <2>3
<1>7. TypeOK' /\ Dated'
  BY <1>1, <1>2, <1>3, <1>5, <1>6 DEF TypeOK, Others, Dated
<1>8. \A row \in Rows : (Shared(row) => Shared(row)') /\ (Shared(row)' => Shared(row) \/ Written(q, row))
  BY <1>2 DEF Shared, visible, Written
<1>9. ASSUME NEW r \in Requests, r # q, req'[r] # Idle PROVE InOrder(r)'
  BY <1>2, <1>8, <1>9, OthersInOrder
<1>10. QED
  BY <1>2, <1>7, <1>9 DEF OrderInv

LEMMA EndInOrder ==
  ASSUME OrderInv, NEW q \in Requests, limitBreached(q) \/ rollback(q)
  PROVE  OrderInv'
<1>1. TypeOK /\ Dated
  BY DEF OrderInv
<1>2. /\ Others(q) /\ req'[q] = Idle
      /\ \A row \in Rows : createdAt'[row] \in {0, createdAt[row]}
      /\ createdAt' \in [Rows -> Nat]
      /\ UNCHANGED <<status, allocations, limitRecord, snapshot, alone>>
  BY <1>1, EndStep
<1>3. PICK n \in Nat : \A row \in Rows : createdAt[row] <= n
  BY <1>1 DEF Dated
<1>4. \A row \in Rows : createdAt'[row] <= n
  BY <1>2, <1>3
<1>5. TypeOK' /\ Dated'
  BY <1>1, <1>2, <1>4 DEF TypeOK, Others, Dated
<1>6. QED
  BY <1>2, <1>5, StepInOrder

LEMMA OrderStep == OrderInv /\ [Next]_vars => OrderInv'
<1> SUFFICES ASSUME OrderInv, [Next]_vars PROVE OrderInv'
  OBVIOUS
<1>1. CASE Next
  <2>1. PICK q \in Requests :
          \/ \E op \in Ops, f \in Financings : begin(q, op, f)
          \/ Proceed(q) \/ rollback(q)
    BY <1>1 DEF Next
  <2>2. ASSUME NEW op \in Ops, NEW f \in Financings, begin(q, op, f) PROVE OrderInv'
    BY <2>2, BeginInOrder
  <2>3. CASE Proceed(q)
    BY <2>3, EnsureInOrder, ReadInOrder, WriteInOrder, CommitInOrder, EndInOrder DEF Proceed
  <2>4. CASE rollback(q)
    BY <2>4, EndInOrder
  <2>5. QED
    BY <2>1, <2>2, <2>3, <2>4
<1>2. CASE UNCHANGED vars
  BY <1>2 DEF vars, OrderInv, TypeOK, Dated, InOrder, WriteOk, WritesOk, Written, Shared
<1>3. QED
  BY <1>1, <1>2

\* Type correctness of the limit transactions, for any financings, requests,
\* dimensions and amounts.
THEOREM TypeCorrect == Spec => []TypeOK
<1>1. OrderInv => TypeOK
  BY DEF OrderInv
<1>2. QED
  BY InitOrder, OrderStep, <1>1, PTL DEF Spec

\* A transaction waits for a record before all those its holder still waits for.
LEMMA WaitsForward ==
  ASSUME OrderInv, NEW r \in Requests, NEW u \in Requests, waitsFor(r, u),
         req[u].phase = "write"
  PROVE  Rank(req[r].row[1]) < Rank(req[u].row[1])
<1> DEFINE row == req[r].row
<1>1. /\ req[r] # Idle /\ req[r].phase = "write" /\ u # r /\ req[u] # Idle
      /\ Written(u, row)
  BY DEF waitsFor, Written
<1>2. InOrder(r) /\ InOrder(u) /\ row \in Rows
  BY <1>1, InProgress DEF OrderInv
<1>3. row[2] = r \/ Shared(row)
  BY <1>1, <1>2 DEF InOrder, WriteOk
<1>4. Shared(row)
  BY <1>1, <1>2, <1>3 DEF InOrder, WritesOk
<1>5. /\ req[u].todo # <<>> /\ Head(req[u].todo).kind = "move"
      /\ req[u].row[1] = Head(req[u].todo).dimension
  BY <1>1, <1>2 DEF InOrder, WriteOk
<1>6. 1 \in 1..Len(req[u].todo) /\ Head(req[u].todo) = req[u].todo[1]
  <2>1. req[u].todo \in Seq(Step)
    BY <1>1, InProgress DEF OrderInv
  <2>2. QED
    BY <2>1, <1>5, TailFacts
<1>7. QED
  BY <1>1, <1>2, <1>4, <1>5, <1>6 DEF InOrder, WritesOk

LEMMA OrderForbidsCircles == OrderInv => NoCircularWait
<1> SUFFICES ASSUME OrderInv, NEW waiting \in (SUBSET Requests) \ {{}},
                    \A r \in waiting : \E u \in waiting : waitsFor(r, u)
             PROVE  FALSE
  BY DEF NoCircularWait
<1> DEFINE rank(r) == Rank(req[r].row[1])
           S == {rank(r) : r \in waiting}
<1>1. ASSUME NEW r \in waiting
      PROVE  /\ rank(r) \in 0..(2 + Len(Funders))
             /\ \E u \in waiting : rank(u) \in S /\ rank(r) < rank(u)
  <2>1. PICK u \in waiting : waitsFor(r, u)
    OBVIOUS
  <2>2. PICK v \in waiting : waitsFor(u, v)
    OBVIOUS
  <2>3. req[r] # Idle /\ req[u] # Idle /\ req[u].phase = "write"
    BY <2>1, <2>2 DEF waitsFor
  <2>4. req[r].row \in Rows
    BY <2>3, InProgress DEF OrderInv
  <2>5. rank(r) \in 0..(2 + Len(Funders))
    BY <2>4, RecordTypes, Ranks
  <2>6. rank(r) < rank(u)
    BY <2>1, <2>3, WaitsForward
  <2>7. QED
    BY <2>5, <2>6
<1> HIDE DEF rank
<1>a. PICK n \in Nat : n = 2 + Len(Funders)
  BY DimensionTypes
<1>b. \A r \in waiting : rank(r) \in Nat /\ rank(r) <= n
  BY <1>1, <1>a
<1>2. S \subseteq Nat /\ S # {} /\ \A x \in S : x <= n
  <2>1. PICK r \in waiting : TRUE
    OBVIOUS
  <2>2. rank(r) \in S
    OBVIOUS
  <2>3. QED
    BY <2>2, <1>b
<1>3. PICK m \in S : \A x \in S : x <= m
  BY <1>2, LargestNatural
<1>4. PICK r \in waiting : m = rank(r)
  BY <1>3
<1>5. PICK u \in waiting : rank(u) \in S /\ rank(r) < rank(u)
  BY <1>1
<1>6. rank(u) <= rank(r) /\ rank(u) \in Nat /\ rank(r) \in Nat
  BY <1>2, <1>3, <1>4, <1>5
<1>7. QED
  BY <1>5, <1>6

\* No transactions ever wait for each other in a circle: the handlers accept,
\* fund, collect and remove take the records of the programme, the anchor, the
\* supplier and the funders in one order, however many run together.
THEOREM WaitingEnds == Spec => []NoCircularWait
<1>1. QED
  BY InitOrder, OrderStep, OrderForbidsCircles, PTL DEF Spec

-----------------------------------------------------------------------------
(* What the records say *)

Configured(d) == ConfiguredLimit[d] > 0
\* The records the books are exact on: the programme's is read before it is
\* locked, so only where no transactions overlap.
Tracked(d) == Configured(d) /\ (d # Programme \/ alone)

Used == {"FUNDED", "DISBURSED"}
Reserving(d) == {f \in Financings : onDimension(f, d) /\ status[f] = "ACCEPTED"}
Using(d) == {f \in Financings : (d \in FunderSet \/ onDimension(f, d)) /\ status[f] \in Used}
Weight(d) == IF d \in FunderSet THEN Share ELSE Amount
ReservedOn(d) == Total(Weight(d), Reserving(d))
UsedOn(d) == Total(Weight(d), Using(d))

Sized(l, d) == l.limit = ConfiguredLimit[d] /\ Configured(d)
Balanced(l, d) ==
  /\ l.reserved = ReservedOn(d)
  /\ l.utilised >= UsedOn(d)
  /\ l.reserved + l.utilised <= l.limit

\* The committed state
Books == \A row \in Rows : Shared(row) =>
  /\ Sized(limitRecord[row], row[1])
  /\ Tracked(row[1]) => Balanced(limitRecord[row], row[1])
Counts(f, d) == \/ d \in CoreOf(f) /\ status[f] \in Exposed
                \/ d \in FunderSet /\ status[f] \in Used
HasRecord(d) == \E row \in Rows : row[1] = d /\ Shared(row)
Covered == \A f \in Financings, d \in Dimensions : Configured(d) /\ Counts(f, d) => HasRecord(d)
Allocated == \A f \in Financings :
  /\ status[f] \in {"OFFERED", "ACCEPTED"} => allocations[f] = 0
  /\ status[f] \in Used => allocations[f] = 1
SeedsIn == ~alone => \A row \in Rows :
  Shared(row) <=> (row[2] = "seed" /\ Configured(row[1]))
OneShared == \A row, other \in Rows :
  Shared(row) /\ Shared(other) /\ row[1] = other[1] => row = other

\* A transaction
Visible(r, row) == visible(r, row) # NoRecord
SeesRecord(r, d) == \E row \in Rows : row[1] = d /\ Visible(r, row)
Base(row) == IF Shared(row) THEN limitRecord[row] ELSE newRecord(row[1])
\* It alone moves limits: nothing overlaps, or it holds the programme's record.
Leads(r) == alone \/ \E row \in Rows : row[1] = Programme /\ Written(r, row)
Follows(r) == ~Leads(r) =>
  /\ \A row \in Rows : ~Written(r, row)
  /\ \A d \in Touched(req[r].op, req[r].target) : HasMove(req[r].todo, d)
  /\ req[r].phase = "write" => req[r].row[1] = Programme
OneVisible(r) == \A row, other \in Rows :
  Visible(r, row) /\ Visible(r, other) /\ row[1] = other[1] => row = other
VisibleSized(r) == \A row \in Rows : Visible(r, row) => Sized(visible(r, row), row[1])
Seen(r) == req[r].phase = "write" =>
  /\ Visible(r, req[r].row) /\ Sized(req[r].seen, req[r].row[1])
  /\ Tracked(req[r].row[1]) => /\ req[r].seen = Base(req[r].row)
                               /\ ~breaches(Head(req[r].todo), Base(req[r].row))
Right(r) == \A row \in Rows : Visible(r, row) /\ Tracked(row[1]) =>
  IF row[1] \in Touched(req[r].op, req[r].target) /\ ~HasMove(req[r].todo, row[1])
  THEN /\ visible(r, row) = Moved(Base(row), MoveOf(req[r].op, req[r].target, row[1]))
       /\ ~breaches(MoveOf(req[r].op, req[r].target, row[1]), Base(row))
  ELSE visible(r, row) = Base(row)
Steps(r) ==
  /\ status[req[r].target] \in AllowedFrom[req[r].op]
  /\ \A k \in 1..Len(req[r].todo) : req[r].todo[k].kind = "move" =>
       /\ req[r].todo[k].dimension \in Touched(req[r].op, req[r].target)
       /\ req[r].todo[k] = MoveOf(req[r].op, req[r].target, req[r].todo[k].dimension)
Present(r) == \A d \in Touched(req[r].op, req[r].target) :
  Configured(d) => HasEnsure(req[r].todo, d) \/ SeesRecord(r, d)
Exact(r) ==
  Follows(r) /\ OneVisible(r) /\ VisibleSized(r) /\ Seen(r) /\ Right(r) /\ Steps(r) /\ Present(r)
Apart == \A r, u \in Requests : r # u /\ req[r] # Idle /\ req[u] # Idle =>
  req[r].target # req[u].target /\ ~(Leads(r) /\ Leads(u))

LimitInv ==
  /\ OrderInv
  /\ Books /\ Covered /\ Allocated /\ SeedsIn /\ OneShared /\ Apart
  /\ \A r \in Requests : req[r] # Idle => Exact(r)

RecordsFromTheStart == Seeded[FALSE] = {d \in Dimensions : ConfiguredLimit[d] > 0}
-----------------------------------------------------------------------------
(* Sums over the financings on a dimension *)

LEMMA Weights ==
  ASSUME NEW d
  PROVE  \A f \in Financings : Weight(d)[f] \in Nat
  BY LimitAssumption DEF Weight

LEMMA SumsAreNat ==
  ASSUME NEW d, NEW S \in SUBSET Financings
  PROVE  IsFiniteSet(S) /\ Total(Weight(d), S) \in Nat
<1>1. IsFiniteSet(S)
  BY LimitAssumption, FS_Subset
<1>2. \A f \in S : Weight(d)[f] \in Nat
  BY Weights
<1>3. QED
  BY <1>1, <1>2, TotalType

LEMMA BalanceTypes ==
  ASSUME NEW d
  PROVE  /\ Reserving(d) \in SUBSET Financings /\ Using(d) \in SUBSET Financings
         /\ ReservedOn(d) \in Nat /\ UsedOn(d) \in Nat
<1>1. Reserving(d) \in SUBSET Financings /\ Using(d) \in SUBSET Financings
  BY DEF Reserving, Using
<1>2. QED
  BY <1>1, SumsAreNat DEF ReservedOn, UsedOn

\* One financing joins or leaves a sum.
LEMMA SumWith ==
  ASSUME NEW d, NEW S \in SUBSET Financings, NEW f \in Financings
  PROVE  /\ f \notin S => Total(Weight(d), S \cup {f}) = Total(Weight(d), S) + Weight(d)[f]
         /\ f \in S => Total(Weight(d), S \ {f}) = Total(Weight(d), S) - Weight(d)[f]
<1>1. IsFiniteSet(S) /\ Total(Weight(d), S) \in Nat
  BY SumsAreNat
<1>2. (\A x \in S \cup {f} : Weight(d)[x] \in Nat) /\ (\A x \in S : Weight(d)[x] \in Nat)
  BY Weights
<1>3. ASSUME f \notin S PROVE Total(Weight(d), S \cup {f}) = Total(Weight(d), S) + Weight(d)[f]
  BY <1>1, <1>2, <1>3, TotalAdd
<1>4. ASSUME f \in S PROVE Total(Weight(d), S \ {f}) = Total(Weight(d), S) - Weight(d)[f]
  <2>1. Total(Weight(d), S) = Weight(d)[f] + Total(Weight(d), S \ {f})
    BY <1>1, <1>2, <1>4, TotalRemove
  <2>2. S \ {f} \in SUBSET Financings
    OBVIOUS
  <2>3. Total(Weight(d), S \ {f}) \in Nat
    BY <2>2, SumsAreNat
  <2>4. Weight(d)[f] \in Nat
    BY Weights
  <2>5. QED
    BY <2>1, <2>3, <2>4
<1>5. QED
  BY <1>3, <1>4

LEMMA Dimensionality ==
  ASSUME NEW f \in Financings, NEW d \in Dimensions
  PROVE  /\ onDimension(f, d) <=> d \in CoreOf(f)
         /\ d \in CoreOf(f) => d \notin FunderSet
         /\ Weight(d)[f] = IF d \in FunderSet THEN Share[f] ELSE Amount[f]
         /\ Amount[f] \in Nat /\ Share[f] \in Nat
  BY LimitAssumption DEF DimensionsDiffer, onDimension, CoreOf, Weight

\* What a handler moves on a dimension.
LEMMA Movements ==
  ASSUME NEW op \in Ops, NEW f \in Financings, NEW d \in Dimensions
  PROVE  LET s == MoveOf(op, f, d)  w == Weight(d)[f] IN
         /\ s.reserved \in Int /\ s.utilised \in Int /\ w \in Nat
         /\ op = "accept" /\ d \notin FunderSet =>
              s.reserved = w /\ s.utilised = 0 /\ s.requireAvailability
         /\ op = "fund" /\ d \notin FunderSet =>
              s.reserved = -w /\ s.utilised = w /\ ~s.requireAvailability
         /\ op = "fund" /\ d \in FunderSet =>
              s.reserved = 0 /\ s.utilised = w /\ s.requireAvailability
         /\ op = "collect" => s.reserved = 0 /\ s.utilised = -w /\ ~s.requireAvailability
         /\ op = "remove" /\ d \notin FunderSet =>
              s.reserved = -w /\ s.utilised = 0 /\ ~s.requireAvailability
<1> DEFINE w == Weight(d)[f]
<1>1. /\ w = IF d \in FunderSet THEN Share[f] ELSE Amount[f]
      /\ w \in Nat
  BY Dimensionality
<1> HIDE DEF w
<1>2. MoveOf(op, f, d) \in Step
  BY StepTypes
<1>3. MoveOf(op, f, d).reserved \in Int /\ MoveOf(op, f, d).utilised \in Int
  BY <1>2 DEF Step
<1>4. \A a, b : /\ move(d, a, b).reserved = a /\ move(d, a, b).utilised = b
                /\ ~move(d, a, b).requireAvailability
                /\ moveIfAvailable(d, a, b).reserved = a /\ moveIfAvailable(d, a, b).utilised = b
                /\ moveIfAvailable(d, a, b).requireAvailability
  BY DEF move, moveIfAvailable
<1>5. op = "accept" /\ d \notin FunderSet => MoveOf(op, f, d) = moveIfAvailable(d, w, 0)
  BY <1>1 DEF MoveOf
<1>6. op = "fund" /\ d \notin FunderSet => MoveOf(op, f, d) = move(d, -w, w)
  BY <1>1 DEF MoveOf
<1>7. op = "fund" /\ d \in FunderSet => MoveOf(op, f, d) = moveIfAvailable(d, 0, w)
  BY <1>1 DEF MoveOf
<1>8. op = "collect" => MoveOf(op, f, d) = move(d, 0, -w)
  BY <1>1 DEF MoveOf
<1>9. op = "remove" /\ d \notin FunderSet => MoveOf(op, f, d) = move(d, -w, 0)
  BY <1>1 DEF MoveOf
<1>10. op = "accept" /\ d \notin FunderSet =>
              MoveOf(op, f, d).reserved = w /\ MoveOf(op, f, d).utilised = 0 /\ MoveOf(op, f, d).requireAvailability
  BY <1>4, <1>5
<1>11. op = "fund" /\ d \notin FunderSet =>
              MoveOf(op, f, d).reserved = -w /\ MoveOf(op, f, d).utilised = w /\ ~MoveOf(op, f, d).requireAvailability
  BY <1>4, <1>6
<1>12. op = "fund" /\ d \in FunderSet =>
              MoveOf(op, f, d).reserved = 0 /\ MoveOf(op, f, d).utilised = w /\ MoveOf(op, f, d).requireAvailability
  BY <1>4, <1>7
<1>13. op = "collect" => MoveOf(op, f, d).reserved = 0 /\ MoveOf(op, f, d).utilised = -w /\ ~MoveOf(op, f, d).requireAvailability
  BY <1>4, <1>8
<1>14. op = "remove" /\ d \notin FunderSet =>
              MoveOf(op, f, d).reserved = -w /\ MoveOf(op, f, d).utilised = 0 /\ ~MoveOf(op, f, d).requireAvailability
  BY <1>4, <1>9
<1>15. QED
  BY <1>1, <1>3, <1>10, <1>11, <1>12, <1>13, <1>14 DEF w

\* Committing op on f moves the sums by what its transaction has moved.
LEMMA SumsMove ==
  ASSUME TypeOK, Allocated, NEW op \in Ops, NEW f \in Financings, NEW d \in Dimensions,
         status[f] \in AllowedFrom[op], status' = [status EXCEPT ![f] = StatusAfter[op]]
  PROVE  LET s == MoveOf(op, f, d) IN
         IF d \in Touched(op, f)
         THEN /\ ReservedOn(d)' = ReservedOn(d) + s.reserved
              /\ UsedOn(d)' = UsedOn(d) + s.utilised
         ELSE ReservedOn(d)' = ReservedOn(d) /\ UsedOn(d)' <= UsedOn(d)
<1> DEFINE R == Reserving(d)  U == Using(d)  w == Weight(d)[f]  s == MoveOf(op, f, d)
<1>1. /\ R \in SUBSET Financings /\ U \in SUBSET Financings
      /\ ReservedOn(d) \in Nat /\ UsedOn(d) \in Nat
  BY BalanceTypes
<1>2. /\ ReservedOn(d) = Total(Weight(d), R) /\ UsedOn(d) = Total(Weight(d), U)
      /\ ReservedOn(d)' = Total(Weight(d), R') /\ UsedOn(d)' = Total(Weight(d), U')
  BY DEF ReservedOn, UsedOn, Weight
<1>3. /\ f \notin R => Total(Weight(d), R \cup {f}) = Total(Weight(d), R) + w
      /\ f \in R => Total(Weight(d), R \ {f}) = Total(Weight(d), R) - w
      /\ f \notin U => Total(Weight(d), U \cup {f}) = Total(Weight(d), U) + w
      /\ f \in U => Total(Weight(d), U \ {f}) = Total(Weight(d), U) - w
  BY <1>1, SumWith
<1>4. \A g \in Financings : status'[g] = IF g = f THEN StatusAfter[op] ELSE status[g]
  BY DEF TypeOK
<1>5. /\ s.reserved \in Int /\ s.utilised \in Int /\ w \in Nat
      /\ op = "accept" /\ d \notin FunderSet => s.reserved = w /\ s.utilised = 0
      /\ op = "fund" /\ d \notin FunderSet => s.reserved = -w /\ s.utilised = w
      /\ op = "fund" /\ d \in FunderSet => s.reserved = 0 /\ s.utilised = w
      /\ op = "collect" => s.reserved = 0 /\ s.utilised = -w
      /\ op = "remove" /\ d \notin FunderSet => s.reserved = -w /\ s.utilised = 0
  BY Movements
<1>6. /\ \A g \in Financings : g \in R <=> onDimension(g, d) /\ status[g] = "ACCEPTED"
      /\ \A g \in Financings : g \in U <=> (d \in FunderSet \/ onDimension(g, d)) /\ status[g] \in Used
      /\ \A g \in Financings : g \in R' <=> onDimension(g, d) /\ status'[g] = "ACCEPTED"
      /\ \A g \in Financings : g \in U' <=> (d \in FunderSet \/ onDimension(g, d)) /\ status'[g] \in Used
      /\ R' \in SUBSET Financings /\ U' \in SUBSET Financings
  BY DEF Reserving, Using
<1>7. /\ onDimension(f, d) <=> d \in CoreOf(f)
      /\ d \in CoreOf(f) => d \notin FunderSet
  BY Dimensionality
<1> HIDE DEF R, U, w, s
<1>8. CASE op = "accept"
  <2>1. status[f] = "OFFERED" /\ StatusAfter[op] = "ACCEPTED" /\ Touched(op, f) = CoreOf(f)
    BY <1>8 DEF AllowedFrom, StatusAfter, Touched
  <2>2. U' = U
    BY <2>1, <1>1, <1>4, <1>6 DEF Used
  <2>3. d \in CoreOf(f) => R' = R \cup {f} /\ f \notin R
    BY <2>1, <1>1, <1>4, <1>6, <1>7
  <2>4. d \notin CoreOf(f) => R' = R
    BY <2>1, <1>1, <1>4, <1>6, <1>7
  <2>5. UsedOn(d)' = UsedOn(d)
    BY <1>2, <2>2
  <2>6. CASE d \in CoreOf(f)
    <3>1. ReservedOn(d)' = ReservedOn(d) + w
      BY <1>2, <1>3, <2>3, <2>6
    <3>2. s.reserved = w /\ s.utilised = 0 /\ d \in Touched(op, f)
      BY <1>5, <1>7, <1>8, <2>1, <2>6
    <3>3. QED
      BY <3>1, <3>2, <2>5, <1>1 DEF s
  <2>7. CASE d \notin CoreOf(f)
    <3>1. ReservedOn(d)' = ReservedOn(d) /\ d \notin Touched(op, f)
      BY <1>2, <2>1, <2>4, <2>7
    <3>2. QED
      BY <3>1, <2>5, <1>1
  <2>8. QED
    BY <2>6, <2>7
<1>9. CASE op = "fund"
  <2>1. status[f] = "ACCEPTED" /\ StatusAfter[op] = "FUNDED" /\ Touched(op, f) = CoreOf(f) \cup FunderSet
    BY <1>9 DEF AllowedFrom, StatusAfter, Touched
  <2>2. d \in CoreOf(f) => R' = R \ {f} /\ f \in R
    BY <2>1, <1>1, <1>4, <1>6, <1>7
  <2>3. d \notin CoreOf(f) => R' = R
    BY <2>1, <1>1, <1>4, <1>6, <1>7
  <2>4. d \in CoreOf(f) \cup FunderSet => U' = U \cup {f} /\ f \notin U
    BY <2>1, <1>1, <1>4, <1>6, <1>7 DEF Used
  <2>5. d \notin CoreOf(f) \cup FunderSet => U' = U
    BY <2>1, <1>1, <1>4, <1>6, <1>7 DEF Used
  <2>6. CASE d \in CoreOf(f)
    BY <1>9, <1>1, <1>2, <1>3, <1>5, <1>7, <2>1, <2>2, <2>4, <2>6 DEF s
  <2>7. CASE d \in FunderSet
    <3>1. ReservedOn(d)' = ReservedOn(d)
      BY <1>2, <1>7, <2>3, <2>7
    <3>2. UsedOn(d)' = UsedOn(d) + w
      BY <1>2, <1>3, <2>4, <2>7
    <3>3. s.reserved = 0 /\ s.utilised = w /\ d \in Touched(op, f)
      BY <1>5, <1>9, <2>1, <2>7
    <3>4. QED
      BY <3>1, <3>2, <3>3, <1>1 DEF s
  <2>8. CASE d \notin CoreOf(f) /\ d \notin FunderSet
    BY <1>9, <1>1, <1>2, <2>1, <2>3, <2>5, <2>8 DEF s
  <2>9. QED
    BY <2>6, <2>7, <2>8
<1>10. CASE op = "disburse"
  <2>1. status[f] = "FUNDED" /\ StatusAfter[op] = "DISBURSED" /\ Touched(op, f) = {}
    BY <1>10 DEF AllowedFrom, StatusAfter, Touched
  <2>2. R' = R /\ U' = U
    BY <2>1, <1>1, <1>4, <1>6 DEF Used
  <2>3. QED
    BY <1>1, <1>2, <2>1, <2>2
<1>11. CASE op = "collect"
  <2>1. /\ status[f] = "DISBURSED" /\ StatusAfter[op] = "COLLECTED"
        /\ Touched(op, f) = CoreOf(f) \cup (IF allocations[f] = 0 THEN {} ELSE FunderSet)
    BY <1>11 DEF AllowedFrom, StatusAfter, Touched
  <2>2. allocations[f] = 1
    BY <2>1 DEF Allocated, Used
  <2>3. Touched(op, f) = CoreOf(f) \cup FunderSet
    BY <2>1, <2>2
  <2>4. R' = R
    BY <2>1, <1>1, <1>4, <1>6
  <2>5. d \in CoreOf(f) \cup FunderSet => U' = U \ {f} /\ f \in U
    BY <2>1, <1>1, <1>4, <1>6, <1>7 DEF Used
  <2>6. d \notin CoreOf(f) \cup FunderSet => U' = U
    BY <2>1, <1>1, <1>4, <1>6, <1>7 DEF Used
  <2>7. CASE d \in CoreOf(f) \cup FunderSet
    <3>1. ReservedOn(d)' = ReservedOn(d)
      BY <1>2, <2>4
    <3>2. UsedOn(d)' = UsedOn(d) - w
      BY <1>2, <1>3, <2>5, <2>7
    <3>3. s.reserved = 0 /\ s.utilised = -w /\ d \in Touched(op, f) /\ w \in Nat
      BY <1>5, <1>11, <2>3, <2>7
    <3>4. QED
      BY <3>1, <3>2, <3>3, <1>1 DEF s
  <2>8. CASE d \notin CoreOf(f) \cup FunderSet
    BY <1>11, <1>1, <1>2, <2>3, <2>4, <2>6, <2>8
  <2>9. QED
    BY <2>7, <2>8
<1>12. CASE op = "remove"
  <2>1. /\ status[f] \in {"OFFERED", "ACCEPTED", "FUNDED", "CANCELLED"}
        /\ StatusAfter[op] = "CANCELLED"
        /\ Touched(op, f) = IF status[f] = "ACCEPTED" THEN CoreOf(f) ELSE {}
    BY <1>12 DEF AllowedFrom, StatusAfter, Touched
  <2>2. CASE status[f] = "ACCEPTED"
    <3>1. U' = U
      BY <2>1, <2>2, <1>1, <1>4, <1>6 DEF Used
    <3>2. d \in CoreOf(f) => R' = R \ {f} /\ f \in R
      BY <2>1, <2>2, <1>1, <1>4, <1>6, <1>7
    <3>3. d \notin CoreOf(f) => R' = R
      BY <2>1, <2>2, <1>1, <1>4, <1>6, <1>7
    <3>4. QED
      <4>1. UsedOn(d)' = UsedOn(d)
        BY <1>2, <3>1
      <4>2. CASE d \in CoreOf(f)
        <5>1. ReservedOn(d)' = ReservedOn(d) - w
          BY <1>2, <1>3, <3>2, <4>2
        <5>2. s.reserved = -w /\ s.utilised = 0 /\ d \in Touched(op, f) /\ w \in Nat
          BY <1>5, <1>7, <1>12, <2>1, <2>2, <4>2
        <5>3. QED
          BY <5>1, <5>2, <4>1, <1>1 DEF s
      <4>3. CASE d \notin CoreOf(f)
        <5>1. ReservedOn(d)' = ReservedOn(d) /\ d \notin Touched(op, f)
          BY <1>2, <2>1, <2>2, <3>3, <4>3
        <5>2. QED
          BY <5>1, <4>1, <1>1
      <4>4. QED
        BY <4>2, <4>3
  <2>3. CASE status[f] # "ACCEPTED"
    <3>1. R' = R
      BY <2>1, <2>3, <1>1, <1>4, <1>6
    <3>2. U' \in SUBSET U
      BY <2>1, <2>3, <1>1, <1>4, <1>6 DEF Used
    <3>3. IsFiniteSet(U) /\ \A x \in U : Weight(d)[x] \in Nat
      BY <1>1, SumsAreNat, Weights
    <3>4. UsedOn(d)' <= UsedOn(d)
      BY <3>2, <3>3, <1>2, TotalMonotone
    <3>5. QED
      BY <1>1, <1>2, <2>1, <2>3, <3>1, <3>4
  <2>4. QED
    BY <2>2, <2>3
<1>13. QED
  BY <1>8, <1>9, <1>10, <1>11, <1>12 DEF Ops

\* A record that was balanced and had room stays balanced.
LEMMA BalanceMoves ==
  ASSUME TypeOK, Allocated, NEW op \in Ops, NEW f \in Financings, NEW d \in Dimensions,
         status[f] \in AllowedFrom[op], status' = [status EXCEPT ![f] = StatusAfter[op]],
         NEW l \in LimitRecord, Balanced(l, d), Sized(l, d)
  PROVE  IF d \in Touched(op, f)
         THEN ~breaches(MoveOf(op, f, d), l) => Balanced(Moved(l, MoveOf(op, f, d)), d)'
         ELSE Balanced(l, d)'
<1> DEFINE s == MoveOf(op, f, d)  w == Weight(d)[f]
           R == ReservedOn(d)  U == UsedOn(d)  A == ReservedOn(d)'  B == UsedOn(d)'
<1>1. R \in Nat /\ U \in Nat
  BY BalanceTypes
<1>2. A \in Nat /\ B \in Nat
  <2>1. Reserving(d)' \in SUBSET Financings /\ Using(d)' \in SUBSET Financings
    BY DEF Reserving, Using
  <2>2. A = Total(Weight(d), Reserving(d)') /\ B = Total(Weight(d), Using(d)')
    BY DEF ReservedOn, UsedOn, Weight
  <2>3. QED
    BY <2>1, <2>2, SumsAreNat
<1>3. IF d \in Touched(op, f) THEN A = R + s.reserved /\ B = U + s.utilised
                              ELSE A = R /\ B <= U
  BY SumsMove
<1>4. /\ l.limit \in Nat /\ l.reserved \in Nat /\ l.utilised \in Nat
      /\ l.reserved = R /\ l.utilised >= U /\ l.reserved + l.utilised <= l.limit
  BY DEF LimitRecord, Balanced
<1>5. s.reserved \in Int /\ s.utilised \in Int /\ w \in Nat
  BY Movements
<1> HIDE DEF R, U, A, B, s, w
<1>6. CASE d \notin Touched(op, f)
  <2>1. l.reserved = A /\ l.utilised >= B /\ l.reserved + l.utilised <= l.limit
    BY <1>1, <1>2, <1>3, <1>4, <1>6
  <2>2. Balanced(l, d)'
    BY <2>1 DEF Balanced, A, B
  <2>3. QED
    BY <1>6, <2>2
<1>7. CASE d \in Touched(op, f)
  <2> SUFFICES ASSUME ~breaches(s, l) PROVE Balanced(Moved(l, s), d)'
    BY <1>7 DEF s
  <2> DEFINE m == Moved(l, s)
  <2>1. /\ m.limit = l.limit /\ m.reserved = decimalMax(0, l.reserved + s.reserved)
        /\ m.utilised = decimalMax(0, l.utilised + s.utilised)
    BY DEF Moved
  <2>2. A = l.reserved + s.reserved /\ B <= l.utilised + s.utilised
    BY <1>1, <1>3, <1>4, <1>5, <1>7
  <2>3. m.reserved = A /\ m.utilised = l.utilised + s.utilised
    BY <2>1, <2>2, <1>2, <1>4, <1>5 DEF decimalMax
  <2>4. \/ s.requireAvailability
        \/ s.reserved + s.utilised <= 0
    <3>1. \/ op = "accept" /\ d \notin FunderSet
          \/ op = "fund" \/ op = "collect"
          \/ (op = "remove" /\ d \notin FunderSet)
      BY <1>7, Dimensionality DEF Touched, Ops
    <3>2. /\ op = "accept" /\ d \notin FunderSet => s.requireAvailability
          /\ op = "fund" /\ d \in FunderSet => s.requireAvailability
          /\ op = "fund" /\ d \notin FunderSet => s.reserved = -w /\ s.utilised = w
          /\ op = "collect" => s.reserved = 0 /\ s.utilised = -w
          /\ op = "remove" /\ d \notin FunderSet => s.reserved = -w /\ s.utilised = 0
      BY Movements DEF s, w
    <3>3. CASE s.requireAvailability
      BY <3>3
    <3>4. CASE ~s.requireAvailability
      BY <3>1, <3>2, <3>4, <1>5
    <3>5. QED
      BY <3>3, <3>4
  <2>5. m.reserved + m.utilised <= m.limit
    <3>1. CASE s.requireAvailability
      <4>1. ~(l.limit - l.reserved - l.utilised < s.reserved + s.utilised)
        BY <3>1 DEF breaches, Available
      <4>2. QED
        BY <4>1, <2>1, <2>2, <2>3, <1>4, <1>5
    <3>2. CASE s.reserved + s.utilised <= 0
      BY <3>2, <2>1, <2>2, <2>3, <1>4, <1>5
    <3>3. QED
      BY <2>4, <3>1, <3>2
  <2>6. m.utilised >= B
    BY <2>2, <2>3, <1>2, <1>4, <1>5
  <2> HIDE DEF m
  <2>7. QED
    BY <2>3, <2>5, <2>6 DEF Balanced, A, B, m, s, Moved, MoveOf, moveIfAvailable, move, decimalMax
<1>8. QED
  BY <1>6, <1>7 DEF s

-----------------------------------------------------------------------------
(* The records stay right *)

\* A transaction is as it was while nothing it looks at has changed.
LEMMA Alike ==
  ASSUME NEW r, req'[r] = req[r], UNCHANGED <<limitRecord, alone>>,
         status'[req[r].target] = status[req[r].target],
         allocations'[req[r].target] = allocations[req[r].target],
         Exact(r)
  PROVE  Exact(r)'
<1> DEFINE t == req[r]
<1>1. Touched(t.op, t.target)' = Touched(t.op, t.target)
  BY DEF Touched
<1>2. \A row \in Rows : /\ visible(r, row)' = visible(r, row) /\ Base(row)' = Base(row)
                        /\ Visible(r, row)' <=> Visible(r, row)
                        /\ Written(r, row)' <=> Written(r, row)
  BY DEF visible, Visible, Written, Base, Shared
<1>3. \A d : Tracked(d)' <=> Tracked(d)
  BY DEF Tracked
<1>4. (Leads(r)' <=> Leads(r)) /\ \A d : SeesRecord(r, d)' <=> SeesRecord(r, d)
  BY <1>2 DEF Leads, SeesRecord
<1>5. Follows(r)'
  BY <1>1, <1>2, <1>4 DEF Exact, Follows
<1>6. OneVisible(r)' /\ VisibleSized(r)'
  BY <1>2 DEF Exact, OneVisible, VisibleSized
<1>7. Seen(r)'
  <2>1. Base(t.row)' = Base(t.row) /\ (Visible(r, t.row)' <=> Visible(r, t.row))
    BY DEF visible, Visible, Base, Shared
  <2>2. QED
    BY <2>1, <1>3 DEF Exact, Seen
<1>8. Right(r)'
  BY <1>1, <1>2, <1>3 DEF Exact, Right
<1>9. Steps(r)' /\ Present(r)'
  BY <1>1, <1>4 DEF Exact, Steps, Present
<1>10. QED
  BY <1>5, <1>6, <1>7, <1>8, <1>9 DEF Exact

LEMMA CommittedAlike ==
  ASSUME Books, Covered, Allocated, SeedsIn, OneShared,
         UNCHANGED <<status, allocations, limitRecord, alone>>
  PROVE  Books' /\ Covered' /\ Allocated' /\ SeedsIn' /\ OneShared'
<1>1. \A row : Shared(row)' <=> Shared(row)
  BY DEF Shared
<1>2. \A d : /\ Reserving(d)' = Reserving(d) /\ Using(d)' = Using(d)
             /\ (Tracked(d)' <=> Tracked(d)) /\ (HasRecord(d)' <=> HasRecord(d))
  BY <1>1 DEF Reserving, Using, Tracked, HasRecord
<1>3. \A l, d : Balanced(l, d)' <=> Balanced(l, d)
  BY <1>2 DEF Balanced, ReservedOn, UsedOn
<1>4. Books'
  BY <1>1, <1>2, <1>3 DEF Books
<1>5. Covered' /\ Allocated' /\ SeedsIn' /\ OneShared'
  BY <1>1, <1>2 DEF Covered, Counts, Allocated, SeedsIn, OneShared
<1>6. QED
  BY <1>4, <1>5

\* A step of q that commits nothing.
LEMMA StepExact ==
  ASSUME LimitInv, OrderInv', NEW q \in Requests, Others(q),
         UNCHANGED <<status, allocations, limitRecord, alone>>,
         req'[q] # Idle => Exact(q)',
         req'[q] # Idle => \A r \in Requests : r # q /\ req[r] # Idle =>
           req[r].target # req'[q].target /\ ~(Leads(q)' /\ Leads(r))
  PROVE  LimitInv'
<1>1. Books' /\ Covered' /\ Allocated' /\ SeedsIn' /\ OneShared'
  BY CommittedAlike DEF LimitInv
<1>2. ASSUME NEW r \in Requests, r # q, req'[r] # Idle
      PROVE  Exact(r)' /\ (Leads(r)' <=> Leads(r)) /\ req'[r] = req[r]
  <2>1. req'[r] = req[r] /\ req[r] # Idle
    BY <1>2 DEF Others
  <2>2. Exact(r)'
    BY <2>1, Alike DEF LimitInv
  <2>3. Leads(r)' <=> Leads(r)
    BY <2>1 DEF Leads, Written
  <2>4. QED
    BY <2>1, <2>2, <2>3
<1>3. Apart'
  <2> SUFFICES ASSUME NEW r \in Requests, NEW u \in Requests, r # u,
                      req'[r] # Idle, req'[u] # Idle
               PROVE  req'[r].target # req'[u].target /\ ~(Leads(r)' /\ Leads(u)')
    BY DEF Apart
  <2>1. CASE r # q /\ u # q
    BY <2>1, <1>2 DEF LimitInv, Apart
  <2>2. CASE r = q
    BY <2>2, <1>2
  <2>3. CASE u = q
    BY <2>3, <1>2
  <2>4. QED
    BY <2>1, <2>2, <2>3
<1>4. \A r \in Requests : req'[r] # Idle => Exact(r)'
  BY <1>2
<1>5. QED
  BY <1>1, <1>3, <1>4 DEF LimitInv

LEMMA LeadersApart ==
  ASSUME LimitInv, NEW q \in Requests, req[q] # Idle, Leads(q),
         NEW r \in Requests, r # q, req[r] # Idle
  PROVE  req[r].target # req[q].target /\ ~Leads(r) /\ ~alone
  BY DEF LimitInv, Apart, Leads

LEMMA SharedIsVisible ==
  ASSUME NEW r, NEW row, Shared(row)
  PROVE  Visible(r, row)
  BY DEF Shared, Visible, visible

LEMMA CoreIsTouched ==
  ASSUME NEW op \in Ops, NEW f \in Financings, NEW d \in Touched(op, f)
  PROVE  Programme \in Touched(op, f)
  BY DEF Touched, CoreOf

LEMMA RecordsOfDimension ==
  ASSUME NEW r, NEW d
  PROVE  recordsOf(r, d) # {} <=> SeesRecord(r, d)
  BY DEF recordsOf, SeesRecord, Visible

LEMMA BeginExact ==
  ASSUME LimitInv, OrderInv', NEW q \in Requests, NEW op \in Ops, NEW f \in Financings, begin(q, op, f)
  PROVE  LimitInv'
<1>1. TypeOK
  BY DEF LimitInv, OrderInv
<1>2. /\ Others(q) /\ req'[q] # Idle
      /\ req'[q].phase = "next" /\ req'[q].op = op /\ req'[q].target = f
      /\ req'[q].todo = plan(op, f) /\ req'[q].writes = NothingWritten
      /\ \A r \in Requests : req[r] # Idle => req[r].target # f /\ ~alone
      /\ status[f] \in AllowedFrom[op]
      /\ UNCHANGED <<status, allocations, limitRecord, alone>>
  BY <1>1, BeginStep
<1>3. IsPlan(plan(op, f), op, f)
  BY Plans
<1> DEFINE s == plan(op, f)
<1>4. \A row \in Rows : /\ ~Written(q, row)'
                        /\ visible(q, row)' = limitRecord[row]
                        /\ Visible(q, row)' <=> Shared(row)
                        /\ Base(row)' = IF Shared(row) THEN limitRecord[row] ELSE newRecord(row[1])
  BY <1>2 DEF Written, NothingWritten, visible, Visible, Shared, Base
<1>5. Touched(op, f)' = Touched(op, f)
  BY <1>2 DEF Touched
<1>6. \A d \in Touched(op, f) : HasMove(s, d)
  BY <1>3 DEF IsPlan
<1>7. Follows(q)'
  BY <1>2, <1>4, <1>5, <1>6 DEF Follows
<1>8. OneVisible(q)' /\ VisibleSized(q)'
  BY <1>4 DEF OneVisible, VisibleSized, LimitInv, OneShared, Books
<1>9. Seen(q)'
  BY <1>2 DEF Seen
<1>10. Right(q)'
  BY <1>2, <1>4, <1>5, <1>6 DEF Right
<1>11. Steps(q)'
  BY <1>2, <1>3, <1>5 DEF Steps, IsPlan
<1>12. Present(q)'
  <2> SUFFICES ASSUME NEW d \in Touched(op, f), Configured(d), ~HasEnsure(s, d)
               PROVE  SeesRecord(q, d)'
    BY <1>2, <1>5 DEF Present
  <2>1. /\ op = "accept" => \A e \in CoreOf(f) : HasEnsure(s, e)
        /\ op = "fund" => \A e \in FunderSet : HasEnsure(s, e)
    BY <1>3 DEF IsPlan
  <2>2. d \in Dimensions
    BY DimensionTypes DEF Touched, CoreOf, Dimensions
  <2>3. Counts(f, d)
    <3>1. CASE op = "accept"
      BY <3>1, <2>1 DEF Touched
    <3>2. CASE op = "fund"
      BY <3>2, <2>1, <1>2 DEF Touched, AllowedFrom, Counts, Exposed
    <3>3. CASE op = "disburse"
      BY <3>3 DEF Touched
    <3>4. CASE op = "collect"
      BY <3>4, <1>2 DEF Touched, AllowedFrom, Counts, Exposed, Used
    <3>5. CASE op = "remove"
      BY <3>5, <1>2 DEF Touched, Counts, Exposed
    <3>6. QED
      BY <3>1, <3>2, <3>3, <3>4, <3>5 DEF Ops
  <2>4. HasRecord(d)
    BY <2>2, <2>3 DEF LimitInv, Covered
  <2>5. QED
    BY <2>4, <1>4 DEF HasRecord, SeesRecord
<1>13. Exact(q)'
  BY <1>7, <1>8, <1>9, <1>10, <1>11, <1>12 DEF Exact
<1>14. ASSUME NEW r \in Requests, r # q, req[r] # Idle
       PROVE  req[r].target # req'[q].target /\ ~(Leads(q)' /\ Leads(r))
  BY <1>2, <1>4, <1>14 DEF Leads
<1>15. QED
  BY <1>2, <1>13, <1>14, StepExact

LEMMA EnsureExact ==
  ASSUME LimitInv, OrderInv', RecordsFromTheStart, NEW q \in Requests, ensureConfiguredLimit(q)
  PROVE  LimitInv'
<1> DEFINE d == Head(req[q].todo).dimension  t == req[q]
<1>1. TypeOK /\ OrderInv
  BY DEF LimitInv, OrderInv
<1>2. /\ GoesOn(q)
      /\ t.phase = "next" /\ t.todo # <<>> /\ Head(t.todo).kind = "ensure"
      /\ d \in Dimensions
      /\ req'[q].phase = "next" /\ req'[q].todo = Tail(t.todo)
      /\ \/ /\ req'[q].writes = t.writes
            /\ ConfiguredLimit[d] = 0 \/ recordsOf(q, d) # {}
         \/ /\ req'[q].writes = [t.writes EXCEPT ![<<d, q>>] = newRecord(d)]
            /\ recordsOf(q, d) = {} /\ ConfiguredLimit[d] # 0
  BY <1>1, EnsureStep
<1>3. /\ Others(q) /\ req[q] # Idle /\ req'[q].op = t.op /\ req'[q].target = t.target
      /\ UNCHANGED <<status, allocations, limitRecord, alone>>
  BY <1>2 DEF GoesOn
<1>4. Exact(q) /\ Ordered(t.todo) /\ t.todo \in Seq(Step) /\ t.writes \in [Rows -> LimitRecord]
  BY <1>1, <1>3, InProgress DEF LimitInv, OrderInv, InOrder
<1>5. /\ \A e : HasMove(req'[q].todo, e) <=> HasMove(t.todo, e)
      /\ \A e : HasEnsure(t.todo, e) => HasEnsure(req'[q].todo, e) \/ e = d
      /\ HasMove(t.todo, d)
      /\ \A k \in 1..Len(req'[q].todo) : req'[q].todo[k] = t.todo[k + 1] /\ k + 1 \in 1..Len(t.todo)
  <2>1. \A e : HasMove(Tail(t.todo), e) <=> HasMove(t.todo, e)
    BY <1>2, <1>4, PopMoves
  <2>2. \A e : HasEnsure(t.todo, e) => HasEnsure(Tail(t.todo), e) \/ e = d
    BY <1>2, <1>4, PopMoves
  <2>3. HasMove(Tail(t.todo), d)
    BY <1>2, <1>4, PopMoves
  <2>4. \A k \in 1..Len(Tail(t.todo)) : Tail(t.todo)[k] = t.todo[k + 1] /\ k + 1 \in 1..Len(t.todo)
    BY <1>2, <1>4, TailFacts
  <2>5. QED
    BY <1>2, <2>1, <2>2, <2>3, <2>4
<1>6. Touched(t.op, t.target)' = Touched(t.op, t.target)
  BY <1>3 DEF Touched
<1> HIDE DEF d
<1>7. Steps(q)' /\ Seen(q)'
  <2>1. Seen(q)'
    BY <1>2 DEF Seen
  <2>2. Steps(q)'
    BY <1>3, <1>4, <1>5, <1>6 DEF Exact, Steps
  <2>3. QED
    BY <2>1, <2>2
<1>8. \A row \in Rows : (Shared(row)' <=> Shared(row)) /\ Base(row)' = Base(row)
  BY <1>3 DEF Shared, Base
<1>9. CASE req'[q].writes = t.writes /\ (ConfiguredLimit[d] = 0 \/ recordsOf(q, d) # {})
  <2>1. \A row \in Rows : /\ visible(q, row)' = visible(q, row) /\ Base(row)' = Base(row)
                          /\ Visible(q, row)' <=> Visible(q, row)
                          /\ Written(q, row)' <=> Written(q, row)
    BY <1>9, <1>3 DEF visible, Visible, Written, Shared, Base
  <2>2. (Leads(q)' <=> Leads(q)) /\ \A e : SeesRecord(q, e)' <=> SeesRecord(q, e)
    BY <2>1, <1>3 DEF Leads, SeesRecord
  <2>3. Follows(q)'
    BY <1>2, <1>3, <1>4, <1>5, <1>6, <2>1, <2>2 DEF Exact, Follows
  <2>4. OneVisible(q)' /\ VisibleSized(q)'
    BY <1>4, <2>1 DEF Exact, OneVisible, VisibleSized
  <2>5. Right(q)'
    BY <1>3, <1>4, <1>5, <1>6, <2>1 DEF Exact, Right, Tracked
  <2>6. Present(q)'
    <3>1. ConfiguredLimit[d] = 0 \/ SeesRecord(q, d)
      BY <1>9, RecordsOfDimension
    <3>2. QED
      BY <1>3, <1>4, <1>5, <1>6, <2>2, <3>1 DEF Exact, Present, Configured
  <2>7. Exact(q)'
    BY <1>7, <2>3, <2>4, <2>5, <2>6 DEF Exact
  <2>8. ASSUME NEW r \in Requests, r # q, req[r] # Idle
        PROVE  req[r].target # req'[q].target /\ ~(Leads(q)' /\ Leads(r))
    BY <1>3, <2>2, <2>8 DEF LimitInv, Apart
  <2>9. QED
    BY <1>3, <2>7, <2>8, StepExact
<1>10. CASE /\ req'[q].writes = [t.writes EXCEPT ![<<d, q>>] = newRecord(d)]
            /\ recordsOf(q, d) = {} /\ ConfiguredLimit[d] # 0
  <2> DEFINE new == <<d, q>>
  <2>1. new \in Rows /\ new[1] = d /\ Configured(d)
    BY <1>2, <1>10, RecordTypes, LimitAssumption DEF Configured
  <2>2. \A row \in Rows : row[1] = d => ~Visible(q, row) /\ ~Shared(row)
    BY <1>10, RecordsOfDimension, SharedIsVisible DEF SeesRecord
  <2>3. alone
    <3>1. ASSUME ~alone PROVE FALSE
      <4>1. <<d, "seed">> \in Rows
        BY <1>2 DEF Rows
      <4>2. Shared(<<d, "seed">>)
        BY <2>1, <3>1, <4>1 DEF LimitInv, SeedsIn
      <4>3. QED
        BY <2>2, <4>1, <4>2
    <3>2. QED
      BY <3>1
  <2> HIDE DEF new
  <2>4. \A row \in Rows : visible(q, row)' = IF row = new THEN newRecord(d) ELSE visible(q, row)
    <3>1. newRecord(d) # NoRecord
      BY <2>1 DEF newRecord, NoRecord, Configured
    <3>2. \A row \in Rows : req'[q].writes[row] = IF row = new THEN newRecord(d) ELSE t.writes[row]
      BY <1>4, <1>10 DEF new
    <3>3. QED
      BY <1>3, <3>1, <3>2 DEF visible
  <2>5. \A row \in Rows : Visible(q, row)' <=> row = new \/ Visible(q, row)
    <3>1. newRecord(d) # NoRecord
      BY <2>1 DEF newRecord, NoRecord, Configured
    <3>2. QED
      BY <2>4, <3>1 DEF Visible
  <2>6. Leads(q)' /\ Leads(q) /\ alone'
    BY <1>3, <2>3 DEF Leads
  <2>7. Follows(q)'
    BY <2>6 DEF Follows
  <2>8. OneVisible(q)'
    BY <1>4, <2>1, <2>2, <2>5 DEF Exact, OneVisible
  <2>9. VisibleSized(q)'
    <3>1. Sized(newRecord(d), d)
      BY <2>1 DEF Sized, newRecord
    <3>2. QED
      BY <1>4, <2>1, <2>4, <2>5, <3>1 DEF Exact, VisibleSized
  <2>10. Right(q)'
    <3>1. Base(new) = newRecord(d)
      BY <2>1, <2>2 DEF Base
    <3>2. HasMove(req'[q].todo, d)
      BY <1>5
    <3>3. ASSUME NEW row \in Rows, Visible(q, row)', Tracked(row[1])'
          PROVE  IF row[1] \in Touched(t.op, t.target) /\ ~HasMove(req'[q].todo, row[1])
                 THEN /\ visible(q, row)' = Moved(Base(row), MoveOf(t.op, t.target, row[1]))
                      /\ ~breaches(MoveOf(t.op, t.target, row[1]), Base(row))
                 ELSE visible(q, row)' = Base(row)
      <4>1. CASE row = new
        BY <4>1, <2>1, <2>4, <3>1, <3>2
      <4>2. CASE row # new
        <5>1. Visible(q, row) /\ Tracked(row[1]) /\ visible(q, row)' = visible(q, row)
          BY <4>2, <3>3, <2>4, <2>5, <1>3 DEF Tracked
        <5>2. QED
          BY <5>1, <1>4, <1>5 DEF Exact, Right
      <4>3. QED
        BY <4>1, <4>2
    <3>4. QED
      BY <3>3, <1>3, <1>6, <1>8 DEF Right
  <2>11. Present(q)'
    <3>1. \A e : SeesRecord(q, e) \/ e = d => SeesRecord(q, e)'
      BY <2>1, <2>5 DEF SeesRecord
    <3>2. QED
      BY <1>3, <1>4, <1>5, <1>6, <3>1 DEF Exact, Present
  <2>12. Exact(q)'
    BY <1>7, <2>7, <2>8, <2>9, <2>10, <2>11 DEF Exact
  <2>13. ASSUME NEW r \in Requests, r # q, req[r] # Idle
         PROVE  req[r].target # req'[q].target /\ ~(Leads(q)' /\ Leads(r))
    BY <1>3, <2>6, <2>13, LeadersApart
  <2>14. QED
    BY <1>3, <2>12, <2>13, StepExact
<1>11. QED
  BY <1>2, <1>9, <1>10

\* A transaction that does not lead yet is about to move the programme's record.
LEMMA FollowerStarts ==
  ASSUME LimitInv, ConfiguredLimit[Programme] > 0, NEW q \in Requests, req[q] # Idle, ~Leads(q),
         req[q].todo # <<>>, Head(req[q].todo).kind = "move"
  PROVE  Head(req[q].todo).dimension = Programme /\ SeesRecord(q, Programme)
<1> DEFINE t == req[q]  d == Head(t.todo).dimension
<1>1. /\ Exact(q) /\ Ordered(t.todo) /\ t.todo \in Seq(Step)
      /\ t.op \in Ops /\ t.target \in Financings
  BY InProgress DEF LimitInv, OrderInv, InOrder
<1>2. Len(t.todo) \in Nat \ {0} /\ Head(t.todo) = t.todo[1] /\ t.todo[1] \in Step
  BY <1>1, TailFacts
<1>3. d \in Touched(t.op, t.target) /\ d \in Dimensions
  BY <1>1, <1>2 DEF Exact, Steps, Step
<1>4. Programme \in Touched(t.op, t.target)
  BY <1>1, <1>3, CoreIsTouched
<1>5. PICK k \in 1..Len(t.todo) : t.todo[k].kind = "move" /\ t.todo[k].dimension = Programme
  BY <1>1, <1>4 DEF Exact, Follows, HasMove, MovesOn
<1>6. d = Programme
  <2>1. ASSUME k # 1 PROVE FALSE
    <3>1. Rank(d) < Rank(Programme)
      BY <1>1, <1>2, <1>5, <2>1 DEF Ordered
    <3>2. Rank(Programme) = 0 /\ Rank(d) \in Nat
      BY <1>3, Ranks, DimensionTypes
    <3>3. QED
      BY <3>1, <3>2
  <2>2. QED
    BY <1>2, <1>5, <2>1
<1>7. SeesRecord(q, Programme)
  <2> DEFINE seed == <<Programme, "seed">>
  <2>1. seed \in Rows /\ seed[1] = Programme /\ seed[2] = "seed"
    BY DimensionTypes DEF Rows
  <2>2. ~alone /\ Configured(Programme)
    BY DEF Leads, Configured
  <2> HIDE DEF seed
  <2>3. Shared(seed)
    BY <2>1, <2>2 DEF LimitInv, SeedsIn
  <2>4. QED
    BY <2>1, <2>3, SharedIsVisible DEF SeesRecord
<1>8. QED
  BY <1>6, <1>7

\* What a movement taken off the plan leaves.
LEMMA PopExact ==
  ASSUME NEW q \in Requests, Exact(q), Ordered(req[q].todo), req[q].todo \in Seq(Step),
         req[q].todo # <<>>, Head(req[q].todo).kind = "move",
         req'[q].todo = Tail(req[q].todo), GoesOn(q)
  PROVE  /\ Steps(q)'
         /\ \A e : HasMove(req'[q].todo, e) <=>
                     HasMove(req[q].todo, e) /\ e # Head(req[q].todo).dimension
         /\ \A e : HasEnsure(req[q].todo, e) => HasEnsure(req'[q].todo, e)
         /\ Touched(req[q].op, req[q].target)' = Touched(req[q].op, req[q].target)
<1> DEFINE t == req[q]  d == Head(t.todo).dimension
<1>1. \A e : HasMove(Tail(t.todo), e) <=> (HasMove(t.todo, e) /\ e # d)
  BY PopMoves
<1>2. \A e : HasEnsure(t.todo, e) => HasEnsure(Tail(t.todo), e)
  BY PopMoves
<1>3. \A k \in 1..Len(Tail(t.todo)) : Tail(t.todo)[k] = t.todo[k + 1] /\ k + 1 \in 1..Len(t.todo)
  BY TailFacts
<1>4. /\ req'[q].op = t.op /\ req'[q].target = t.target
      /\ UNCHANGED <<status, allocations>>
  BY DEF GoesOn
<1>5. Touched(t.op, t.target)' = Touched(t.op, t.target)
  BY <1>4 DEF Touched
<1>6. Steps(q)'
  BY <1>3, <1>4, <1>5 DEF Exact, Steps
<1>7. QED
  BY <1>1, <1>2, <1>5, <1>6

LEMMA ReadExact ==
  ASSUME LimitInv, OrderInv', ConfiguredLimit[Programme] > 0, NEW q \in Requests, readLimit(q)
  PROVE  LimitInv'
<1> DEFINE t == req[q]  s == Head(t.todo)  d == s.dimension  row == latest(q, d)
<1>1. TypeOK /\ OrderInv /\ Dated
  BY DEF LimitInv, OrderInv
<1>2. /\ GoesOn(q) /\ t.phase = "next" /\ t.todo # <<>> /\ s.kind = "move" /\ d \in Dimensions
      /\ req'[q].writes = t.writes
      /\ \/ /\ recordsOf(q, d) = {}
            /\ req'[q].phase = "next" /\ req'[q].todo = Tail(t.todo)
         \/ /\ recordsOf(q, d) # {} /\ row \in Rows /\ row[1] = d
            /\ visible(q, row) # NoRecord /\ ~breaches(s, visible(q, row))
            /\ req'[q].phase = "write" /\ req'[q].todo = t.todo
            /\ req'[q].row = row /\ req'[q].seen = visible(q, row)
  BY <1>1, ReadStep
<1>3. /\ Others(q) /\ t # Idle /\ req'[q].op = t.op /\ req'[q].target = t.target
      /\ UNCHANGED <<status, allocations, limitRecord, alone>>
  BY <1>2 DEF GoesOn
<1>4. Exact(q) /\ Ordered(t.todo) /\ t.todo \in Seq(Step)
  BY <1>1, <1>3, InProgress DEF LimitInv, OrderInv, InOrder
<1>5. \A x \in Rows : /\ visible(q, x)' = visible(q, x) /\ Base(x)' = Base(x)
                      /\ Visible(q, x)' <=> Visible(q, x)
                      /\ Written(q, x)' <=> Written(q, x)
  BY <1>2, <1>3 DEF visible, Visible, Written, Shared, Base
<1>6. /\ Leads(q)' <=> Leads(q)
      /\ \A e : SeesRecord(q, e)' <=> SeesRecord(q, e)
      /\ \A e : Tracked(e)' <=> Tracked(e)
  BY <1>5, <1>3 DEF Leads, SeesRecord, Tracked
<1>7. OneVisible(q)' /\ VisibleSized(q)'
  BY <1>4, <1>5 DEF Exact, OneVisible, VisibleSized
<1>8. ~Leads(q) => d = Programme /\ SeesRecord(q, Programme)
  BY <1>2, <1>3, FollowerStarts
<1>9. Touched(t.op, t.target)' = Touched(t.op, t.target)
  BY <1>3 DEF Touched
<1> HIDE DEF row
<1>10. ASSUME recordsOf(q, d) = {} PROVE Exact(q)'
  <2>1. req'[q].phase = "next" /\ req'[q].todo = Tail(t.todo)
    BY <1>2, <1>10
  <2>2. ~SeesRecord(q, d) /\ Leads(q)
    BY <1>8, <1>10, RecordsOfDimension
  <2>3. Follows(q)'
    BY <1>6, <2>2 DEF Follows
  <2>4. Steps(q)' /\ Seen(q)'
    BY <1>2, <1>4, <2>1, PopExact DEF Seen
  <2>5. /\ \A e : HasMove(req'[q].todo, e) <=> HasMove(t.todo, e) /\ e # d
        /\ \A e : HasEnsure(t.todo, e) => HasEnsure(req'[q].todo, e)
    BY <1>2, <1>4, <2>1, PopExact
  <2> HIDE DEF d
  <2>6. Right(q)'
    <3>1. ASSUME NEW x \in Rows, Visible(q, x)', Tracked(x[1])'
          PROVE  IF x[1] \in Touched(t.op, t.target) /\ ~HasMove(req'[q].todo, x[1])
                 THEN /\ visible(q, x)' = Moved(Base(x), MoveOf(t.op, t.target, x[1]))
                      /\ ~breaches(MoveOf(t.op, t.target, x[1]), Base(x))
                 ELSE visible(q, x)' = Base(x)
      <4>1. Visible(q, x) /\ Tracked(x[1]) /\ visible(q, x)' = visible(q, x)
        BY <1>5, <1>6, <3>1
      <4>2. x[1] # d
        BY <2>2, <4>1 DEF SeesRecord
      <4>3. HasMove(req'[q].todo, x[1]) <=> HasMove(t.todo, x[1])
        BY <2>5, <4>2
      <4>4. QED
        BY <1>4, <4>1, <4>3 DEF Exact, Right
    <3>2. QED
      BY <3>1, <1>3, <1>5, <1>9 DEF Right
  <2>7. Present(q)'
    BY <1>3, <1>4, <1>6, <1>9, <2>5 DEF Exact, Present
  <2>8. QED
    BY <1>7, <2>3, <2>4, <2>6, <2>7 DEF Exact
<1>11. ASSUME recordsOf(q, d) # {} PROVE Exact(q)'
  <2>1. /\ row \in Rows /\ row[1] = d /\ Visible(q, row) /\ ~breaches(s, visible(q, row))
        /\ req'[q].phase = "write" /\ req'[q].todo = t.todo
        /\ req'[q].row = row /\ req'[q].seen = visible(q, row)
    BY <1>2, <1>11 DEF Visible
  <2>2. Follows(q)'
    BY <1>3, <1>4, <1>5, <1>6, <1>8, <1>9, <2>1 DEF Exact, Follows
  <2>3. Right(q)' /\ Steps(q)' /\ Present(q)'
    BY <1>3, <1>4, <1>5, <1>6, <1>9, <2>1 DEF Exact, Right, Steps, Present
  <2>4. Sized(visible(q, row), row[1])
    BY <1>4, <2>1 DEF Exact, VisibleSized
  <2>5. HasMove(t.todo, d)
    <3>1. 1 \in 1..Len(t.todo) /\ t.todo[1] = s
      BY <1>2, <1>4, TailFacts
    <3>2. QED
      BY <3>1, <1>2 DEF HasMove, MovesOn
  <2>6. Tracked(d) => visible(q, row) = Base(row)
    BY <1>4, <2>1, <2>5 DEF Exact, Right
  <2>7. Seen(q)'
    BY <1>5, <1>6, <2>1, <2>4, <2>6 DEF Seen
  <2>8. QED
    BY <1>7, <2>2, <2>3, <2>7 DEF Exact
<1>12. Exact(q)'
  BY <1>10, <1>11
<1>13. ASSUME NEW r \in Requests, r # q, req[r] # Idle
       PROVE  req[r].target # req'[q].target /\ ~(Leads(q)' /\ Leads(r))
  BY <1>3, <1>6, <1>13 DEF LimitInv, Apart
<1>14. QED
  BY <1>3, <1>12, <1>13, StepExact

LEMMA WriteExact ==
  ASSUME LimitInv, OrderInv', ConfiguredLimit[Programme] > 0, NEW q \in Requests, writeLimit(q)
  PROVE  LimitInv'
<1> DEFINE t == req[q]  s == Head(t.todo)  d == s.dimension  row == t.row  m == Moved(t.seen, s)
<1>1. TypeOK /\ OrderInv
  BY DEF LimitInv, OrderInv
<1>2. t # Idle /\ t.phase = "write"
  BY DEF writeLimit
<1>3. /\ Exact(q) /\ Ordered(t.todo) /\ t.todo \in Seq(Step) /\ t.todo # <<>>
      /\ s.kind = "move" /\ row[1] = d
      /\ t.op \in Ops /\ t.target \in Financings /\ t.seen \in LimitRecord
      /\ t.writes \in [Rows -> LimitRecord]
  BY <1>1, <1>2, InProgress DEF LimitInv, OrderInv, InOrder, WriteOk
<1>4. /\ GoesOn(q) /\ ~lockedByOther(q, row) /\ row \in Rows
      /\ req'[q].phase = "next" /\ req'[q].todo = Tail(t.todo)
      /\ req'[q].writes = [t.writes EXCEPT ![row] = m]
  BY <1>1, <1>3, WriteStep
<1>5. /\ Others(q) /\ req'[q].op = t.op /\ req'[q].target = t.target
      /\ UNCHANGED <<status, allocations, limitRecord, alone>>
  BY <1>4 DEF GoesOn
<1>6. /\ d \in Touched(t.op, t.target) /\ s = MoveOf(t.op, t.target, d)
  <2>1. 1 \in 1..Len(t.todo) /\ t.todo[1] = s
    BY <1>3, TailFacts
  <2>2. QED
    BY <2>1, <1>3 DEF Exact, Steps
<1>7. Visible(q, row) /\ Sized(t.seen, d)
  BY <1>2, <1>3 DEF Exact, Seen
<1>8. m # NoRecord /\ Sized(m, d)
  <2>1. m.limit = t.seen.limit
    BY DEF Moved
  <2>2. m.limit = ConfiguredLimit[d] /\ Configured(d)
    BY <1>7, <2>1 DEF Sized
  <2>3. m.limit # 0
    BY <2>2 DEF Configured
  <2>4. NoRecord.limit = 0
    BY DEF NoRecord
  <2> HIDE DEF m
  <2>5. QED
    BY <2>2, <2>3, <2>4 DEF Sized
<1>9. /\ Steps(q)'
      /\ \A e : HasMove(req'[q].todo, e) <=> HasMove(t.todo, e) /\ e # d
      /\ \A e : HasEnsure(t.todo, e) => HasEnsure(req'[q].todo, e)
      /\ Touched(t.op, t.target)' = Touched(t.op, t.target)
  BY <1>3, <1>4, PopExact
<1> HIDE DEF row, d, m, s
<1>10. \A x \in Rows : req'[q].writes[x] = IF x = row THEN m ELSE t.writes[x]
  BY <1>3, <1>4
<1>11. \A x \in Rows : /\ visible(q, x)' = IF x = row THEN m ELSE visible(q, x)
                       /\ Base(x)' = Base(x)
  BY <1>5, <1>8, <1>10 DEF visible, Shared, Base
<1>12. \A x \in Rows : /\ Visible(q, x)' <=> Visible(q, x)
                       /\ Written(q, x)' <=> Written(q, x) \/ x = row
  BY <1>7, <1>8, <1>10, <1>11 DEF Visible, Written
<1>13. /\ \A e : SeesRecord(q, e)' <=> SeesRecord(q, e)
       /\ \A e : Tracked(e)' <=> Tracked(e)
  BY <1>12, <1>5 DEF SeesRecord, Tracked
<1>14. ~Leads(q) => row[1] = Programme
  BY <1>2, <1>3 DEF Exact, Follows, row
<1>15. Leads(q)'
  BY <1>4, <1>5, <1>12, <1>14 DEF Leads
<1>16. Follows(q)' /\ Seen(q)'
  BY <1>4, <1>15 DEF Follows, Seen
<1>17. OneVisible(q)' /\ VisibleSized(q)'
  <2>1. row[1] = d
    BY <1>3 DEF row, d, s
  <2>2. QED
    BY <1>3, <1>8, <1>11, <1>12, <2>1 DEF Exact, OneVisible, VisibleSized
<1>18. Right(q)'
  <2>1. ASSUME NEW x \in Rows, Visible(q, x)', Tracked(x[1])'
        PROVE  IF x[1] \in Touched(t.op, t.target) /\ ~HasMove(req'[q].todo, x[1])
               THEN /\ visible(q, x)' = Moved(Base(x), MoveOf(t.op, t.target, x[1]))
                    /\ ~breaches(MoveOf(t.op, t.target, x[1]), Base(x))
               ELSE visible(q, x)' = Base(x)
    <3>1. Visible(q, x) /\ Tracked(x[1])
      BY <1>12, <1>13, <2>1
    <3>2. CASE x = row
      <4>1. row[1] = d /\ ~HasMove(req'[q].todo, x[1])
        BY <1>3, <1>9, <3>2 DEF row, d, s
      <4>2. t.seen = Base(row) /\ ~breaches(s, Base(row))
        BY <1>2, <1>3, <3>1, <3>2 DEF Exact, Seen, row, s
      <4>3. visible(q, x)' = Moved(Base(row), s)
        BY <1>11, <3>2, <4>2 DEF m
      <4>4. QED
        BY <1>6, <3>2, <4>1, <4>2, <4>3
    <3>3. CASE x # row
      <4>1. x[1] # d
        <5>1. row[1] = d
          BY <1>3 DEF row, d, s
        <5>2. QED
          BY <1>3, <1>4, <1>7, <3>1, <3>3, <5>1 DEF Exact, OneVisible
      <4>2. HasMove(req'[q].todo, x[1]) <=> HasMove(t.todo, x[1])
        BY <1>9, <4>1
      <4>3. visible(q, x)' = visible(q, x)
        BY <1>11, <3>3
      <4>4. QED
        BY <1>3, <3>1, <4>2, <4>3 DEF Exact, Right
    <3>4. QED
      BY <3>2, <3>3
  <2>2. QED
    BY <2>1, <1>5, <1>9, <1>11 DEF Right
<1>19. Present(q)'
  BY <1>3, <1>5, <1>9, <1>13 DEF Exact, Present
<1>20. Exact(q)'
  BY <1>9, <1>16, <1>17, <1>18, <1>19 DEF Exact
<1>21. ASSUME NEW r \in Requests, r # q, req[r] # Idle
       PROVE  req[r].target # req'[q].target /\ ~(Leads(q)' /\ Leads(r))
  <2>1. req[r].target # req'[q].target
    BY <1>2, <1>5, <1>21 DEF LimitInv, Apart
  <2>2. Leads(q) => ~Leads(r)
    BY <1>2, <1>21, LeadersApart
  <2>3. ASSUME ~Leads(q), Leads(r) PROVE FALSE
    <3> DEFINE seed == <<Programme, "seed">>
    <3>1. seed \in Rows /\ seed[1] = Programme /\ seed[2] = "seed"
      BY DimensionTypes DEF Rows
    <3> HIDE DEF seed
    <3>2. ~alone /\ Configured(Programme) /\ row[1] = Programme
      BY <1>14, <2>3 DEF Leads, Configured
    <3>3. Shared(seed)
      BY <3>1, <3>2 DEF LimitInv, SeedsIn
    <3>4. row = seed
      <4>1. Visible(q, seed)
        BY <3>3, SharedIsVisible
      <4>2. QED
        BY <1>3, <1>4, <1>7, <3>1, <3>2, <4>1 DEF Exact, OneVisible
    <3>5. PICK x \in Rows : x[1] = Programme /\ Written(r, x)
      BY <2>3, <3>2 DEF Leads
    <3>6. x = seed
      <4>1. Visible(r, seed) /\ OneVisible(r)
        BY <3>3, <1>21, SharedIsVisible DEF LimitInv, Exact
      <4>2. Visible(r, x)
        BY <3>5 DEF Written, Visible, visible
      <4>3. QED
        BY <3>1, <3>5, <4>1, <4>2 DEF OneVisible
    <3>7. lockedByOther(q, row)
      BY <1>21, <3>4, <3>5, <3>6 DEF lockedByOther, Written
    <3>8. QED
      BY <1>4, <3>7
  <2>4. QED
    BY <2>1, <2>2, <2>3
<1>22. QED
  BY <1>2, <1>5, <1>20, <1>21, StepExact

\* A dimension without a record has nothing on its books.
LEMMA NothingCounts ==
  ASSUME LimitInv, NEW d \in Dimensions, Configured(d), ~HasRecord(d)
  PROVE  ReservedOn(d) = 0 /\ UsedOn(d) = 0
<1>1. \A f \in Financings : ~Counts(f, d)
  BY DEF LimitInv, Covered
<1>2. Reserving(d) = {}
  <2>1. ASSUME NEW f \in Reserving(d) PROVE FALSE
    <3>1. f \in Financings /\ onDimension(f, d) /\ status[f] \in Exposed
      BY DEF Reserving, Exposed
    <3>2. QED
      BY <3>1, <1>1, Dimensionality DEF Counts
  <2>2. QED
    BY <2>1
<1>3. Using(d) = {}
  <2>1. ASSUME NEW f \in Using(d) PROVE FALSE
    <3>1. /\ f \in Financings /\ status[f] \in Used /\ status[f] \in Exposed
          /\ d \in FunderSet \/ onDimension(f, d)
      BY DEF Using, Used, Exposed
    <3>2. QED
      BY <3>1, <1>1, Dimensionality DEF Counts
  <2>2. QED
    BY <2>1
<1>4. QED
  BY <1>2, <1>3, TotalOfNone DEF ReservedOn, UsedOn

\* What a transaction starts from is balanced.
LEMMA BaseIsBalanced ==
  ASSUME LimitInv, NEW q \in Requests, req[q] # Idle, NEW row \in Rows, Visible(q, row), Tracked(row[1])
  PROVE  /\ Base(row) \in LimitRecord
         /\ Sized(Base(row), row[1]) /\ Balanced(Base(row), row[1])
<1> DEFINE d == row[1]
<1>1. d \in Dimensions /\ Configured(d) /\ ConfiguredLimit[d] \in Nat
  BY RecordTypes, LimitAssumption DEF Tracked
<1>2. CASE Shared(row)
  BY <1>2 DEF Base, LimitInv, Books, OrderInv, TypeOK
<1>3. CASE ~Shared(row)
  <2>1. Base(row) = newRecord(d)
    BY <1>3 DEF Base
  <2>2. ~HasRecord(d)
    <3>1. ASSUME NEW x \in Rows, x[1] = d, Shared(x) PROVE FALSE
      <4>1. Visible(q, x) /\ OneVisible(q)
        BY <3>1, SharedIsVisible DEF LimitInv, Exact
      <4>2. x = row
        BY <3>1, <4>1 DEF OneVisible
      <4>3. QED
        BY <1>3, <3>1, <4>2
    <3>2. QED
      BY <3>1 DEF HasRecord
  <2>3. ReservedOn(d) = 0 /\ UsedOn(d) = 0
    BY <1>1, <2>2, NothingCounts
  <2>4. Sized(newRecord(d), d) /\ newRecord(d) \in LimitRecord
    BY <1>1 DEF Sized, newRecord, LimitRecord
  <2>5. Balanced(newRecord(d), d)
    BY <1>1, <2>3 DEF Balanced, newRecord
  <2>6. QED
    BY <2>1, <2>4, <2>5
<1>4. QED
  BY <1>2, <1>3

LEMMA NoMovesLeft ==
  /\ \A d : ~HasMove(<<>>, d) /\ ~HasEnsure(<<>>, d)
  BY DEF HasMove, HasEnsure

LEMMA CommitBooks ==
  ASSUME LimitInv, NEW q \in Requests, commit(q)
  PROVE  Books' /\ Covered' /\ Allocated' /\ SeedsIn' /\ OneShared'
<1> DEFINE t == req[q]  f == t.target  op == t.op
<1>1. TypeOK /\ Allocated
  BY DEF LimitInv, OrderInv
<1>2. /\ t # Idle /\ t.todo = <<>> /\ f \in Financings /\ op \in Ops
      /\ status' = [status EXCEPT ![f] = StatusAfter[op]]
      /\ allocations' = IF op = "fund" THEN [allocations EXCEPT ![f] = @ + 1] ELSE allocations
      /\ limitRecord' = [row \in Rows |-> visible(q, row)]
      /\ UNCHANGED alone
  BY <1>1, CommitStep
<1>3. Exact(q) /\ status[f] \in AllowedFrom[op]
  BY <1>2 DEF LimitInv, Exact, Steps
<1>4. \A row \in Rows : limitRecord'[row] = visible(q, row) /\ (Shared(row)' <=> Visible(q, row))
  BY <1>2 DEF Shared, Visible
<1>5. \A g \in Financings : status'[g] = IF g = f THEN StatusAfter[op] ELSE status[g]
  BY <1>1, <1>2 DEF TypeOK
<1>6. \A d : Tracked(d)' <=> Tracked(d)
  BY <1>2 DEF Tracked
<1> HIDE DEF f, op
<1>7. OneShared'
  BY <1>3, <1>4 DEF Exact, OneVisible, OneShared
<1>8. SeedsIn'
  <2>1. ASSUME ~alone, NEW row \in Rows
        PROVE  Visible(q, row) <=> (row[2] = "seed" /\ Configured(row[1]))
    <3>1. Shared(row) <=> (row[2] = "seed" /\ Configured(row[1]))
      BY <2>1 DEF LimitInv, SeedsIn
    <3>2. ASSUME Visible(q, row) PROVE row[2] = "seed" /\ Configured(row[1])
      <4> DEFINE seed == <<row[1], "seed">>
      <4>1. seed \in Rows /\ seed[1] = row[1] /\ seed[2] = "seed"
        BY RecordTypes DEF Rows
      <4>2. Configured(row[1])
        BY <1>3, <3>2 DEF Exact, VisibleSized, Sized
      <4> HIDE DEF seed
      <4>3. Shared(seed)
        BY <2>1, <4>1, <4>2 DEF LimitInv, SeedsIn
      <4>4. row = seed
        BY <1>3, <3>2, <4>1, <4>3, SharedIsVisible DEF Exact, OneVisible
      <4>5. QED
        BY <4>1, <4>2, <4>4
    <3>3. QED
      BY <3>1, <3>2, SharedIsVisible
  <2>2. QED
    BY <2>1, <1>2, <1>4 DEF SeedsIn
<1>9. Allocated'
  <2> SUFFICES ASSUME NEW g \in Financings
               PROVE  /\ status'[g] \in {"OFFERED", "ACCEPTED"} => allocations'[g] = 0
                      /\ status'[g] \in Used => allocations'[g] = 1
    BY DEF Allocated
  <2>1. /\ status[g] \in {"OFFERED", "ACCEPTED"} => allocations[g] = 0
        /\ status[g] \in Used => allocations[g] = 1
    BY <1>1 DEF Allocated
  <2>2. allocations'[g] = IF g = f /\ op = "fund" THEN allocations[g] + 1 ELSE allocations[g]
    BY <1>1, <1>2 DEF TypeOK, f, op
  <2>3. CASE g # f
    BY <1>5, <2>1, <2>2, <2>3
  <2>4. CASE g = f
    <3>1. /\ op = "accept" => status[f] = "OFFERED" /\ status'[f] = "ACCEPTED"
          /\ op = "fund" => status[f] = "ACCEPTED" /\ status'[f] = "FUNDED"
          /\ op = "disburse" => status[f] = "FUNDED" /\ status'[f] = "DISBURSED"
          /\ op = "collect" => status'[f] = "COLLECTED"
          /\ op = "remove" => status'[f] = "CANCELLED"
      BY <1>2, <1>3, <1>5 DEF AllowedFrom, StatusAfter, f, op
    <3>2. QED
      BY <1>2, <2>1, <2>2, <2>4, <3>1 DEF Ops, Used, op
  <2>5. QED
    BY <2>3, <2>4
<1>10. Covered'
  <2> SUFFICES ASSUME NEW g \in Financings, NEW d \in Dimensions, Configured(d), Counts(g, d)'
               PROVE  HasRecord(d)'
    BY DEF Covered, Configured
  <2>1. HasRecord(d) \/ SeesRecord(q, d) => HasRecord(d)'
    BY <1>4, SharedIsVisible DEF HasRecord, SeesRecord
  <2>2. \/ d \in CoreOf(g) /\ status'[g] \in Exposed
        \/ d \in FunderSet /\ status'[g] \in Used
    BY DEF Counts
  <2>3. ASSUME Counts(g, d) PROVE HasRecord(d)'
    BY <2>1, <2>3 DEF LimitInv, Covered
  <2>4. CASE g # f
    BY <1>5, <2>2, <2>3, <2>4 DEF Counts
  <2>5. CASE g = f
    <3>1. CASE d \in Touched(op, f)
      BY <1>2, <1>3, <2>1, <3>1, NoMovesLeft DEF Exact, Present, f, op
    <3>2. CASE d \notin Touched(op, f)
      <4>1. status'[f] = StatusAfter[op]
        BY <1>2, <1>5 DEF f
      <4>2. CASE op = "accept"
        BY <2>2, <2>5, <3>2, <4>1, <4>2 DEF StatusAfter, Touched, Used
      <4>3. CASE op = "fund"
        BY <2>2, <2>5, <3>2, <4>3 DEF Touched
      <4>4. CASE op = "disburse"
        <5>1. status[f] = "FUNDED"
          BY <1>3, <4>4 DEF AllowedFrom, f, op
        <5>2. QED
          BY <2>2, <2>3, <2>5, <5>1 DEF Counts, Exposed, Used
      <4>5. CASE op = "collect"
        BY <2>2, <2>5, <4>1, <4>5 DEF StatusAfter, Exposed, Used
      <4>6. CASE op = "remove"
        BY <2>2, <2>5, <4>1, <4>6 DEF StatusAfter, Exposed, Used
      <4>7. QED
        BY <1>2, <4>2, <4>3, <4>4, <4>5, <4>6 DEF Ops, op
    <3>3. QED
      BY <3>1, <3>2
  <2>6. QED
    BY <2>4, <2>5
<1>11. Books'
  <2>1. ASSUME NEW row \in Rows, Visible(q, row), Tracked(row[1]), NEW m, m = visible(q, row)
        PROVE  Balanced(m, row[1])'
    <3> DEFINE d == row[1]
    <3>1. PICK l : l = Base(row)
      OBVIOUS
    <3>2. PICK o, g : o = op /\ g = f
      OBVIOUS
    <3>3. /\ o \in Ops /\ g \in Financings /\ status[g] \in AllowedFrom[o]
          /\ status' = [status EXCEPT ![g] = StatusAfter[o]]
      BY <1>2, <1>3, <3>2 DEF f, op
    <3>4. l \in LimitRecord /\ Sized(l, d) /\ Balanced(l, d) /\ d \in Dimensions
      BY <1>2, <2>1, <3>1, BaseIsBalanced, RecordTypes
    <3>5. IF d \in Touched(o, g) THEN m = Moved(l, MoveOf(o, g, d)) /\ ~breaches(MoveOf(o, g, d), l)
                                 ELSE m = l
      BY <1>2, <1>3, <2>1, <3>1, <3>2, NoMovesLeft DEF Exact, Right, f, op
    <3>6. IF d \in Touched(o, g)
          THEN ~breaches(MoveOf(o, g, d), l) => Balanced(Moved(l, MoveOf(o, g, d)), d)'
          ELSE Balanced(l, d)'
      BY <1>1, <3>3, <3>4, BalanceMoves
    <3>7. CASE d \in Touched(o, g)
      <4>1. Balanced(Moved(l, MoveOf(o, g, d)), d)' /\ m = Moved(l, MoveOf(o, g, d))
        BY <3>5, <3>6, <3>7
      <4>2. QED
        BY <4>1
    <3>8. CASE d \notin Touched(o, g)
      BY <3>5, <3>6, <3>8
    <3>9. QED
      BY <3>7, <3>8
  <2>2. ASSUME NEW row \in Rows, Visible(q, row)
        PROVE  /\ Sized(limitRecord[row], row[1])'
               /\ Tracked(row[1])' => Balanced(limitRecord[row], row[1])'
    <3>1. PICK m : m = visible(q, row)
      OBVIOUS
    <3>2. limitRecord'[row] = m /\ Sized(m, row[1])
      BY <1>3, <1>4, <2>2, <3>1 DEF Exact, VisibleSized
    <3>3. Sized(limitRecord[row], row[1])'
      BY <3>2 DEF Sized, Configured
    <3>4. ASSUME Tracked(row[1]) PROVE Balanced(limitRecord[row], row[1])'
      <4>1. Balanced(m, row[1])'
        BY <2>1, <2>2, <3>1, <3>4
      <4>2. QED
        BY <3>2, <4>1 DEF Balanced
    <3>5. QED
      BY <1>6, <3>3, <3>4
  <2>3. QED
    BY <1>4, <2>2 DEF Books
<1>12. QED
  BY <1>7, <1>8, <1>9, <1>10, <1>11

\* Another transaction is as exact after a commit as it was before.
LEMMA CommitOthers ==
  ASSUME LimitInv, NEW q \in Requests, commit(q), NEW r \in Requests, r # q, req[r] # Idle
  PROVE  req'[r] = req[r] /\ Exact(r)' /\ (Leads(r)' <=> Leads(r))
<1> DEFINE t == req[q]  u == req[r]
<1>1. TypeOK
  BY DEF LimitInv, OrderInv
<1>2. /\ Others(q) /\ t # Idle /\ t.target \in Financings
      /\ status' = [status EXCEPT ![t.target] = StatusAfter[t.op]]
      /\ allocations' = IF t.op = "fund" THEN [allocations EXCEPT ![t.target] = @ + 1] ELSE allocations
      /\ limitRecord' = [row \in Rows |-> visible(q, row)]
      /\ UNCHANGED alone
  BY <1>1, CommitStep
<1>3. u.target # t.target /\ ~(Leads(q) /\ Leads(r)) /\ Exact(q) /\ Exact(r)
  BY <1>2 DEF LimitInv, Apart
<1>4. req'[r] = u /\ u.target \in Financings /\ u.row \in Rows
  BY <1>1, <1>2, InProgress DEF Others
<1>5. status'[u.target] = status[u.target] /\ allocations'[u.target] = allocations[u.target]
  BY <1>1, <1>2, <1>3, <1>4 DEF TypeOK
<1>6. Leads(r)' <=> Leads(r)
  BY <1>2, <1>4 DEF Leads, Written
<1>7. CASE ~Leads(q)
  <2>1. \A row \in Rows : visible(q, row) = limitRecord[row]
    BY <1>3, <1>7 DEF Exact, Follows, Written, visible
  <2>2. limitRecord' = limitRecord
    BY <1>1, <1>2, <2>1 DEF TypeOK
  <2>3. QED
    BY <1>2, <1>3, <1>4, <1>5, <1>6, <2>2, Alike
<1>8. CASE Leads(q)
  <2>1. /\ ~Leads(r) /\ ~alone
        /\ \A row \in Rows : ~Written(r, row)
        /\ \A d \in Touched(u.op, u.target) : HasMove(u.todo, d)
        /\ u.phase = "write" => u.row[1] = Programme
    BY <1>3, <1>8 DEF Exact, Follows, Leads
  <2>2. \A row \in Rows : /\ visible(r, row) = limitRecord[row]
                          /\ visible(r, row)' = limitRecord'[row]
                          /\ limitRecord'[row] = visible(q, row)
                          /\ ~Written(r, row)'
    BY <1>2, <1>4, <2>1 DEF Written, visible
  <2>3. \A row \in Rows : /\ Visible(r, row)' <=> Visible(q, row)
                          /\ Visible(r, row) => Visible(q, row)
    BY <2>2, SharedIsVisible DEF Visible, Shared
  <2>4. Touched(u.op, u.target)' = Touched(u.op, u.target)
    BY <1>4, <1>5 DEF Touched
  <2>5. Follows(r)'
    BY <1>4, <2>1, <2>2, <2>4 DEF Follows
  <2>6. OneVisible(r)' /\ VisibleSized(r)'
    BY <1>3, <2>2, <2>3 DEF Exact, OneVisible, VisibleSized
  <2>7. Seen(r)'
    <3>1. ~Tracked(Programme)'
      BY <1>2, <2>1 DEF Tracked
    <3>2. ASSUME u.phase = "write"
          PROVE  Visible(r, u.row)' /\ Sized(u.seen, u.row[1]) /\ u.row[1] = Programme
      BY <1>3, <1>4, <2>1, <2>3, <3>2 DEF Exact, Seen
    <3>3. QED
      BY <1>4, <3>1, <3>2 DEF Seen, Sized, Configured
  <2>8. Right(r)'
    <3>1. \A row \in Rows : Visible(r, row)' => visible(r, row)' = Base(row)'
      BY <2>2 DEF Visible, Base, Shared
    <3>2. QED
      BY <1>4, <2>1, <2>4, <3>1 DEF Right
  <2>9. Steps(r)'
    BY <1>3, <1>4, <1>5, <2>4 DEF Exact, Steps
  <2>10. Present(r)'
    <3>1. \A d : SeesRecord(r, d) => SeesRecord(r, d)'
      BY <2>3 DEF SeesRecord
    <3>2. QED
      BY <1>3, <1>4, <2>4, <3>1 DEF Exact, Present
  <2>11. QED
    BY <1>4, <1>6, <2>5, <2>6, <2>7, <2>8, <2>9, <2>10 DEF Exact
<1>9. QED
  BY <1>7, <1>8

LEMMA CommitExact ==
  ASSUME LimitInv, OrderInv', NEW q \in Requests, commit(q)
  PROVE  LimitInv'
<1>1. req'[q] = Idle
  BY CommitStep DEF LimitInv, OrderInv
<1>2. Books' /\ Covered' /\ Allocated' /\ SeedsIn' /\ OneShared'
  BY CommitBooks
<1>3. ASSUME NEW r \in Requests, req'[r] # Idle
      PROVE  r # q /\ req[r] # Idle /\ req'[r] = req[r] /\ Exact(r)' /\ (Leads(r)' <=> Leads(r))
  <2>1. r # q
    BY <1>1, <1>3
  <2>2. req'[r] = req[r]
    BY <2>1, CommitStep DEF LimitInv, OrderInv, Others
  <2>3. QED
    BY <1>3, <2>1, <2>2, CommitOthers
<1>4. Apart'
  BY <1>3 DEF LimitInv, Apart
<1>5. QED
  BY <1>2, <1>3, <1>4 DEF LimitInv

LEMMA EndExact ==
  ASSUME LimitInv, OrderInv', NEW q \in Requests, limitBreached(q) \/ rollback(q)
  PROVE  LimitInv'
<1>1. /\ Others(q) /\ req'[q] = Idle
      /\ UNCHANGED <<status, allocations, limitRecord, alone>>
  BY EndStep DEF LimitInv, OrderInv
<1>2. QED
  BY <1>1, StepExact

LEMMA StutterExact ==
  ASSUME LimitInv, OrderInv', UNCHANGED vars
  PROVE  LimitInv'
<1>1. UNCHANGED <<status, allocations, limitRecord, alone, req>>
  BY DEF vars
<1>2. Books' /\ Covered' /\ Allocated' /\ SeedsIn' /\ OneShared'
  BY <1>1, CommittedAlike DEF LimitInv
<1>3. ASSUME NEW r \in Requests, req'[r] # Idle
      PROVE  req[r] # Idle /\ req'[r] = req[r] /\ Exact(r)' /\ (Leads(r)' <=> Leads(r))
  <2>1. req[r] # Idle /\ req'[r] = req[r] /\ Exact(r)
    BY <1>1, <1>3 DEF LimitInv
  <2>2. Exact(r)'
    BY <1>1, <2>1, Alike
  <2>3. QED
    BY <1>1, <2>1, <2>2 DEF Leads, Written
<1>4. Apart'
  BY <1>3 DEF LimitInv, Apart
<1>5. QED
  BY <1>2, <1>3, <1>4 DEF LimitInv

LEMMA InitExact ==
  ASSUME Init, RecordsFromTheStart
  PROVE  LimitInv
<1>1. OrderInv /\ \A r \in Requests : req[r] = Idle
  BY InitOrder DEF Init
<1>2. /\ \A f \in Financings : status[f] = "OFFERED" /\ allocations[f] = 0
      /\ alone \in BOOLEAN
      /\ \A row \in Rows : limitRecord[row] =
           IF row[2] = "seed" /\ row[1] \in Seeded[alone] THEN newRecord(row[1]) ELSE NoRecord
  BY DEF Init
<1>3. \A row \in Rows : Shared(row) <=> (row[2] = "seed" /\ row[1] \in Seeded[alone])
  <2>1. \A d \in Seeded[alone] : newRecord(d) # NoRecord
    <3>1. \A d \in Seeded[alone] : newRecord(d).limit > 0
      BY <1>2, LimitAssumption DEF newRecord
    <3>2. NoRecord.limit = 0
      BY DEF NoRecord
    <3>3. QED
      BY <3>1, <3>2
  <2>2. QED
    BY <1>2, <2>1 DEF Shared
<1>4. Books
  <2>1. ASSUME NEW row \in Rows, Shared(row)
        PROVE  Sized(limitRecord[row], row[1]) /\ Balanced(limitRecord[row], row[1])
    <3>1. /\ limitRecord[row] = newRecord(row[1]) /\ row[1] \in Dimensions
          /\ ConfiguredLimit[row[1]] \in Nat /\ ConfiguredLimit[row[1]] > 0
      BY <1>2, <1>3, <2>1, LimitAssumption
    <3>2. Reserving(row[1]) = {} /\ Using(row[1]) = {}
      BY <1>2 DEF Reserving, Using, Used
    <3>3. ReservedOn(row[1]) = 0 /\ UsedOn(row[1]) = 0
      BY <3>2, TotalOfNone DEF ReservedOn, UsedOn
    <3>4. QED
      BY <3>1, <3>3 DEF newRecord, Sized, Balanced, Configured
  <2>2. QED
    BY <2>1 DEF Books
<1>5. Covered
  BY <1>2 DEF Covered, Counts, Exposed, Used
<1>6. Allocated
  BY <1>2 DEF Allocated, Used
<1>7. SeedsIn
  BY <1>2, <1>3, RecordTypes DEF SeedsIn, RecordsFromTheStart, Configured
<1>8. OneShared
  BY <1>3, RecordTypes DEF OneShared
<1>9. QED
  BY <1>1, <1>4, <1>5, <1>6, <1>7, <1>8 DEF LimitInv, Apart

LEMMA LimitStep ==
  ASSUME ConfiguredLimit[Programme] > 0, RecordsFromTheStart, LimitInv, [Next]_vars
  PROVE  LimitInv'
<1>1. OrderInv'
  BY OrderStep DEF LimitInv
<1>2. CASE UNCHANGED vars
  BY <1>1, <1>2, StutterExact
<1>3. CASE Next
  <2> SUFFICES ASSUME NEW q \in Requests,
                      \/ \E op \in Ops, f \in Financings : begin(q, op, f)
                      \/ Proceed(q) \/ rollback(q)
               PROVE  LimitInv'
    BY <1>3 DEF Next
  <2>1. CASE \E op \in Ops, f \in Financings : begin(q, op, f)
    BY <1>1, <2>1, BeginExact
  <2>2. CASE ensureConfiguredLimit(q)
    BY <1>1, <2>2, EnsureExact
  <2>3. CASE readLimit(q)
    BY <1>1, <2>3, ReadExact
  <2>4. CASE writeLimit(q)
    BY <1>1, <2>4, WriteExact
  <2>5. CASE commit(q)
    BY <1>1, <2>5, CommitExact
  <2>6. CASE limitBreached(q) \/ rollback(q)
    BY <1>1, <2>6, EndExact
  <2>7. QED
    BY <2>1, <2>2, <2>3, <2>4, <2>5, <2>6 DEF Proceed
<1>4. QED
  BY <1>2, <1>3

-----------------------------------------------------------------------------
(* What that means for the limits *)

LEMMA AmountInTotal ==
  ASSUME NEW d
  PROVE  /\ AmountIn({"ACCEPTED"}, d) = Total(Amount, {f \in Financings : onDimension(f, d) /\ status[f] \in {"ACCEPTED"}})
         /\ AmountIn({"FUNDED", "DISBURSED"}, d) =
              Total(Amount, {f \in Financings : onDimension(f, d) /\ status[f] \in {"FUNDED", "DISBURSED"}})
         /\ AmountIn(Exposed, d) = Total(Amount, {f \in Financings : onDimension(f, d) /\ status[f] \in Exposed})
  BY DEF AmountIn, Total, MapThenSumSet, MapThenFoldSet

LEMMA CoreAmounts ==
  ASSUME NEW d \in Dimensions, d \notin FunderSet
  PROVE  /\ AmountIn({"ACCEPTED"}, d) = ReservedOn(d)
         /\ AmountIn({"FUNDED", "DISBURSED"}, d) = UsedOn(d)
         /\ AmountIn(Exposed, d) = ReservedOn(d) + UsedOn(d)
<1>1. Weight(d) = Amount
  BY DEF Weight
<1>2. {f \in Financings : onDimension(f, d) /\ status[f] \in {"ACCEPTED"}} = Reserving(d)
  BY DEF Reserving
<1>3. {f \in Financings : onDimension(f, d) /\ status[f] \in {"FUNDED", "DISBURSED"}} = Using(d)
  BY DEF Using, Used
<1>4. {f \in Financings : onDimension(f, d) /\ status[f] \in Exposed} = Reserving(d) \cup Using(d)
  BY DEF Exposed, Reserving, Using, Used
<1>5. Reserving(d) \cap Using(d) = {}
  BY DEF Reserving, Using, Used
<1>6. IsFiniteSet(Reserving(d)) /\ IsFiniteSet(Using(d))
  BY BalanceTypes, SumsAreNat
<1>7. \A f \in Reserving(d) \cup Using(d) : Amount[f] \in Nat
  BY <1>1, Weights DEF Reserving, Using
<1>8. Total(Amount, Reserving(d) \cup Using(d)) = Total(Amount, Reserving(d)) + Total(Amount, Using(d))
  BY <1>5, <1>6, <1>7, TotalUnion
<1>9. QED
  BY <1>1, <1>2, <1>3, <1>4, <1>8, AmountInTotal DEF ReservedOn, UsedOn

LEMMA FunderAmount ==
  ASSUME Allocated, NEW d \in FunderSet
  PROVE  MapThenSumSet(LAMBDA f : allocated(allocations)[f],
                       {f \in Financings : status[f] \in {"FUNDED", "DISBURSED"}}) = UsedOn(d)
<1> DEFINE S == {f \in Financings : status[f] \in {"FUNDED", "DISBURSED"}}
<1>1. MapThenSumSet(LAMBDA f : allocated(allocations)[f], S) = Total(allocated(allocations), S)
  BY DEF Total, MapThenSumSet, MapThenFoldSet
<1>2. S = Using(d) /\ Weight(d) = Share
  BY DEF Using, Used, Weight
<1>3. \A f \in S : allocated(allocations)[f] = Share[f]
  BY LimitAssumption DEF Allocated, Used, allocated
<1>4. IsFiniteSet(S)
  BY LimitAssumption, FS_Subset
<1> HIDE DEF S
<1>5. Total(allocated(allocations), S) = Total(Share, S)
  BY <1>3, <1>4, TotalSame
<1>6. QED
  BY <1>1, <1>2, <1>5 DEF UsedOn, S

\* What is booked in a dimension is within its limit.
LEMMA WithinTheLimit ==
  ASSUME LimitInv, NEW d \in Dimensions, Tracked(d)
  PROVE  /\ ReservedOn(d) \in Nat /\ UsedOn(d) \in Nat
         /\ ReservedOn(d) + UsedOn(d) <= ConfiguredLimit[d]
<1>1. ReservedOn(d) \in Nat /\ UsedOn(d) \in Nat /\ ConfiguredLimit[d] \in Nat /\ Configured(d)
  BY BalanceTypes, LimitAssumption DEF Tracked
<1>2. CASE HasRecord(d)
  <2>1. PICK row \in Rows : row[1] = d /\ Shared(row)
    BY <1>2 DEF HasRecord
  <2>2. PICK l : l = limitRecord[row]
    OBVIOUS
  <2>3. l \in LimitRecord /\ Sized(l, d) /\ Balanced(l, d)
    BY <2>1, <2>2 DEF LimitInv, Books, OrderInv, TypeOK
  <2>4. /\ l.reserved \in Nat /\ l.utilised \in Nat /\ l.limit = ConfiguredLimit[d]
        /\ l.reserved = ReservedOn(d) /\ l.utilised >= UsedOn(d)
        /\ l.reserved + l.utilised <= l.limit
    BY <2>3 DEF LimitRecord, Sized, Balanced
  <2>5. QED
    BY <1>1, <2>4
<1>3. CASE ~HasRecord(d)
  BY <1>1, <1>3, NothingCounts
<1>4. QED
  BY <1>2, <1>3

LEMMA LimitInvHolds ==
  ASSUME ConfiguredLimit[Programme] > 0, LimitInv
  PROVE  LimitsHold
<1>1. \A d \in CoreDimensions : d \in Dimensions /\ d \notin FunderSet
  BY LimitAssumption DEF CoreDimensions, Dimensions, DimensionsDiffer
<1>2. ReservationsMatchStatus
  <2>1. ASSUME NEW d \in CoreDimensions, d # Programme, NEW row \in Rows, row[1] = d, Shared(row)
        PROVE  /\ limitRecord[row].reserved = ReservedOn(d)
               /\ limitRecord[row].utilised >= UsedOn(d)
    BY <2>1 DEF LimitInv, Books, Sized, Tracked, Balanced
  <2>2. QED
    BY <1>1, <2>1, CoreAmounts DEF ReservationsMatchStatus, Records, Shared
<1>3. WithinLimit
  <2> SUFFICES ASSUME NEW d \in Dimensions, d # Programme, ConfiguredLimit[d] > 0
               PROVE  IF d \in FunderSet
                      THEN MapThenSumSet(LAMBDA f : allocated(allocations)[f],
                             {f \in Financings : status[f] \in {"FUNDED", "DISBURSED"}})
                             <= ConfiguredLimit[d]
                      ELSE AmountIn(Exposed, d) <= ConfiguredLimit[d]
    BY DEF WithinLimit
  <2>1. /\ ReservedOn(d) \in Nat /\ UsedOn(d) \in Nat /\ ConfiguredLimit[d] \in Nat
        /\ ReservedOn(d) + UsedOn(d) <= ConfiguredLimit[d]
    BY WithinTheLimit, LimitAssumption DEF Tracked, Configured
  <2>2. CASE d \in FunderSet
    <3>1. UsedOn(d) <= ConfiguredLimit[d]
      BY <2>1
    <3>2. QED
      BY <2>2, <3>1, FunderAmount DEF LimitInv
  <2>3. CASE d \notin FunderSet
    BY <2>1, <2>3, CoreAmounts
  <2>4. QED
    BY <2>2, <2>3
<1>4. ProgrammeWithinLimit
  <2>1. ASSUME alone PROVE AmountIn(Exposed, Programme) <= ConfiguredLimit[Programme]
    <3>1. Programme \in Dimensions /\ Programme \notin FunderSet
      BY LimitAssumption, DimensionTypes DEF DimensionsDiffer
    <3>2. ReservedOn(Programme) + UsedOn(Programme) <= ConfiguredLimit[Programme]
      BY <2>1, <3>1, WithinTheLimit DEF Tracked, Configured
    <3>3. QED
      BY <3>1, <3>2, CoreAmounts
  <2>2. QED
    BY <2>1 DEF ProgrammeWithinLimit
<1>5. OneRecordPerDimension
  <2>1. ASSUME NEW d \in Dimensions PROVE Cardinality(Records(d)) <= 1
    <3>1. \A x, y \in Records(d) : x = y
      BY DEF LimitInv, OneShared, Shared, Records
    <3>2. CASE Records(d) = {}
      BY <3>2, FS_EmptySet
    <3>3. CASE Records(d) # {}
      <4>1. PICK x : Records(d) = {x}
        BY <3>1, <3>3
      <4>2. Cardinality({x}) = 1
        BY FS_Singleton
      <4>3. QED
        BY <4>1, <4>2
    <3>4. QED
      BY <3>2, <3>3
  <2>2. QED
    BY <2>1 DEF OneRecordPerDimension
<1>6. QED
  BY <1>2, <1>3, <1>4, <1>5 DEF LimitsHold

\* Through every mixture of transactions the records of the anchors, the suppliers
\* and the funders stay exact for what is accepted and funded, none of their limits
\* is exceeded, and the programme's is not either where no transactions overlap:
\* for any financings, requests, dimensions, amounts and limits, if the programme
\* has a limit and every configured record was created before transactions overlapped.
THEOREM LimitsAreKept ==
  ASSUME ConfiguredLimit[Programme] > 0, RecordsFromTheStart
  PROVE  Spec => []LimitsHold
<1>1. Init => LimitInv
  BY InitExact
<1>2. LimitInv /\ [Next]_vars => LimitInv'
  BY LimitStep
<1>3. LimitInv => LimitsHold
  BY LimitInvHolds
<1>4. QED
  BY <1>1, <1>2, <1>3, PTL DEF Spec
==============================================================================
