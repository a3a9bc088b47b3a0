----------------------------- MODULE MCApprovals -----------------------------
(***************************************************************************)
(* Small instances of Approvals: two approvals of a payment and one of a   *)
(* product, and three users.                                               *)
(***************************************************************************)
EXTENDS Approvals, TLC

CONSTANTS a1, a2, a3, payment, product, u1, u2, u3, r1, r2

OnPaymentAndProduct == [a \in Approvals |-> IF a = a3 THEN product ELSE payment]
Symmetry == Permutations(Calls) \cup Permutations(Users) \cup Permutations({a1, a2})
=============================================================================
