------------------------- MODULE MCPaymentSettlement -------------------------
(***************************************************************************)
(* Small instances of PaymentSettlement: one financing with the payment to  *)
(* its supplier and the payment of its buyer, linked to it or not.           *)
(***************************************************************************)
EXTENDS PaymentSettlement, TLC

CONSTANTS out, in, f1, r1, r2, w1, w2, w3

OneFinancing == [p \in Payments |-> f1]
Directions == [p \in Payments |-> IF p = in THEN "INBOUND" ELSE "OUTBOUND"]
Succeeds == [p \in Payments |-> "success"]
\* The provider leaves what the buyer pays pending.
OutwardSucceeds == [p \in Payments |-> IF p = in THEN "pending" ELSE "success"]

notification(s, sig, carried) ==
  [payment |-> out, status |-> s, signature |-> sig, reference |-> carried]

\* A success that also carries the payment reference, a return that carries the
\* provider reference only, and a success whose signature is wrong.
Mixed == [w \in Webhooks |-> CASE w = w1 -> notification("success", "secret", TRUE)
                               [] w = w2 -> notification("returned", "secret", FALSE)
                               [] w = w3 -> notification("success", "wrong", TRUE)]
\* The last one is signed with the secret, which the provider's parser reads as
\* a failure.
Signed == [w \in Webhooks |-> IF w = w3 THEN notification("success", "hmac", TRUE)
                                        ELSE Mixed[w]]

None == {}
\* Not between the answer of the provider and the update that stores it.
OutsideTheCall == Phases \ {"store"}

Symmetry == Permutations(Requests)
=============================================================================
