------------------------- MODULE MCLimitReservation -------------------------
(***************************************************************************)
(* Small instances of LimitReservation: one programme, financings of equal *)
(* amount, and limits that the second or the third of them would breach.   *)
(***************************************************************************)
EXTENDS LimitReservation, TLC

CONSTANTS x, y, z, r1, r2, r3, programme, anchor, anchor2, supplier, supplier2, funder

\* x shares its buyer with y and its supplier with z.
OtherSupplier == [f \in Financings |-> IF f = y THEN supplier2 ELSE supplier]
OtherAnchor == [f \in Financings |-> IF f = z THEN anchor2 ELSE anchor]
OneFunder == <<funder>>

Amounts == [f \in Financings |-> 2]
Shares == [f \in Financings |-> 2]

\* The programme and an anchor have room for two financings, a supplier and a
\* funder for one; the other anchor has no limit.
TightLimits == [d \in Dimensions |-> CASE d = anchor2 -> 0
                                       [] d \in {programme, anchor} -> 4
                                       [] OTHER -> 2]

\* Every dimension has its record; where transactions follow one another, only
\* the programme and its funder have one, and the others come later.
AllOrSome == [sequential \in BOOLEAN |-> IF sequential THEN {programme, funder} ELSE Dimensions \ {anchor2}]

Symmetry == Permutations(Requests)
=============================================================================
