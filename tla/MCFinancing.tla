----------------------------- MODULE MCFinancing -----------------------------
(***************************************************************************)
(* Small instances of Financing for TLC.                                   *)
(***************************************************************************)
EXTENDS Financing, TLC

CONSTANTS i1, i2, r1, r2, r3, f1

\* An invoice priced with a discount, so that net and gross amounts differ.
Amounts == [i \in Invoices |-> 3]
Nets    == [i \in Invoices |-> 2]

AllOps == FinancingOps \cup InvoiceOps
WorkflowOps == FinancingOps \cup {"createOfferFromInvoice"}

\* Operators mature and default disbursed financings by hand.
MaturityPatches == {<<"DISBURSED", "MATURED">>, <<"MATURED", "DEFAULTED">>}
NoPatches == {}

\* They take an invoice back or cancel it before its money is out, and mark one as
\* financed that is not.
EarlyInvoicePatches == {<<"OFFERED", "APPROVED">>, <<"FINANCEABLE", "CANCELLED">>, <<"APPROVED", "FINANCED">>}
FinancedPatches == {<<"FINANCED", "APPROVED">>}

Symmetry == Permutations(Requests) \cup Permutations(Invoices)
RequestSymmetry == Permutations(Requests)
=============================================================================
