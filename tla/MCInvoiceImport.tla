--------------------------- MODULE MCInvoiceImport ---------------------------
(***************************************************************************)
(* A small instance of InvoiceImport.  The two lines of batch b1 are alike, *)
(* the other batches repeat the first of them with a reference; one         *)
(* callback carries a batch, the others an approval or a referral of i1.    *)
(***************************************************************************)
EXTENDS InvoiceImport, TLC

CONSTANTS i1, i2, i3, b1, b2, b3, e1, e2, e3, r1, r2, s1, s2, none, keep

line(i, reference) == [invoice |-> i, reference |-> reference, terms |-> 1,
                       wellFormed |-> TRUE, buyerApproved |-> TRUE]

ThreeBatches == [b \in Batches |-> IF b = b1 THEN <<line(i1, none), line(i2, none)>>
                                   ELSE <<line(i1, i1)>>]
TwoUploads == [b \in Batches |-> IF b = b3 THEN e2 ELSE "upload"]
OneSupplier == [i \in Invoices |-> s1]
Alike == {<<i1, i2>>, <<i2, i1>>}
Callbacks == [e \in Events |-> [invoice |-> i1, result |-> CASE e = e1 -> "approval"
                                                              [] e = e2 -> "invoices"
                                                              [] OTHER  -> "REFERRED"]]
RetryApproval == [e \in Events |-> IF e = e1 THEN 1 ELSE 0]
Plain == [i \in Invoices |-> [reference |-> none, terms |-> 1]]
\* A PATCH that settles, and one that gives another's key and terms.
NoPatch == [f \in {"invoice", "reference", "terms", "status", "validation", "duplicate"} |-> keep]
SomePatches == {[NoPatch EXCEPT !.status = "SETTLED", !.validation = "PASSED"],
                [NoPatch EXCEPT !.invoice = i2, !.reference = none, !.terms = 2]}
TaxResults == [i \in Invoices |-> IF i = i1 THEN "VALIDATED" ELSE "FAILED"]
\* What may happen in one behaviour: batches with failures or changes around
\* them, callbacks, and the life of one invoice.
Occurring ==
  {{"upload", "process", "cancel"}, {"upload", "process", "cancel", "crash"},
   {"upload", "process", "auditFailure"},
   {"upload", "process", "create"}, {"upload", "process", "runDuplicateCheck"},
   {e1, "retry", "create"}, {e1, "retry", "create", "crash"}, {e2, "process", "cancel"},
   {"create", "approve", "remove", "update", "confirmBuyerApproval", "finance"},
   {"create", e3, "runEInvoicingValidation", "validateInvoice"},
   {"create", e1, e3, "finance"},
   {"upload", "process", "update"}, {"upload", "process", "update", "amend"},
   {"create", "update", "amend", "runDuplicateCheck", e3}}

==============================================================================
