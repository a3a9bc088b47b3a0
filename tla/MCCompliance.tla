----------------------------- MODULE MCCompliance -----------------------------
(***************************************************************************)
(* Small instances of Compliance: two types of screening, a company that   *)
(* is clear, matched by one of them, or fails its verification once its    *)
(* name changes.                                                           *)
(***************************************************************************)
EXTENDS Compliance

CONSTANTS r1, r2, company, owner, owner2

clean == [verify |-> "VERIFIED", match |-> "none"]
pep == [verify |-> "REFERRED", match |-> "PEP"]
sanctioned == [verify |-> "VERIFIED", match |-> "SANCTIONS"]
failing == [verify |-> "FAILED", match |-> "none"]

TwoTypes == <<"SANCTIONS", "PEP">>
OneType == <<"SANCTIONS">>
Some == {clean, pep, failing}
CleanOwners == [o \in Owners |-> clean]

\* What may happen in one behaviour.
Occurring ==
  {{"full", "screening", "review", "approve"}, {"kyb", "screening", "rename", "approve"},
   {"full", "expire", "approve", "crash"}, {"full", "screening", "approve", "rename", "overlap"},
   {"full", "kyc", "owners", "approve", "overlap"},
   {"full", "override", "status", "kybStatus", "reject", "overlap"}}
===============================================================================
