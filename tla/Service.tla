-------------------------------- MODULE Service --------------------------------
(***************************************************************************)
(* What the support services of the API have in common: requests that stop  *)
(* at every await, the other ones going on meanwhile, and a process that     *)
(* may stop under all of them.  The components extend this module; Platform  *)
(* composes them.                                                            *)
(***************************************************************************)
EXTENDS Integers, FiniteSetsExt, SequencesExt

CONSTANTS
  Requests,    \* what the process may be serving at once
  Background,  \* what it does that no request waits for
  Scopes       \* bound: the operations and faults that occur together

Processes == Requests \cup Background

None == "none"

ASSUME ServiceAssumption == IsFiniteSet(Requests)

VARIABLES
  req,         \* of each of them: where it stands, and what it has read so far
  scope        \* what occurs in this behaviour

Idle == [phase |-> "idle"]
become(r, state) == req' = [req EXCEPT ![r] = state]
at(r, phase) == req[r].phase = phase

Quiet == \A r \in Processes : req[r] = Idle
mayBegin(r, op) == op \in scope /\ req[r] = Idle /\ ("overlap" \in scope \/ Quiet)

\* The operations and faults a property does not speak of.
Without(ops) == ops \cap scope = {}

ServiceInit == req = [r \in Processes |-> Idle] /\ scope \in Scopes
===============================================================================
