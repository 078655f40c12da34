----------------------------- MODULE MCWorkflow -----------------------------
(***************************************************************************)
(* Workflow on small instances: blueprints that exercise retries, ordered  *)
(* and misordered dependencies, and both kinds of step.                    *)
(***************************************************************************)
EXTENDS Workflow

MCStep(id, type, deps, n) ==
  [ id |-> id, type |-> type, depends_on |-> deps, max_attempts |-> n ]

\* A retried service call whose result a transform then uses.
MCChain == << MCStep("a", "service", {}, 2), MCStep("b", "transform", {"a"}, 1) >>

\* Accepted by the blueprint checks, and bound to fail at its first step.
MCMisordered == << MCStep("a", "service", {"b"}, 1), MCStep("b", "transform", {}, 1) >>

\* A step that depends on itself.
MCSelf == << MCStep("a", "transform", {}, 1), MCStep("b", "service", {"b"}, 1) >>

\* Refused: the same id twice, an unknown dependency, no step at all.
MCInvalid == { << MCStep("a", "transform", {}, 1), MCStep("a", "service", {}, 1) >>,
               << MCStep("a", "transform", {"c"}, 1) >>,
               << >> }

MCStepIds == {"a", "b", "c"}
MCStepLists == {MCChain, MCMisordered, MCSelf} \cup MCInvalid
MCFaults == FaultKinds
MCServiceFault == {"service"}
=============================================================================
