--------------------------- MODULE ExecutionLedger ---------------------------
(***************************************************************************)
(* What the workflow component promises about its audit trail, as seen by  *)
(* everybody but the request that writes it: an execution is not there at  *)
(* all, and then, in one step, there for ever with its final outcome.      *)
(* Workflow implements this specification.                                 *)
(***************************************************************************)
CONSTANT Executions
VARIABLE ledger

Outcome == {"completed", "failed"}

LedgerTypeOK == ledger \in [Executions -> Outcome \cup {"absent"}]

Init == ledger = [e \in Executions |-> "absent"]

Record(e, outcome) ==
  /\ ledger[e] = "absent"
  /\ ledger' = [ledger EXCEPT ![e] = outcome]

Next == \E e \in Executions, outcome \in Outcome : Record(e, outcome)

Spec == Init /\ [][Next]_ledger
=============================================================================
