--------------------------- MODULE WorkflowProofs ---------------------------
(***************************************************************************)
(* Proofs about Workflow, for every set of tenants, definitions, requests, *)
(* readers and step lists, and for every combination of faults.            *)
(*                                                                         *)
(* IInv is inductive.  A request's step changes no other request's part of *)
(* the state (OtherRequest), and its own part is followed action by action.*)
(***************************************************************************)
EXTENDS Workflow, TLAPS

\* The part of IInv that is about one request: its place, its execution, the
\* attempt under way and each of its rows.
RequestInv(r) ==
  /\ ControlInv(r) /\ TrailInv(r) /\ AttemptInv(r) /\ CommitInv(r)
  /\ \A i \in Indexes : RowInv(r, i)

-----------------------------------------------------------------------------
(* Facts about plans and rows *)

\* The plan of an execution that has begun is a list of at most MaxSteps steps.
LEMMA PlanType ==
  ASSUME TypeOK, NEW r \in Requests, request[r] # Absent,
         Found(request[r].workflow, request[r].tenant)
  PROVE  /\ Plan(r) \in Seq(Steps) /\ Len(Plan(r)) \in Nat /\ Len(Plan(r)) <= MaxSteps
         /\ DOMAIN Plan(r) = 1..Len(Plan(r)) /\ DOMAIN Plan(r) \subseteq Indexes
         /\ \A i \in DOMAIN Plan(r) : Plan(r)[i] \in Steps
<1>1. request[r] \in TriggerSet /\ Found(request[r].workflow, request[r].tenant)
  BY DEF TypeOK
<1>2. defs[request[r].workflow] \in DefinitionSet
  BY <1>1 DEF TypeOK, TriggerSet, Found
<1>3. Plan(r) \in StepLists
  BY <1>2 DEF DefinitionSet, Plan
<1>4. Plan(r) \in Seq(Steps) /\ Len(Plan(r)) <= MaxSteps
  BY <1>3, StepListsAssumption
<1> QED
  BY <1>4, MaxStepsAssumption DEF Indexes

\* The row of the step under way, and the step itself.
LEMMA CurrentType ==
  ASSUME TypeOK, NEW r \in Requests, ControlInv(r), TrailInv(r), pc[r] \in InStep
  PROVE  /\ status[r] = "running"
         /\ index[r] \in 1..Len(Plan(r)) /\ index[r] \in Indexes
         /\ Plan(r)[index[r]] \in Steps
         /\ Current(r) \in RowSet /\ Current(r).status = "running"
<1>1. status[r] = "running" /\ index[r] \in DOMAIN Plan(r) /\ Current(r).status = "running"
  BY DEF ControlInv, TrailInv, InStep
<1>2. index[r] \in Indexes /\ Plan(r)[index[r]] \in Steps /\ index[r] \in 1..Len(Plan(r))
  BY <1>1, PlanType DEF ControlInv
<1>3. Current(r) \in RowSet
  BY <1>2 DEF TypeOK, Current
<1> QED
  BY <1>1, <1>2, <1>3

-----------------------------------------------------------------------------
(* Frame *)

\* What RequestInv says of a request depends on that request's part of the
\* state, and on the owner and the steps of its definition.
LEMMA OtherRequest ==
  ASSUME TypeOK, NEW q \in Requests, RequestInv(q),
         pc'[q] = pc[q], request'[q] = request[q], status'[q] = status[q],
         index'[q] = index[q], rows'[q] = rows[q], last_error'[q] = last_error[q],
         output'[q] = output[q], response'[q] = response[q],
         committed'[q] = committed[q],
         status[q] # "none" =>
           /\ defs'[request[q].workflow] # Absent
           /\ defs'[request[q].workflow].tenant = defs[request[q].workflow].tenant
           /\ defs'[request[q].workflow].steps = defs[request[q].workflow].steps
  PROVE  RequestInv(q)'
<1>1. ControlInv(q)'
  BY DEF RequestInv, ControlInv, Found
<1>2. CASE status[q] = "none"
  <2>1. TrailInv(q)'
    BY <1>2 DEF RequestInv, ControlInv, TrailInv, Ended, InStep
  <2>2. AttemptInv(q)'
    BY <1>2 DEF RequestInv, ControlInv, AttemptInv, InStep
  <2>3. CommitInv(q)'
    BY DEF RequestInv, CommitInv
  <2>4. rows'[q] = NoRows
    BY <1>2 DEF RequestInv, TrailInv
  <2>5. \A i \in Indexes : RowInv(q, i)'
    BY <2>4 DEF RowInv, RanAfterDependencies, TruthfulRow, NoRows, NoRow
  <2> QED BY <1>1, <2>1, <2>2, <2>3, <2>5 DEF RequestInv
<1>3. CASE status[q] # "none"
  <2>1. Plan(q)' = Plan(q) /\ DependenciesMet(q)' = DependenciesMet(q)
    BY <1>3 DEF Plan, DependenciesMet, CompletedIds
  <2>2. TrailInv(q)'
    BY <2>1 DEF RequestInv, TrailInv, Current
  <2>3. AttemptInv(q)'
    BY <2>1 DEF RequestInv, AttemptInv, Current
  <2>4. CommitInv(q)'
    BY DEF RequestInv, CommitInv
  <2>5. \A i \in Indexes : RowInv(q, i)'
    BY <2>1 DEF RequestInv, RowInv, RanAfterDependencies
  <2> QED BY <1>1, <2>2, <2>3, <2>4, <2>5 DEF RequestInv
<1> QED BY <1>2, <1>3

\* A view stays right while what is committed stays.
LEMMA ViewKept ==
  ASSUME TypeOK, NEW g \in Readers, ViewInv(g), view'[g] = view[g],
         \A q \in Requests : committed[q] # Absent =>
           committed'[q] = committed[q] /\ request'[q] = request[q]
  PROVE  ViewInv(g)'
<1>1. CASE view[g].execution = Absent
  BY <1>1 DEF ViewInv
<1>2. CASE view[g].execution # Absent
  <2>1. view[g].execution \in Requests
    BY <1>2 DEF TypeOK, ViewSet
  <2> QED BY <1>2, <2>1 DEF ViewInv
<1> QED BY <1>1, <1>2

\* The rows are untouched: so is what is said of each.
LEMMA RowsKept ==
  ASSUME NEW r \in Requests, \A i \in Indexes : RowInv(r, i),
         defs' = defs, request' = request, rows' = rows
  PROVE  \A i \in Indexes : RowInv(r, i)'
BY DEF RowInv, RanAfterDependencies, Plan

-----------------------------------------------------------------------------
(* The request's own steps that leave the rows alone *)

LEMMA ReceiveStep ==
  ASSUME TypeOK, NEW r \in Requests, RequestInv(r),
         NEW w \in WorkflowIds, NEW t \in Tenants, NEW permitted \in BOOLEAN,
         Receive(r, w, t, permitted)
  PROVE  TypeOK' /\ RequestInv(r)'
<1>1. TypeOK'
  <2>1. pc' \in [Requests -> InFlight \cup {"idle", "done"}]
    BY DEF TypeOK, Receive, Goto, InFlight
  <2>2. /\ request' \in [Requests -> TriggerSet \cup {Absent}]
        /\ response' \in [Requests -> {"none", "400", "403", "404", "500", "completed", "failed"}]
    BY DEF TypeOK, Receive, TriggerSet
  <2> QED BY <2>1, <2>2 DEF TypeOK, Receive
<1>2. [workflow |-> w, tenant |-> t] # Absent
  BY AbsentAssumption DEF TriggerSet
<1>3. status[r] = "none" /\ pc'[r] \in {"fetch", "rollback"} /\ request'[r] # Absent
  BY <1>2 DEF TypeOK, RequestInv, ControlInv, Receive, Goto
<1>4. rows[r] = NoRows /\ rows' = rows /\ committed[r] = Absent /\ committed' = committed
  BY <1>3 DEF RequestInv, TrailInv, CommitInv, Receive
<1>5. ControlInv(r)' /\ TrailInv(r)' /\ AttemptInv(r)' /\ CommitInv(r)'
  BY <1>3, <1>4 DEF Receive, ControlInv, TrailInv, AttemptInv, CommitInv, InStep, Ended,
                    Ending
<1>6. \A i \in Indexes : RowInv(r, i)'
  BY <1>4 DEF RowInv, RanAfterDependencies, TruthfulRow, NoRows, NoRow
<1> QED BY <1>1, <1>5, <1>6 DEF RequestInv

\* Refuse, StatementRaises, CommitFails, Rollback and ProcessDies abandon the
\* execution: nothing but the label, the session and the answer changes.
LEMMA AbandonStep ==
  ASSUME TypeOK, NEW r \in Requests, RequestInv(r),
         \/ Refuse(r) \/ StatementRaises(r) \/ CommitFails(r)
         \/ Rollback(r) \/ ProcessDies(r)
  PROVE  TypeOK' /\ RequestInv(r)'
<1>1. /\ UNCHANGED <<defs, committed, request, status, index, rows, last_error, output, view>>
      /\ pc[r] \in InFlight /\ pc' = [pc EXCEPT ![r] = pc'[r]] /\ pc'[r] \in {"rollback", "done"}
  BY DEF Refuse, StatementRaises, CommitFails, Rollback, ProcessDies, AtStatement, Goto,
         InFlight, TypeOK
<1>2. TypeOK'
  <2>1. session' \in [Requests -> {"active", "invalid"}]
    BY DEF TypeOK, Refuse, StatementRaises, CommitFails, Rollback, ProcessDies
  <2>2. response' \in [Requests -> {"none", "400", "403", "404", "500", "completed", "failed"}]
    BY DEF TypeOK, Refuse, StatementRaises, CommitFails, Rollback, ProcessDies
  <2>3. pc' \in [Requests -> InFlight \cup {"idle", "done"}]
    BY <1>1 DEF TypeOK, InFlight
  <2> QED BY <1>1, <2>1, <2>2, <2>3 DEF TypeOK
<1>3. committed[r] = Absent
  BY <1>1 DEF RequestInv, CommitInv, InFlight
<1>4. Plan(r)' = Plan(r) /\ DependenciesMet(r)' = DependenciesMet(r)
  BY <1>1 DEF Plan, DependenciesMet, CompletedIds
<1>5. ControlInv(r)'
  BY <1>1 DEF RequestInv, ControlInv, Found, InFlight, InStep, Ending
<1>6. TrailInv(r)'
  BY <1>1, <1>4 DEF RequestInv, TrailInv, InStep, Current
<1>7. AttemptInv(r)' /\ CommitInv(r)'
  BY <1>1, <1>3 DEF AttemptInv, CommitInv, InStep
<1>8. \A i \in Indexes : RowInv(r, i)'
  BY <1>1, RowsKept DEF RequestInv
<1> QED BY <1>2, <1>5, <1>6, <1>7, <1>8 DEF RequestInv

\* TriggerExecution and StartExecution open the execution.
LEMMA OpenStep ==
  ASSUME TypeOK, NEW r \in Requests, RequestInv(r),
         TriggerExecution(r) \/ StartExecution(r)
  PROVE  TypeOK' /\ RequestInv(r)'
<1>1. /\ UNCHANGED <<defs, committed, request, session, rows, last_error, output,
                     response, view>>
      /\ pc[r] \in {"fetch", "start"} /\ status[r] \in {"none", "pending"}
      /\ request[r] \in TriggerSet /\ Found(request[r].workflow, request[r].tenant)
  BY DEF TriggerExecution, StartExecution, RequestInv, ControlInv, TypeOK
<1>2. /\ pc' = [pc EXCEPT ![r] = pc'[r]] /\ status' = [status EXCEPT ![r] = status'[r]]
      /\ \/ pc'[r] = "start" /\ status'[r] = "pending" /\ index' = index
         \/ pc'[r] = "loop" /\ status'[r] = "running" /\ index' = [index EXCEPT ![r] = 1]
  BY DEF TriggerExecution, StartExecution, Goto, TypeOK
<1>3. TypeOK'
  <2>1. pc' \in [Requests -> InFlight \cup {"idle", "done"}]
    BY <1>2 DEF TypeOK, InFlight
  <2>2. index' \in [Requests -> 0..(MaxSteps + 1)]
    <3>1. 1 \in 0..(MaxSteps + 1)
      BY MaxStepsAssumption
    <3>2. index \in [Requests -> 0..(MaxSteps + 1)]
      BY DEF TypeOK
    <3> QED BY <1>2, <3>1, <3>2
  <2>3. status' \in [Requests -> {"none", "pending", "running", "completed", "failed"}]
    BY <1>2 DEF TypeOK
  <2> QED BY <1>1, <2>1, <2>2, <2>3 DEF TypeOK
<1>4. rows[r] = NoRows /\ committed[r] = Absent
  BY <1>1 DEF RequestInv, TrailInv, CommitInv
<1>5. request[r] # Absent
  BY <1>1, AbsentAssumption
<1>6. ControlInv(r)'
  BY <1>1, <1>2, <1>5 DEF ControlInv, Found, InStep, Ending, TypeOK
<1>7. Len(Plan(r)') \in Nat
  <2>1. Len(Plan(r)) \in Nat
    BY <1>1, <1>5, PlanType
  <2>2. Plan(r)' = Plan(r)
    BY <1>1 DEF Plan
  <2> QED BY <2>1, <2>2
<1>8. TrailInv(r)'
  <2>1. rows'[r] = NoRows /\ \A i \in Indexes : rows'[r][i] = NoRow
    BY <1>1, <1>4 DEF NoRows
  <2>2. CASE pc'[r] = "start" /\ status'[r] = "pending"
    BY <2>1, <2>2 DEF TrailInv, InStep, Ended
  <2>3. CASE pc'[r] = "loop" /\ status'[r] = "running" /\ index' = [index EXCEPT ![r] = 1]
    <3>1. index'[r] = 1 /\ 1 \in 1..(Len(Plan(r)') + 1)
      BY <1>7, <2>3 DEF TypeOK
    <3>2. ~StepCompleted(NoRow)
      BY DEF StepCompleted, NoRow
    <3>3. \A i \in Indexes : ~(i < 1)
      BY DEF Indexes
    <3> QED BY <2>1, <2>3, <3>1, <3>2, <3>3 DEF TrailInv, InStep, Ended, Current
  <2> QED BY <1>2, <2>2, <2>3
<1>9. AttemptInv(r)' /\ CommitInv(r)'
  BY <1>1, <1>2, <1>4 DEF AttemptInv, CommitInv, InStep
<1>10. \A i \in Indexes : RowInv(r, i)'
  BY <1>1, RowsKept DEF RequestInv
<1> QED BY <1>3, <1>6, <1>8, <1>9, <1>10 DEF RequestInv

\* FinishExecution, Respond and Commit publish an execution that has ended.
LEMMA PublishStep ==
  ASSUME TypeOK, NEW r \in Requests, RequestInv(r),
         FinishExecution(r) \/ Respond(r) \/ Commit(r)
  PROVE  TypeOK' /\ RequestInv(r)'
<1>1. /\ UNCHANGED <<defs, request, session, status, index, rows, last_error, output, view>>
      /\ pc[r] \in Ending /\ status[r] \in Ended
  BY DEF FinishExecution, Respond, Commit, Ending, RequestInv, ControlInv
<1>2. /\ pc' = [pc EXCEPT ![r] = pc'[r]] /\ pc'[r] \in {"respond", "commit", "done"}
      /\ \/ response' = response \/ response' = [response EXCEPT ![r] = status[r]]
      /\ pc'[r] = "commit" => response'[r] = status[r]
      /\ \/ committed' = committed
         \/ /\ committed' = [committed EXCEPT ![r] = [status |-> status[r], rows |-> rows[r]]]
            /\ pc'[r] = "done" /\ pc[r] = "commit" /\ response' = response
  BY DEF FinishExecution, Respond, Commit, Goto, TypeOK
<1>3. [status |-> status[r], rows |-> rows[r]] \in ExecutionSet
  BY <1>1 DEF TypeOK, ExecutionSet, Ended
<1>4. TypeOK'
  <2>1. pc' \in [Requests -> InFlight \cup {"idle", "done"}]
    BY <1>2 DEF TypeOK, InFlight
  <2>2. response' \in [Requests -> {"none", "400", "403", "404", "500", "completed", "failed"}]
    BY <1>1, <1>2 DEF TypeOK, Ended
  <2>3. committed' \in [Requests -> ExecutionSet \cup {Absent}]
    BY <1>2, <1>3 DEF TypeOK
  <2> QED BY <1>1, <2>1, <2>2, <2>3 DEF TypeOK
<1>5. committed[r] = Absent
  BY <1>1 DEF RequestInv, CommitInv, Ending
<1>6. Plan(r)' = Plan(r) /\ DependenciesMet(r)' = DependenciesMet(r)
  BY <1>1 DEF Plan, DependenciesMet, CompletedIds
<1>7. ControlInv(r)'
  BY <1>1, <1>2 DEF RequestInv, ControlInv, Found, InStep, Ending, Ended
<1>8. TrailInv(r)'
  BY <1>1, <1>2, <1>6 DEF RequestInv, TrailInv, InStep, Current
<1>9. AttemptInv(r)'
  BY <1>2 DEF AttemptInv, InStep
<1>10. CommitInv(r)'
  BY <1>1, <1>2, <1>5 DEF RequestInv, ControlInv, CommitInv, TypeOK
<1>11. \A i \in Indexes : RowInv(r, i)'
  BY <1>1, RowsKept DEF RequestInv
<1> QED BY <1>4, <1>7, <1>8, <1>9, <1>10, <1>11 DEF RequestInv

\* CompleteExecution and DependencyUnmet leave the engine's loop.
LEMMA LeaveStep ==
  ASSUME TypeOK, NEW r \in Requests, RequestInv(r),
         CompleteExecution(r) \/ DependencyUnmet(r)
  PROVE  TypeOK' /\ RequestInv(r)'
<1>1. /\ UNCHANGED <<defs, committed, request, session, index, rows, last_error, output,
                     response, view>>
      /\ pc[r] = "loop" /\ status[r] = "running"
      /\ pc' = [pc EXCEPT ![r] = "finish"]
      /\ \/ /\ status' = [status EXCEPT ![r] = "completed"]
            /\ index[r] \notin DOMAIN Plan(r)
         \/ /\ status' = [status EXCEPT ![r] = "failed"]
            /\ index[r] \in DOMAIN Plan(r) /\ ~DependenciesMet(r)
  BY DEF CompleteExecution, DependencyUnmet, Goto, RequestInv, ControlInv, InStep
<1>2. TypeOK'
  <2>1. pc' \in [Requests -> InFlight \cup {"idle", "done"}]
    BY <1>1 DEF TypeOK, InFlight
  <2>2. status' \in [Requests -> {"none", "pending", "running", "completed", "failed"}]
    BY <1>1 DEF TypeOK
  <2> QED BY <1>1, <2>1, <2>2 DEF TypeOK
<1>3. pc'[r] = "finish" /\ status'[r] \in Ended
  BY <1>1 DEF TypeOK, Ended
<1>4. Plan(r)' = Plan(r) /\ DependenciesMet(r)' = DependenciesMet(r)
  BY <1>1 DEF Plan, DependenciesMet, CompletedIds
<1>5. ControlInv(r)'
  BY <1>1, <1>3 DEF RequestInv, ControlInv, Found, InStep, Ending, Ended
<1>6. /\ request[r] # Absent /\ Found(request[r].workflow, request[r].tenant)
  BY <1>1 DEF RequestInv, ControlInv
<1>7. TrailInv(r)'
  <2>1. /\ index[r] \in 1..(Len(Plan(r)) + 1)
        /\ \A i \in Indexes : i < index[r] => StepCompleted(rows[r][i])
        /\ \A i \in Indexes : i > index[r] => rows[r][i] = NoRow
        /\ index[r] \in Indexes => Current(r) = NoRow
        /\ index[r] \in Indexes => ~StepCompleted(Current(r))
    BY <1>1 DEF RequestInv, TrailInv, Ended
  <2>2. DOMAIN Plan(r) = 1..Len(Plan(r)) /\ DOMAIN Plan(r) \subseteq Indexes
        /\ Len(Plan(r)) \in Nat
    BY <1>6, PlanType
  <2>3. CASE status' = [status EXCEPT ![r] = "completed"] /\ index[r] \notin DOMAIN Plan(r)
    <3>1. index[r] = Len(Plan(r)) + 1
      BY <2>1, <2>2, <2>3
    <3>2. status'[r] = "completed"
      BY <2>3 DEF TypeOK
    <3> QED BY <1>1, <1>3, <1>4, <2>1, <3>1, <3>2 DEF TrailInv, InStep, Current
  <2>4. CASE /\ status' = [status EXCEPT ![r] = "failed"]
             /\ index[r] \in DOMAIN Plan(r) /\ ~DependenciesMet(r)
    <3>1. status'[r] = "failed"
      BY <2>4 DEF TypeOK
    <3> QED BY <1>1, <1>3, <1>4, <2>1, <2>2, <2>4, <3>1 DEF TrailInv, InStep, Current
  <2> QED BY <1>1, <2>3, <2>4
<1>8. AttemptInv(r)' /\ CommitInv(r)'
  BY <1>1, <1>3 DEF RequestInv, AttemptInv, CommitInv, InStep
<1>9. \A i \in Indexes : RowInv(r, i)'
  BY <1>1, RowsKept DEF RequestInv
<1> QED BY <1>2, <1>5, <1>7, <1>8, <1>9 DEF RequestInv

-----------------------------------------------------------------------------
(* The steps that write the row of the step under way *)

\* Writing the engine's own row, never one that has completed, leaves what is
\* said of the others: nobody depends on a step that has not completed.
LEMMA OtherRowsKept ==
  ASSUME TypeOK, NEW r \in Requests, RequestInv(r), pc[r] \in InStep \cup {"loop"},
         index[r] \in DOMAIN Plan(r), UNCHANGED <<defs, request>>,
         NEW row \in RowSet, rows' = [rows EXCEPT ![r][index[r]] = row]
  PROVE  /\ rows' \in [Requests -> [Indexes -> RowSet]]
         /\ index[r] \in Indexes /\ index[r] <= Len(Plan(r)) /\ Len(Plan(r)) \in Nat
         /\ rows'[r][index[r]] = row
         /\ \A i \in Indexes : i # index[r] => rows'[r][i] = rows[r][i] /\ RowInv(r, i)'
         /\ Plan(r)' = Plan(r)
         /\ \A i \in Indexes : i < index[r] => StepCompleted(rows[r][i])
         /\ \A i \in Indexes : i > index[r] => rows[r][i] = NoRow
         /\ \A d \in Plan(r)[index[r]].depends_on :
              (\E j \in 1..(index[r] - 1) : Plan(r)[j].id = d /\ StepCompleted(rows[r][j]))
              => \E j \in 1..(index[r] - 1) :
                   Plan(r)'[j].id = d /\ StepCompleted(rows'[r][j])
<1>1. status[r] = "running"
  BY DEF RequestInv, ControlInv
<1>2. request[r] # Absent /\ Found(request[r].workflow, request[r].tenant)
  BY <1>1 DEF RequestInv, ControlInv
<1>3. /\ index[r] \in Indexes /\ index[r] \in 1..Len(Plan(r)) /\ Len(Plan(r)) \in Nat
  BY <1>2, PlanType
<1>4. Plan(r)' = Plan(r)
  BY DEF Plan
<1>5. /\ rows[r] \in [Indexes -> RowSet]
      /\ rows'[r] = [rows[r] EXCEPT ![index[r]] = row]
      /\ rows' \in [Requests -> [Indexes -> RowSet]]
  BY <1>3 DEF TypeOK
<1>6. /\ rows'[r][index[r]] = row
      /\ \A i \in Indexes : i # index[r] => rows'[r][i] = rows[r][i]
  BY <1>3, <1>5
<1>7. /\ \A i \in Indexes : i < index[r] => StepCompleted(rows[r][i])
      /\ \A i \in Indexes : i > index[r] => rows[r][i] = NoRow
      /\ ~StepCompleted(rows[r][index[r]])
  BY <1>1, <1>3 DEF RequestInv, TrailInv, Current
<1>8. \A i \in Indexes : \A j \in 1..(i - 1) : j \in Indexes
  BY MaxStepsAssumption DEF Indexes
<1>9. ASSUME NEW i \in Indexes, i # index[r]
      PROVE  RowInv(r, i)'
  <2>1. RowInv(r, i) /\ rows'[r][i] = rows[r][i]
    BY <1>6, <1>9 DEF RequestInv
  <2>2. \A j \in 1..(i - 1) : StepCompleted(rows[r][j]) => StepCompleted(rows'[r][j])
    BY <1>6, <1>7, <1>8
  <2>3. RanAfterDependencies(r, i)'
    BY <1>4, <2>1, <2>2 DEF RowInv, RanAfterDependencies
  <2> QED BY <1>4, <2>1, <2>3 DEF RowInv
<1>10. \A j \in 1..(index[r] - 1) :
         StepCompleted(rows[r][j]) => StepCompleted(rows'[r][j])
  BY <1>3, <1>6, <1>7, <1>8
<1> QED BY <1>3, <1>4, <1>5, <1>6, <1>7, <1>9, <1>10

LEMMA BeginStepStep ==
  ASSUME TypeOK, NEW r \in Requests, RequestInv(r), BeginStep(r)
  PROVE  TypeOK' /\ RequestInv(r)'
<1> DEFINE row == [status |-> "running", attempt |-> 1, outcome |-> "none"]
           n == index[r]
<1>1. /\ UNCHANGED <<defs, committed, request, session, status, index, response, view>>
      /\ pc[r] = "loop" /\ n \in DOMAIN Plan(r) /\ DependenciesMet(r)
      /\ pc' = [pc EXCEPT ![r] = "attempt"]
      /\ rows' = [rows EXCEPT ![r][n] = row]
      /\ last_error' = [last_error EXCEPT ![r] = FALSE]
      /\ output' = [output EXCEPT ![r] = "none"]
  BY DEF BeginStep, Goto
<1>2. row \in RowSet
  BY DEF RowSet, Outcomes
<1>3. /\ rows' \in [Requests -> [Indexes -> RowSet]]
      /\ n \in Indexes /\ n <= Len(Plan(r)) /\ Len(Plan(r)) \in Nat
      /\ rows'[r][n] = row /\ Plan(r)' = Plan(r)
      /\ \A i \in Indexes : i # n => rows'[r][i] = rows[r][i] /\ RowInv(r, i)'
      /\ \A i \in Indexes : i < n => StepCompleted(rows[r][i])
      /\ \A i \in Indexes : i > n => rows[r][i] = NoRow
      /\ \A d \in Plan(r)[n].depends_on :
           (\E j \in 1..(n - 1) : Plan(r)[j].id = d /\ StepCompleted(rows[r][j]))
           => \E j \in 1..(n - 1) : Plan(r)'[j].id = d /\ StepCompleted(rows'[r][j])
  BY <1>1, <1>2, OtherRowsKept
<1>4. status[r] = "running" /\ pc'[r] = "attempt" /\ committed[r] = Absent
  BY <1>1 DEF RequestInv, ControlInv, CommitInv, TypeOK
<1>5. TypeOK'
  <2>1. pc' \in [Requests -> InFlight \cup {"idle", "done"}]
    BY <1>1 DEF TypeOK, InFlight
  <2>2. last_error' \in [Requests -> BOOLEAN] /\ output' \in [Requests -> {"none", "value", "empty"}]
    BY <1>1 DEF TypeOK
  <2> QED BY <1>1, <1>3, <2>1, <2>2 DEF TypeOK
<1>6. ControlInv(r)'
  BY <1>1, <1>4 DEF RequestInv, ControlInv, Found, InStep, Ending
<1>7. /\ request[r] # Absent /\ Found(request[r].workflow, request[r].tenant)
  BY <1>4 DEF RequestInv, ControlInv
<1>8. DOMAIN Plan(r) = 1..Len(Plan(r)) /\ DOMAIN Plan(r) \subseteq Indexes
      /\ Plan(r)[n] \in Steps
  BY <1>1, <1>7, PlanType
<1>9. TrailInv(r)'
  BY <1>1, <1>3, <1>4, <1>8 DEF TrailInv, InStep, Ended, Current, StepCompleted
<1>10. AttemptInv(r)'
  <2>1. 1 \in 1..Plan(r)[n].max_attempts
    BY <1>8 DEF Steps
  <2>2. last_error'[r] = FALSE /\ output'[r] = "none"
    BY <1>1 DEF TypeOK
  <2> QED BY <1>1, <1>3, <1>4, <2>1, <2>2 DEF AttemptInv, Current
<1>11. CommitInv(r)'
  BY <1>1, <1>4 DEF CommitInv
<1>12. RowInv(r, n)'
  <2>1. ASSUME NEW d \in Plan(r)[n].depends_on
        PROVE  \E j \in 1..(n - 1) : Plan(r)[j].id = d /\ StepCompleted(rows[r][j])
    <3>1. PICK j \in DOMAIN Plan(r) : Plan(r)[j].id = d /\ rows[r][j].status = "completed"
      BY <1>1 DEF DependenciesMet, CompletedIds
    <3>2. ~StepCompleted(rows[r][n]) /\ ~StepCompleted(NoRow)
      BY <1>1, <1>3 DEF RequestInv, TrailInv, Current, NoRow, StepCompleted
    <3>3. j \in Indexes /\ j # n /\ ~(j > n)
      <4>1. j \in Indexes /\ StepCompleted(rows[r][j])
        BY <1>8, <3>1 DEF StepCompleted
      <4>2. j # n
        BY <3>2, <4>1
      <4>3. j > n => rows[r][j] = NoRow
        BY <1>3, <4>1
      <4> QED BY <3>2, <4>1, <4>2, <4>3
    <3>4. j \in 1..(n - 1)
      BY <1>3, <3>3, MaxStepsAssumption DEF Indexes
    <3> QED BY <3>1, <3>4 DEF StepCompleted
  <2>2. RanAfterDependencies(r, n)'
    BY <1>1, <1>3, <2>1 DEF RanAfterDependencies
  <2>3. 1 \in 1..Plan(r)[n].max_attempts
    BY <1>8 DEF Steps
  <2> QED BY <1>1, <1>3, <2>2, <2>3 DEF RowInv, TruthfulRow, WithinPolicy
<1>13. \A i \in Indexes : RowInv(r, i)'
  BY <1>1, <1>3, <1>12
<1> QED BY <1>5, <1>6, <1>9, <1>10, <1>11, <1>13 DEF RequestInv

\* The row under way stays within its policy and its dependencies while it is
\* rewritten, as long as the new row is truthful and keeps to the policy.
LEMMA OwnRowKept ==
  ASSUME TypeOK, NEW r \in Requests, RequestInv(r), pc[r] \in InStep,
         UNCHANGED <<defs, request>>,
         NEW row \in RowSet, rows' = [rows EXCEPT ![r][index[r]] = row],
         TruthfulRow(row), WithinPolicy(row, Plan(r)[index[r]])
  PROVE  \A i \in Indexes : RowInv(r, i)'
<1>1. index[r] \in DOMAIN Plan(r) /\ index[r] \in Indexes /\ Current(r).status = "running"
  BY CurrentType DEF RequestInv, TrailInv
<1>2. /\ rows'[r][index[r]] = row
      /\ \A i \in Indexes : i # index[r] => RowInv(r, i)'
      /\ Plan(r)' = Plan(r)
      /\ \A d \in Plan(r)[index[r]].depends_on :
           (\E j \in 1..(index[r] - 1) : Plan(r)[j].id = d /\ StepCompleted(rows[r][j]))
           => \E j \in 1..(index[r] - 1) : Plan(r)'[j].id = d /\ StepCompleted(rows'[r][j])
  BY <1>1, OtherRowsKept
<1>3. RanAfterDependencies(r, index[r]) /\ rows[r][index[r]].status # "none"
  BY <1>1 DEF RequestInv, RowInv, Current
<1>4. \A i \in Indexes : i = index[r] => RanAfterDependencies(r, i)'
  BY <1>2, <1>3 DEF RanAfterDependencies
<1>5. \A i \in Indexes : i = index[r] => RowInv(r, i)'
  BY <1>2, <1>4 DEF RowInv
<1> QED BY <1>2, <1>5

LEMMA AttemptStepStep ==
  ASSUME TypeOK, NEW r \in Requests, RequestInv(r),
         NEW outcome \in Outcomes, AttemptStep(r, outcome)
  PROVE  TypeOK' /\ RequestInv(r)'
<1> DEFINE n == index[r]
           step == Plan(r)[n]
           row == [Current(r) EXCEPT !.outcome = outcome]
<1>1. /\ UNCHANGED <<defs, committed, request, status, index, response, view>>
      /\ pc[r] = "attempt" /\ pc[r] \in InStep /\ outcome \in OutcomesOf(step.type)
      /\ \/ session' = session \/ session' = [session EXCEPT ![r] = "invalid"]
      /\ rows' = [rows EXCEPT ![r][n] = row]
      /\ last_error' = [last_error EXCEPT ![r] = @ \/ outcome = "transient"]
      /\ output' = [output EXCEPT ![r] = IF outcome \in {"value", "empty"}
                                         THEN outcome ELSE @]
  BY DEF AttemptStep, Current, InStep
<1>2. pc' = [pc EXCEPT ![r] = CASE outcome = "step_error" -> "step_failed"
                                [] outcome = "transient" /\ AttemptLeft(Current(r), step)
                                     -> "backoff"
                                [] OTHER -> "record"]
  BY DEF AttemptStep, Goto, Current
<1>3. /\ status[r] = "running" /\ n \in 1..Len(Plan(r)) /\ n \in Indexes
      /\ step \in Steps /\ Current(r) \in RowSet /\ Current(r).status = "running"
  BY <1>1, CurrentType DEF RequestInv
<1>4. /\ row \in RowSet /\ row.status = "running" /\ row.outcome = outcome
      /\ row.attempt = Current(r).attempt
  BY <1>3 DEF RowSet
<1>5. /\ Current(r).attempt \in 1..step.max_attempts /\ output[r] = "none"
      /\ last_error[r] => step.type = "service"
  BY <1>1 DEF RequestInv, AttemptInv
<1>6. n \in DOMAIN Plan(r)
  BY <1>1 DEF RequestInv, TrailInv
<1>7. /\ rows' \in [Requests -> [Indexes -> RowSet]]
      /\ Len(Plan(r)) \in Nat
      /\ rows'[r][n] = row /\ Plan(r)' = Plan(r)
      /\ \A i \in Indexes : i # n => rows'[r][i] = rows[r][i]
      /\ \A i \in Indexes : i < n => StepCompleted(rows[r][i])
      /\ \A i \in Indexes : i > n => rows[r][i] = NoRow
  BY <1>1, <1>4, <1>6, OtherRowsKept
<1>8. \A i \in Indexes : RowInv(r, i)'
  <2>1. TruthfulRow(row) /\ WithinPolicy(row, step)
    BY <1>4, <1>5 DEF TruthfulRow, WithinPolicy
  <2> QED BY <1>1, <1>4, <2>1, OwnRowKept
<1>9. pc'[r] \in InStep \ {"attempt"}
  BY <1>2 DEF InStep, TypeOK
<1>10. TypeOK'
  <2>1. pc' \in [Requests -> InFlight \cup {"idle", "done"}]
    BY <1>2 DEF TypeOK, InFlight
  <2>2. session' \in [Requests -> {"active", "invalid"}]
    BY <1>1 DEF TypeOK
  <2>3. last_error' \in [Requests -> BOOLEAN]
    BY <1>1 DEF TypeOK
  <2>4. output' \in [Requests -> {"none", "value", "empty"}]
    BY <1>1 DEF TypeOK
  <2> QED BY <1>1, <1>7, <2>1, <2>2, <2>3, <2>4 DEF TypeOK
<1>11. ControlInv(r)'
  BY <1>1, <1>3, <1>9 DEF RequestInv, ControlInv, Found, InStep, Ending
<1>12. TrailInv(r)'
  BY <1>1, <1>3, <1>4, <1>6, <1>7, <1>9
  DEF TrailInv, InStep, Ended, Current, StepCompleted
<1>13. AttemptInv(r)'
  <2>1. /\ last_error'[r] => step.type = "service"
        /\ outcome = "transient" => last_error'[r] /\ output'[r] = "none"
        /\ outcome \in {"value", "empty"} => output'[r] = outcome
        /\ outcome = "step_error" => output'[r] = "none"
    <3>1. last_error'[r] = (last_error[r] \/ outcome = "transient")
      BY <1>1 DEF TypeOK
    <3>2. outcome = "transient" => step.type = "service"
      BY <1>1, <1>3 DEF OutcomesOf, Steps, StepTypes
    <3>3. output'[r] = IF outcome \in {"value", "empty"} THEN outcome ELSE "none"
      BY <1>1, <1>5 DEF TypeOK
    <3> QED BY <1>5, <3>1, <3>2, <3>3
  <2>2. /\ pc'[r] = "step_failed" => outcome = "step_error"
        /\ pc'[r] = "backoff" => outcome = "transient" /\ AttemptLeft(Current(r), step)
        /\ pc'[r] = "record" =>
             outcome # "step_error" /\ ~(outcome = "transient" /\ AttemptLeft(Current(r), step))
    BY <1>2 DEF TypeOK
  <2>3. AttemptLeft(row, step) = AttemptLeft(Current(r), step)
    BY <1>4 DEF AttemptLeft
  <2>4. ~AttemptLeft(row, step) => row.attempt = step.max_attempts
    BY <1>3, <1>4, <1>5 DEF AttemptLeft, Steps
  <2>5. outcome # "transient" => outcome \in {"value", "empty", "step_error"}
    BY <1>1 DEF OutcomesOf
  <2>6. Current(r)' = row /\ (Plan(r)[index[r]])' = step
    BY <1>1, <1>7 DEF Current
  <2> QED BY <1>1, <1>4, <1>5, <1>9, <2>1, <2>2, <2>3, <2>4, <2>5, <2>6
          DEF AttemptInv, InStep
<1>14. CommitInv(r)'
  BY <1>1 DEF RequestInv, CommitInv
<1> QED BY <1>8, <1>10, <1>11, <1>12, <1>13, <1>14 DEF RequestInv

LEMMA RetryStepStep ==
  ASSUME TypeOK, NEW r \in Requests, RequestInv(r), RetryStep(r)
  PROVE  TypeOK' /\ RequestInv(r)'
<1> DEFINE n == index[r]
           step == Plan(r)[n]
           row == [Current(r) EXCEPT !.attempt = @ + 1]
<1>1. /\ UNCHANGED <<defs, committed, request, session, status, index, last_error, output,
                     response, view>>
      /\ pc[r] = "backoff" /\ pc[r] \in InStep
      /\ pc' = [pc EXCEPT ![r] = "attempt"] /\ pc'[r] = "attempt"
      /\ rows' = [rows EXCEPT ![r][n] = row]
  BY DEF RetryStep, Goto, Current, InStep, TypeOK
<1>2. /\ status[r] = "running" /\ n \in 1..Len(Plan(r)) /\ n \in Indexes
      /\ step \in Steps /\ Current(r) \in RowSet /\ Current(r).status = "running"
  BY <1>1, CurrentType DEF RequestInv
<1>3. /\ Current(r).attempt \in 1..step.max_attempts /\ output[r] = "none"
      /\ last_error[r] => step.type = "service"
      /\ Current(r).attempt < step.max_attempts
  BY <1>1 DEF RequestInv, AttemptInv, AttemptLeft
<1>4. /\ row \in RowSet /\ row.status = "running" /\ row.outcome = Current(r).outcome
      /\ row.attempt \in 1..step.max_attempts
  <2>1. step.max_attempts \in 1..10
    BY <1>2 DEF Steps
  <2>2. Current(r).attempt + 1 \in 1..step.max_attempts /\ Current(r).attempt + 1 \in 0..10
    BY <1>3, <2>1
  <2> QED BY <1>2, <2>2 DEF RowSet
<1>5. n \in DOMAIN Plan(r)
  BY <1>1 DEF RequestInv, TrailInv
<1>6. /\ rows' \in [Requests -> [Indexes -> RowSet]]
      /\ Len(Plan(r)) \in Nat
      /\ rows'[r][n] = row /\ Plan(r)' = Plan(r)
      /\ \A i \in Indexes : i # n => rows'[r][i] = rows[r][i]
      /\ \A i \in Indexes : i < n => StepCompleted(rows[r][i])
      /\ \A i \in Indexes : i > n => rows[r][i] = NoRow
  BY <1>1, <1>4, <1>5, OtherRowsKept
<1>7. \A i \in Indexes : RowInv(r, i)'
  <2>1. TruthfulRow(row) /\ WithinPolicy(row, step)
    BY <1>4 DEF TruthfulRow, WithinPolicy
  <2> QED BY <1>1, <1>4, <2>1, OwnRowKept
<1>8. TypeOK'
  <2>1. pc' \in [Requests -> InFlight \cup {"idle", "done"}]
    BY <1>1 DEF TypeOK, InFlight
  <2> QED BY <1>1, <1>6, <2>1 DEF TypeOK
<1>9. ControlInv(r)'
  BY <1>1, <1>2 DEF RequestInv, ControlInv, Found, InStep, Ending
<1>10. TrailInv(r)'
  BY <1>1, <1>2, <1>4, <1>5, <1>6 DEF TrailInv, InStep, Ended, Current, StepCompleted
<1>11. AttemptInv(r)'
  BY <1>1, <1>3, <1>4, <1>6 DEF AttemptInv, Current
<1>12. CommitInv(r)'
  <2>1. committed[r] = Absent
    BY <1>1 DEF RequestInv, CommitInv
  <2> QED BY <1>1, <2>1 DEF CommitInv
<1> QED BY <1>7, <1>8, <1>9, <1>10, <1>11, <1>12 DEF RequestInv

\* RecordStepError and RecordExhausted: the step and the execution have failed.
LEMMA RecordFailureStep ==
  ASSUME TypeOK, NEW r \in Requests, RequestInv(r),
         RecordStepError(r) \/ RecordExhausted(r)
  PROVE  TypeOK' /\ RequestInv(r)'
<1> DEFINE n == index[r]
           step == Plan(r)[n]
           row == [Current(r) EXCEPT !.status = "failed"]
<1>1. /\ UNCHANGED <<defs, committed, request, session, index, last_error, output,
                     response, view>>
      /\ pc[r] \in InStep
      /\ \/ pc[r] = "step_failed"
         \/ pc[r] = "record" /\ AttemptsExhausted(r)
      /\ pc' = [pc EXCEPT ![r] = "finish"] /\ pc'[r] = "finish"
      /\ status' = [status EXCEPT ![r] = "failed"] /\ status'[r] = "failed"
      /\ rows' = [rows EXCEPT ![r][n] = row]
  BY DEF RecordStepError, RecordExhausted, Goto, Current, InStep, TypeOK
<1>2. /\ status[r] = "running" /\ n \in 1..Len(Plan(r)) /\ n \in Indexes
      /\ step \in Steps /\ Current(r) \in RowSet /\ Current(r).status = "running"
  BY <1>1, CurrentType DEF RequestInv
<1>3. /\ Current(r).attempt \in 1..step.max_attempts
      /\ \/ Current(r).outcome = "step_error"
         \/ Current(r).outcome = "transient" /\ Current(r).attempt = step.max_attempts
  <2>1. CASE pc[r] = "step_failed"
    BY <1>1, <2>1 DEF RequestInv, AttemptInv
  <2>2. CASE pc[r] = "record" /\ AttemptsExhausted(r)
    <3>1. \/ Current(r).outcome = "transient"
          \/ /\ Current(r).outcome \in OutcomesOf(step.type) \ {"step_error"}
             /\ output[r] = Current(r).outcome
      BY <1>1, <2>2 DEF RequestInv, AttemptInv
    <3>2. last_error[r] /\ output[r] \in {"none", "empty"}
      BY <2>2 DEF AttemptsExhausted
    <3>3. last_error[r] => step.type = "service"
      BY <1>1 DEF RequestInv, AttemptInv
    <3>4. Current(r).outcome = "transient"
      BY <3>1, <3>2, <3>3 DEF OutcomesOf
    <3> QED BY <1>1, <2>2, <3>4 DEF RequestInv, AttemptInv
  <2> QED BY <1>1, <2>1, <2>2
<1>4. /\ row \in RowSet /\ row.status = "failed" /\ row.outcome = Current(r).outcome
      /\ row.attempt = Current(r).attempt
  BY <1>2 DEF RowSet
<1>5. n \in DOMAIN Plan(r)
  BY <1>1 DEF RequestInv, TrailInv
<1>6. /\ rows' \in [Requests -> [Indexes -> RowSet]]
      /\ Len(Plan(r)) \in Nat
      /\ rows'[r][n] = row /\ Plan(r)' = Plan(r)
      /\ \A i \in Indexes : i # n => rows'[r][i] = rows[r][i]
      /\ \A i \in Indexes : i < n => StepCompleted(rows[r][i])
      /\ \A i \in Indexes : i > n => rows[r][i] = NoRow
  BY <1>1, <1>4, <1>5, OtherRowsKept
<1>7. \A i \in Indexes : RowInv(r, i)'
  <2>1. TruthfulRow(row) /\ WithinPolicy(row, step)
    BY <1>3, <1>4 DEF TruthfulRow, WithinPolicy
  <2> QED BY <1>1, <1>4, <2>1, OwnRowKept
<1>8. TypeOK'
  <2>1. pc' \in [Requests -> InFlight \cup {"idle", "done"}]
    BY <1>1 DEF TypeOK, InFlight
  <2>2. status' \in [Requests -> {"none", "pending", "running", "completed", "failed"}]
    BY <1>1 DEF TypeOK
  <2> QED BY <1>1, <1>6, <2>1, <2>2 DEF TypeOK
<1>9. ControlInv(r)'
  BY <1>1, <1>2 DEF RequestInv, ControlInv, Found, InStep, Ending, Ended
<1>10. TrailInv(r)'
  BY <1>1, <1>2, <1>4, <1>5, <1>6 DEF TrailInv, InStep, Ended, Current, StepCompleted
<1>11. AttemptInv(r)' /\ CommitInv(r)'
  BY <1>1 DEF RequestInv, AttemptInv, CommitInv, InStep
<1> QED BY <1>7, <1>8, <1>9, <1>10, <1>11 DEF RequestInv

LEMMA RecordStepStep ==
  ASSUME TypeOK, NEW r \in Requests, RequestInv(r), RecordStep(r)
  PROVE  TypeOK' /\ RequestInv(r)'
<1> DEFINE n == index[r]
           step == Plan(r)[n]
           row == [Current(r) EXCEPT !.status = "completed"]
<1>1. /\ UNCHANGED <<defs, committed, request, session, status, last_error, output,
                     response, view>>
      /\ pc[r] = "record" /\ pc[r] \in InStep /\ ~AttemptsExhausted(r)
      /\ pc' = [pc EXCEPT ![r] = "loop"] /\ pc'[r] = "loop"
      /\ index' = [index EXCEPT ![r] = n + 1] /\ index'[r] = n + 1
      /\ rows' = [rows EXCEPT ![r][n] = row]
  BY DEF RecordStep, Goto, Current, InStep, TypeOK
<1>2. /\ status[r] = "running" /\ n \in 1..Len(Plan(r)) /\ n \in Indexes
      /\ step \in Steps /\ Current(r) \in RowSet /\ Current(r).status = "running"
  BY <1>1, CurrentType DEF RequestInv
<1>3. /\ Current(r).attempt \in 1..step.max_attempts
      /\ Current(r).outcome \in {"value", "empty"}
  <2>1. IF Current(r).outcome = "transient"
        THEN last_error[r] /\ output[r] = "none"
        ELSE Current(r).outcome \in OutcomesOf(step.type) \ {"step_error"}
    BY <1>1 DEF RequestInv, AttemptInv
  <2>2. Current(r).outcome # "transient"
    BY <1>1, <2>1 DEF AttemptsExhausted
  <2>3. Current(r).outcome \in {"value", "empty"}
    BY <2>1, <2>2 DEF OutcomesOf
  <2> QED BY <1>1, <2>3 DEF RequestInv, AttemptInv
<1>4. /\ row \in RowSet /\ row.status = "completed" /\ row.outcome = Current(r).outcome
      /\ row.attempt = Current(r).attempt
  BY <1>2 DEF RowSet
<1>5. n \in DOMAIN Plan(r)
  BY <1>1 DEF RequestInv, TrailInv
<1>6. /\ rows' \in [Requests -> [Indexes -> RowSet]]
      /\ Len(Plan(r)) \in Nat
      /\ rows'[r][n] = row /\ Plan(r)' = Plan(r)
      /\ \A i \in Indexes : i # n => rows'[r][i] = rows[r][i]
      /\ \A i \in Indexes : i < n => StepCompleted(rows[r][i])
      /\ \A i \in Indexes : i > n => rows[r][i] = NoRow
  BY <1>1, <1>4, <1>5, OtherRowsKept
<1>7. \A i \in Indexes : RowInv(r, i)'
  <2>1. TruthfulRow(row) /\ WithinPolicy(row, step)
    BY <1>3, <1>4 DEF TruthfulRow, WithinPolicy
  <2> QED BY <1>1, <1>4, <2>1, OwnRowKept
<1>8. TypeOK'
  <2>1. pc' \in [Requests -> InFlight \cup {"idle", "done"}]
    BY <1>1 DEF TypeOK, InFlight
  <2>2. n + 1 \in 0..(MaxSteps + 1)
    BY <1>2, MaxStepsAssumption DEF Indexes
  <2>3. index' \in [Requests -> 0..(MaxSteps + 1)]
    BY <1>1, <2>2 DEF TypeOK
  <2> QED BY <1>1, <1>6, <2>1, <2>3 DEF TypeOK
<1>9. ControlInv(r)'
  BY <1>1, <1>2 DEF RequestInv, ControlInv, Found, InStep, Ending
<1>10. TrailInv(r)'
  <2>1. n + 1 \in 1..(Len(Plan(r)) + 1)
    BY <1>2, <1>6
  <2>2. \A i \in Indexes : i < n + 1 => StepCompleted(rows'[r][i])
    <3>1. \A i \in Indexes : i < n + 1 => i < n \/ i = n
      BY <1>2, MaxStepsAssumption DEF Indexes
    <3>2. StepCompleted(rows'[r][n])
      BY <1>4, <1>6 DEF StepCompleted
    <3>3. \A i \in Indexes : i < n => i # n
      BY <1>2, MaxStepsAssumption DEF Indexes
    <3> QED BY <1>6, <3>1, <3>2, <3>3
  <2>3. \A i \in Indexes : i > n => rows'[r][i] = NoRow
    <3>1. \A i \in Indexes : i > n => i # n
      BY <1>2, MaxStepsAssumption DEF Indexes
    <3> QED BY <1>6, <3>1
  <2>4. \A i \in Indexes : i > n + 1 => i > n
    BY <1>2, MaxStepsAssumption DEF Indexes
  <2>5. n + 1 \in Indexes => rows'[r][n + 1] = NoRow
    BY <1>2, <2>3, MaxStepsAssumption DEF Indexes
  <2>6. ~StepCompleted(NoRow)
    BY DEF StepCompleted, NoRow
  <2> QED BY <1>1, <1>2, <1>6, <2>1, <2>2, <2>3, <2>4, <2>5, <2>6
          DEF TrailInv, InStep, Ended, Current
<1>11. AttemptInv(r)' /\ CommitInv(r)'
  BY <1>1 DEF RequestInv, AttemptInv, CommitInv, InStep
<1> QED BY <1>7, <1>8, <1>9, <1>10, <1>11 DEF RequestInv

-----------------------------------------------------------------------------
(* Every step *)

RequestStep(r) ==
  \/ \E w \in WorkflowIds, t \in Tenants, permitted \in BOOLEAN : Receive(r, w, t, permitted)
  \/ Serve(r)
  \/ ProcessDies(r)

LEMMA OwnStep ==
  ASSUME TypeOK, NEW r \in Requests, RequestInv(r), RequestStep(r)
  PROVE  TypeOK' /\ RequestInv(r)'
<1>1. CASE \E w \in WorkflowIds, t \in Tenants, permitted \in BOOLEAN :
            Receive(r, w, t, permitted)
  BY <1>1, ReceiveStep
<1>2. CASE Refuse(r) \/ StatementRaises(r) \/ CommitFails(r) \/ Rollback(r) \/ ProcessDies(r)
  BY <1>2, AbandonStep
<1>3. CASE TriggerExecution(r) \/ StartExecution(r)
  BY <1>3, OpenStep
<1>4. CASE FinishExecution(r) \/ Respond(r) \/ Commit(r)
  BY <1>4, PublishStep
<1>5. CASE CompleteExecution(r) \/ DependencyUnmet(r)
  BY <1>5, LeaveStep
<1>6. CASE BeginStep(r)
  BY <1>6, BeginStepStep
<1>7. CASE \E outcome \in Outcomes : AttemptStep(r, outcome)
  BY <1>7, AttemptStepStep
<1>8. CASE RetryStep(r)
  BY <1>8, RetryStepStep
<1>9. CASE RecordStepError(r) \/ RecordExhausted(r)
  BY <1>9, RecordFailureStep
<1>10. CASE RecordStep(r)
  BY <1>10, RecordStepStep
<1> QED BY <1>1, <1>2, <1>3, <1>4, <1>5, <1>6, <1>7, <1>8, <1>9, <1>10
        DEF RequestStep, Serve, EngineStep

\* A request's step touches no other request, no definition and no view, and
\* of the committed executions only its own, once, as it ends.
LEMMA StepIsLocal ==
  ASSUME TypeOK, NEW r \in Requests, RequestInv(r), RequestStep(r)
  PROVE  /\ UNCHANGED <<defs, view>>
         /\ \A q \in Requests \ {r} :
              /\ pc'[q] = pc[q] /\ request'[q] = request[q] /\ status'[q] = status[q]
              /\ index'[q] = index[q] /\ rows'[q] = rows[q]
              /\ last_error'[q] = last_error[q] /\ output'[q] = output[q]
              /\ response'[q] = response[q] /\ committed'[q] = committed[q]
         /\ committed[r] # Absent => committed'[r] = committed[r] /\ request'[r] = request[r]
<1>1. UNCHANGED <<defs, view>>
  BY DEF RequestStep, Serve, EngineStep, Receive, Refuse, StatementRaises, CommitFails,
         Rollback, ProcessDies, TriggerExecution, StartExecution, FinishExecution, Respond,
         Commit, CompleteExecution, DependencyUnmet, BeginStep, AttemptStep, RetryStep,
         RecordStepError, RecordExhausted, RecordStep
<1>2. ASSUME NEW q \in Requests \ {r}
      PROVE  /\ pc'[q] = pc[q] /\ request'[q] = request[q] /\ status'[q] = status[q]
             /\ index'[q] = index[q] /\ rows'[q] = rows[q]
             /\ last_error'[q] = last_error[q] /\ output'[q] = output[q]
             /\ response'[q] = response[q] /\ committed'[q] = committed[q]
  <2>1. CASE \E w \in WorkflowIds, t \in Tenants, permitted \in BOOLEAN :
            Receive(r, w, t, permitted)
    BY <2>1 DEF TypeOK, Receive, Goto
  <2>2. CASE Refuse(r) \/ StatementRaises(r) \/ CommitFails(r) \/ Rollback(r) \/ ProcessDies(r)
    BY <2>2 DEF TypeOK, Refuse, StatementRaises, CommitFails, Rollback, ProcessDies, Goto
  <2>3. CASE TriggerExecution(r) \/ StartExecution(r)
    BY <2>3 DEF TypeOK, TriggerExecution, StartExecution, Goto
  <2>4. CASE FinishExecution(r) \/ Respond(r) \/ Commit(r)
    BY <2>4 DEF TypeOK, FinishExecution, Respond, Commit, Goto
  <2>5. CASE CompleteExecution(r) \/ DependencyUnmet(r)
    BY <2>5 DEF TypeOK, CompleteExecution, DependencyUnmet, Goto
  <2>6. CASE BeginStep(r)
    BY <2>6 DEF TypeOK, BeginStep, Goto
  <2>7. CASE \E outcome \in Outcomes : AttemptStep(r, outcome)
    BY <2>7 DEF TypeOK, AttemptStep, Goto
  <2>8. CASE RetryStep(r)
    BY <2>8 DEF TypeOK, RetryStep, Goto
  <2>9. CASE RecordStepError(r) \/ RecordExhausted(r) \/ RecordStep(r)
    BY <2>9 DEF TypeOK, RecordStepError, RecordExhausted, RecordStep, Goto
  <2> QED BY <2>1, <2>2, <2>3, <2>4, <2>5, <2>6, <2>7, <2>8, <2>9
          DEF RequestStep, Serve, EngineStep
<1>3. ASSUME committed[r] # Absent
      PROVE  committed'[r] = committed[r] /\ request'[r] = request[r]
  <2>1. pc[r] = "done"
    BY <1>3 DEF RequestInv, CommitInv
  <2> QED
    BY <2>1 DEF RequestStep, Serve, EngineStep, Receive, Refuse, StatementRaises, CommitFails,
         Rollback, ProcessDies, TriggerExecution, StartExecution, FinishExecution, Respond,
         Commit, CompleteExecution, DependencyUnmet, BeginStep, AttemptStep, RetryStep,
         RecordStepError, RecordExhausted, RecordStep, AtStatement, InFlight
<1> QED BY <1>1, <1>2, <1>3

LEMMA InvInit == Init => IInv
<1> SUFFICES ASSUME Init PROVE IInv
  OBVIOUS
<1>1. NoRows \in [Indexes -> RowSet] /\ NoRow.status = "none"
  BY DEF NoRows, NoRow, RowSet, Outcomes
<1>2. TypeOK
  BY <1>1, MaxStepsAssumption DEF Init, TypeOK, ViewSet, NoView, InFlight
<1>3. ASSUME NEW r \in Requests
      PROVE  ControlInv(r) /\ TrailInv(r) /\ AttemptInv(r) /\ CommitInv(r)
  BY DEF Init, ControlInv, TrailInv, AttemptInv, CommitInv, InStep, Ending, Ended
<1>4. ASSUME NEW r \in Requests, NEW i \in Indexes
      PROVE  RowInv(r, i)
  BY DEF Init, RowInv, RanAfterDependencies, TruthfulRow, NoRows, NoRow
<1>5. \A g \in Readers : ViewInv(g)
  BY DEF Init, ViewInv, NoView
<1> QED BY <1>2, <1>3, <1>4, <1>5 DEF IInv

LEMMA InvNext == IInv /\ [Next]_vars => IInv'
<1> SUFFICES ASSUME IInv, [Next]_vars PROVE IInv'
  OBVIOUS
<1> USE DEF IInv
<1>1. TypeOK /\ (\A q \in Requests : RequestInv(q)) /\ (\A g \in Readers : ViewInv(g))
  BY DEF RequestInv
<1>2. SUFFICES TypeOK' /\ (\A q \in Requests : RequestInv(q)') /\ (\A g \in Readers : ViewInv(g)')
  BY DEF RequestInv
<1>3. CASE UNCHANGED vars
  <2>1. TypeOK'
    BY <1>1, <1>3 DEF vars, reqVars, TypeOK
  <2>2. \A q \in Requests : RequestInv(q)'
    BY <1>1, <1>3, OtherRequest DEF vars, reqVars, RequestInv, ControlInv, Found
  <2>3. \A g \in Readers : ViewInv(g)'
    BY <1>1, <1>3, ViewKept DEF vars, reqVars
  <2> QED BY <2>1, <2>2, <2>3
<1>4. CASE \E r \in Requests : RequestStep(r)
  <2>1. PICK r \in Requests : RequestStep(r)
    BY <1>4
  <2>2. TypeOK' /\ RequestInv(r)'
    BY <1>1, <2>1, OwnStep
  <2>3. /\ UNCHANGED <<defs, view>>
        /\ \A q \in Requests \ {r} :
             /\ pc'[q] = pc[q] /\ request'[q] = request[q] /\ status'[q] = status[q]
             /\ index'[q] = index[q] /\ rows'[q] = rows[q]
             /\ last_error'[q] = last_error[q] /\ output'[q] = output[q]
             /\ response'[q] = response[q] /\ committed'[q] = committed[q]
        /\ committed[r] # Absent => committed'[r] = committed[r] /\ request'[r] = request[r]
    BY <1>1, <2>1, StepIsLocal
  <2>4. ASSUME NEW q \in Requests \ {r}
        PROVE  RequestInv(q)'
    <3>1. status[q] # "none" => defs[request[q].workflow] # Absent
      BY <1>1 DEF RequestInv, ControlInv, Found
    <3> QED BY <1>1, <2>3, <3>1, OtherRequest
  <2>5. \A g \in Readers : ViewInv(g)'
    BY <1>1, <2>3, ViewKept
  <2> QED BY <2>2, <2>4, <2>5
<1>5. CASE \E w \in WorkflowIds, t \in Tenants, s \in StepLists : CreateWorkflow(w, t, s)
  <2>1. PICK w \in WorkflowIds, t \in Tenants, s \in StepLists : CreateWorkflow(w, t, s)
    BY <1>5
  <2> DEFINE d == [tenant |-> t, steps |-> s, is_active |-> TRUE]
  <2>2. defs[w] = Absent /\ defs' = [defs EXCEPT ![w] = d] /\ d \in DefinitionSet
        /\ UNCHANGED <<committed, reqVars, view>>
    BY <2>1 DEF CreateWorkflow, DefinitionSet
  <2>3. TypeOK'
    BY <1>1, <2>2 DEF TypeOK, reqVars
  <2>4. ASSUME NEW q \in Requests
        PROVE  RequestInv(q)'
    <3>1. status[q] # "none" =>
            defs[request[q].workflow] # Absent /\ request[q].workflow \in WorkflowIds
      BY <1>1 DEF RequestInv, ControlInv, Found, TypeOK, TriggerSet
    <3>2. status[q] # "none" => defs'[request[q].workflow] = defs[request[q].workflow]
      BY <1>1, <2>2, <3>1 DEF TypeOK
    <3> QED BY <1>1, <2>2, <3>1, <3>2, OtherRequest DEF reqVars
  <2>5. \A g \in Readers : ViewInv(g)'
    BY <1>1, <2>2, ViewKept DEF reqVars
  <2> QED BY <2>3, <2>4, <2>5
<1>6. CASE \E w \in WorkflowIds, t \in Tenants : DeactivateWorkflow(w, t)
  <2>1. PICK w \in WorkflowIds, t \in Tenants : DeactivateWorkflow(w, t)
    BY <1>6
  <2>2. defs[w] \in DefinitionSet
    BY <1>1, <2>1 DEF DeactivateWorkflow, Found, TypeOK
  <2> DEFINE d == [defs[w] EXCEPT !.is_active = FALSE]
  <2>3. d \in DefinitionSet /\ d.tenant = defs[w].tenant /\ d.steps = defs[w].steps /\ d # Absent
    BY <2>2, AbsentAssumption DEF DefinitionSet
  <2>4. defs' = [defs EXCEPT ![w] = d] /\ UNCHANGED <<committed, reqVars, view>>
    BY <2>1 DEF DeactivateWorkflow
  <2>5. TypeOK'
    BY <1>1, <2>3, <2>4 DEF TypeOK, reqVars
  <2>6. ASSUME NEW q \in Requests
        PROVE  RequestInv(q)'
    <3>1. status[q] # "none" =>
            defs[request[q].workflow] # Absent /\ request[q].workflow \in WorkflowIds
      BY <1>1 DEF RequestInv, ControlInv, Found, TypeOK, TriggerSet
    <3>2. status[q] # "none" =>
            /\ defs'[request[q].workflow] # Absent
            /\ defs'[request[q].workflow].tenant = defs[request[q].workflow].tenant
            /\ defs'[request[q].workflow].steps = defs[request[q].workflow].steps
      BY <1>1, <2>3, <2>4, <3>1 DEF TypeOK
    <3> QED BY <1>1, <2>4, <3>2, OtherRequest DEF reqVars
  <2>7. \A g \in Readers : ViewInv(g)'
    BY <1>1, <2>4, ViewKept DEF reqVars
  <2> QED BY <2>5, <2>6, <2>7
<1>7. CASE \/ \E g \in Readers, r \in Requests, t \in Tenants : ReadExecution(g, r, t)
           \/ \E g \in Readers : ReadSteps(g)
  <2>1. UNCHANGED <<defs, committed, reqVars>>
    BY <1>7 DEF ReadExecution, ReadSteps
  <2>2. \A q \in Requests : RequestInv(q)'
    BY <1>1, <2>1, OtherRequest DEF reqVars, RequestInv, ControlInv, Found
  <2>3. NoRows \in [Indexes -> RowSet]
    BY DEF NoRows, NoRow, RowSet, Outcomes
  <2>4. CASE \E g \in Readers, r \in Requests, t \in Tenants : ReadExecution(g, r, t)
    <3>1. PICK g \in Readers, r \in Requests, t \in Tenants : ReadExecution(g, r, t)
      BY <2>4
    <3> DEFINE v == [ execution |-> r, tenant |-> t,
                      status |-> committed[r].status, rows |-> NoRows ]
    <3>2. committed[r] # Absent /\ committed[r] \in ExecutionSet /\ request[r].tenant = t
          /\ view' = [view EXCEPT ![g] = v]
      BY <1>1, <3>1 DEF ReadExecution, TypeOK
    <3>3. TypeOK'
      BY <1>1, <2>1, <2>3, <3>2 DEF TypeOK, reqVars, ExecutionSet, ViewSet
    <3>4. view'[g] = v /\ ViewInv(g)'
      BY <1>1, <2>1, <3>2 DEF ViewInv, TypeOK, reqVars
    <3>5. ASSUME NEW h \in Readers, h # g
          PROVE  ViewInv(h)'
      BY <1>1, <2>1, <3>2, <3>5, ViewKept DEF TypeOK, reqVars
    <3> QED BY <2>2, <3>3, <3>4, <3>5
  <2>5. CASE \E g \in Readers : ReadSteps(g)
    <3>1. PICK g \in Readers : ReadSteps(g)
      BY <2>5
    <3> DEFINE e == view[g].execution
               v == [view[g] EXCEPT !.rows = committed[e].rows]
    <3>2. e # Absent /\ e \in Requests /\ view' = [view EXCEPT ![g] = v]
      BY <1>1, <3>1 DEF ReadSteps, TypeOK, ViewSet
    <3>3. committed[e] # Absent /\ committed[e] \in ExecutionSet
      BY <1>1, <3>2 DEF ViewInv, TypeOK
    <3>4. TypeOK'
      <4>1. v \in ViewSet
        <5>1. view[g] \in ViewSet
          BY <1>1 DEF TypeOK
        <5>2. committed[e].rows \in [Indexes -> RowSet]
          BY <3>3 DEF ExecutionSet
        <5> QED BY <5>1, <5>2 DEF ViewSet
      <4> QED BY <1>1, <2>1, <3>2, <4>1 DEF TypeOK, reqVars
    <3>5. view'[g] = v
      BY <1>1, <3>2 DEF TypeOK
    <3>6. ViewInv(g)'
      BY <1>1, <2>1, <3>2, <3>3, <3>5 DEF ViewInv, TypeOK, reqVars
    <3>7. ASSUME NEW h \in Readers, h # g
          PROVE  ViewInv(h)'
      BY <1>1, <2>1, <3>2, <3>7, ViewKept DEF TypeOK, reqVars
    <3> QED BY <2>2, <3>4, <3>6, <3>7
  <2> QED BY <1>7, <2>4, <2>5
<1> QED BY <1>3, <1>4, <1>5, <1>6, <1>7 DEF Next, RequestStep

-----------------------------------------------------------------------------
(* The theorems *)

\* The strengthening is an invariant of every behaviour.
THEOREM InvHolds == Spec => []IInv
<1>1. Init => IInv
  BY InvInit
<1>2. IInv /\ [Next]_vars => IInv'
  BY InvNext
<1> QED BY <1>1, <1>2, PTL DEF Spec

\* Rows, statuses, answers and views never leave the values the code gives them.
THEOREM TypeCorrect == Spec => []TypeOK
<1>1. IInv => TypeOK
  BY DEF IInv
<1> QED BY <1>1, InvHolds, PTL

\* _run_step: a step has a record only after all its dependencies completed.
THEOREM DependencyOrderHolds == Spec => []DependencyOrder
<1>1. IInv => DependencyOrder
  BY DEF IInv, RowInv, DependencyOrder
<1> QED BY <1>1, InvHolds, PTL

\* _run_step: a record says how the step's last attempt ended.
THEOREM StepTruthfulHolds == Spec => []StepTruthful
<1>1. IInv => StepTruthful
  BY DEF IInv, RowInv, StepTruthful
<1> QED BY <1>1, InvHolds, PTL

\* _run_step: attempts stay within the policy, and transient errors use them up.
THEOREM RetryPolicyHolds == Spec => []RetryPolicy
<1>1. IInv => RetryPolicy
  BY DEF IInv, RowInv, RetryPolicy
<1> QED BY <1>1, InvHolds, PTL

\* What is committed of an execution is the whole trail of what the engine did.
LEMMA TrailOfCommitted ==
  ASSUME IInv, NEW r \in Requests, committed[r] # Absent
  PROVE  ConsistentTrail(Plan(r), committed[r])
<1> DEFINE n == index[r]
<1>1. /\ status[r] \in Ended /\ committed[r] = [status |-> status[r], rows |-> rows[r]]
      /\ request[r] # Absent /\ Found(request[r].workflow, request[r].tenant)
  BY DEF IInv, ControlInv, CommitInv, Ended
<1>2. /\ DOMAIN Plan(r) = 1..Len(Plan(r)) /\ DOMAIN Plan(r) \subseteq Indexes
      /\ Len(Plan(r)) \in Nat
  BY <1>1, PlanType DEF IInv
<1>3. /\ n \in 1..(Len(Plan(r)) + 1)
      /\ \A i \in Indexes : i < n => StepCompleted(rows[r][i])
      /\ \A i \in Indexes : i > n => rows[r][i] = NoRow
  BY <1>1 DEF IInv, TrailInv
<1>4. NoRow.status = "none"
  BY DEF NoRow
<1>5. CASE status[r] = "completed"
  <2>1. n = Len(Plan(r)) + 1 /\ (n \in Indexes => rows[r][n] = NoRow)
    BY <1>5 DEF IInv, TrailInv, Current
  <2>2. n > Len(Plan(r)) /\ n \notin DOMAIN Plan(r)
    BY <1>2, <2>1
  <2> QED BY <1>1, <1>3, <1>4, <1>5, <2>1, <2>2 DEF ConsistentTrail
<1>6. CASE status[r] = "failed"
  <2>1. /\ n \in DOMAIN Plan(r) /\ n \in Indexes /\ ~(n > Len(Plan(r)))
        /\ \/ rows[r][n].status = "failed"
           \/ rows[r][n] = NoRow /\ ~DependenciesMet(r)
    BY <1>2, <1>6 DEF IInv, TrailInv, Current
  <2>2. ASSUME rows[r][n].status = "none"
        PROVE  \E d \in Plan(r)[n].depends_on : \A i \in 1..(n - 1) : Plan(r)[i].id # d
    <3>1. PICK d \in Plan(r)[n].depends_on : d \notin CompletedIds(r)
      BY <2>1, <2>2 DEF DependenciesMet
    <3>2. ASSUME NEW i \in 1..(n - 1)
          PROVE  Plan(r)[i].id # d
      <4>1. i \in DOMAIN Plan(r) /\ i \in Indexes /\ i < n
        BY <1>2, <1>3, <2>1
      <4>2. rows[r][i].status = "completed"
        BY <1>3, <4>1 DEF StepCompleted
      <4> QED BY <3>1, <4>1, <4>2 DEF CompletedIds
    <3> QED BY <3>2
  <2>3. committed[r].status = "failed" /\ committed[r].rows = rows[r]
    BY <1>1, <1>6
  <2>4. rows[r][n].status \in {"none", "failed"}
    BY <1>4, <2>1
  <2> QED BY <1>3, <2>1, <2>2, <2>3, <2>4 DEF ConsistentTrail
<1> QED BY <1>1, <1>5, <1>6 DEF Ended

\* The committed rows tell one consistent story of the execution.
THEOREM AuditTrailHolds == Spec => []AuditTrail
<1>1. IInv => AuditTrail
  BY TrailOfCommitted DEF AuditTrail
<1> QED BY <1>1, InvHolds, PTL

\* The status a client was answered is the one that is committed.
THEOREM AnswerAgreesHolds == Spec => []AnswerAgrees
<1>1. ASSUME IInv, NEW r \in Requests, committed[r] # Absent
      PROVE  response[r] = committed[r].status
  <2>1. response[r] = status[r] /\ committed[r] = [status |-> status[r], rows |-> rows[r]]
    BY <1>1 DEF IInv, CommitInv
  <2> QED BY <2>1
<1>2. IInv => AnswerAgrees
  BY <1>1 DEF AnswerAgrees
<1> QED BY <1>2, InvHolds, PTL

\* Executions, and those who read them, belong to the tenant of the definition.
THEOREM TenantIsolationHolds == Spec => []TenantIsolation
<1>1. ASSUME IInv, NEW r \in Requests, committed[r] # Absent
      PROVE  defs[request[r].workflow].tenant = request[r].tenant
  BY <1>1 DEF IInv, CommitInv, ControlInv, Found, Ended
<1>2. ASSUME IInv, NEW g \in Readers, view[g].execution # Absent
      PROVE  defs[request[view[g].execution].workflow].tenant = view[g].tenant
  <2>1. /\ view[g].execution \in Requests /\ committed[view[g].execution] # Absent
        /\ view[g].tenant = request[view[g].execution].tenant
    BY <1>2 DEF IInv, ViewInv, TypeOK, ViewSet
  <2> QED BY <1>1, <1>2, <2>1
<1>3. IInv => TenantIsolation
  BY <1>1, <1>2 DEF TenantIsolation
<1> QED BY <1>3, InvHolds, PTL

\* A reader's two statements never show it half of an execution.
THEOREM ReaderSeesWholeHolds == Spec => []ReaderSeesWhole
<1>1. ASSUME IInv, NEW g \in Readers, view[g].execution # Absent
      PROVE  /\ view[g].status \in {"completed", "failed"}
             /\ view[g].rows # NoRows => ConsistentTrail(Plan(view[g].execution), view[g])
  <2> DEFINE e == view[g].execution
  <2>1. /\ e \in Requests /\ committed[e] # Absent /\ view[g].status = committed[e].status
        /\ view[g].rows # NoRows => view[g].rows = committed[e].rows
    BY <1>1 DEF IInv, ViewInv, TypeOK, ViewSet
  <2>2. committed[e].status \in {"completed", "failed"}
    BY <1>1, <2>1 DEF IInv, TypeOK, ExecutionSet
  <2>3. ConsistentTrail(Plan(e), committed[e])
    BY <1>1, <2>1, TrailOfCommitted
  <2> QED BY <2>1, <2>2, <2>3 DEF ConsistentTrail
<1>2. IInv => ReaderSeesWhole
  BY <1>1 DEF ReaderSeesWhole
<1> QED BY <1>2, InvHolds, PTL

\* Seen from outside, Workflow is the write-once ledger: every step records
\* one execution that was not there, or changes nothing.
THEOREM ImplementsLedger == Spec => LedgerSpec
<1>1. Init => Ledger!Init
  BY DEF Init, Ledger!Init, LedgerView
<1>2. ASSUME IInv, [Next]_vars
      PROVE  [Ledger!Next]_LedgerView
  <2>1. CASE UNCHANGED committed
    BY <2>1 DEF LedgerView
  <2>2. CASE \E r \in Requests : Commit(r)
    <3>1. PICK r \in Requests : Commit(r)
      BY <2>2
    <3> DEFINE e == [status |-> status[r], rows |-> rows[r]]
    <3>2. pc[r] = "commit" /\ status[r] \in Ended /\ committed[r] = Absent
      BY <1>2, <3>1 DEF Commit, IInv, ControlInv, CommitInv, Ending
    <3>3. e \in ExecutionSet
      BY <1>2, <3>2 DEF IInv, TypeOK, ExecutionSet, Ended
    <3>4. e # Absent
      BY <3>3, AbsentAssumption
    <3>5. committed' = [committed EXCEPT ![r] = e] /\ committed \in [Requests -> ExecutionSet \cup {Absent}]
      BY <1>2, <3>1 DEF Commit, IInv, TypeOK
    <3>6. LedgerView' = [LedgerView EXCEPT ![r] = status[r]]
      BY <3>4, <3>5 DEF LedgerView
    <3>7. LedgerView[r] = "absent"
      BY <3>2 DEF LedgerView
    <3>8. Ledger!Record(r, status[r])
      BY <3>6, <3>7 DEF Ledger!Record
    <3> QED BY <3>2, <3>8 DEF Ledger!Next, Ledger!Outcome, Ended
  <2>3. CASE Next /\ ~(\E r \in Requests : Commit(r))
    <3>1. UNCHANGED committed
      BY <2>3 DEF Next, Serve, EngineStep, CreateWorkflow, DeactivateWorkflow, ReadExecution,
         ReadSteps, Receive, Refuse, StatementRaises, CommitFails, Rollback, ProcessDies,
         TriggerExecution, StartExecution, FinishExecution, Respond, CompleteExecution,
         DependencyUnmet, BeginStep, AttemptStep, RetryStep, RecordStepError,
         RecordExhausted, RecordStep
    <3> QED BY <2>1, <3>1
  <2> QED BY <1>2, <2>1, <2>2, <2>3 DEF vars
<1>3. IInv /\ [Next]_vars => [Ledger!Next]_LedgerView
  BY <1>2
<1> QED BY <1>1, <1>3, InvHolds, PTL DEF Spec, LedgerSpec, Ledger!Spec
=============================================================================
