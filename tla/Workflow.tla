------------------------------ MODULE Workflow ------------------------------
(***************************************************************************)
(* Workflow definitions and their execution: WorkflowService               *)
(* (app/workflow/service.py) driving WorkflowEngine                        *)
(* (app/workflow/engine.py), each request inside the database session that *)
(* get_session (app/db/session.py) opens for it.                           *)
(*                                                                         *)
(* One trigger request owns one execution row and the rows of its steps.   *)
(* All of them are written in ONE transaction: what the handler flushes is *)
(* private to the request (status, rows) until get_session commits, which  *)
(* FastAPI makes happen after the response has been sent (committed).      *)
(* A database statement that fails leaves the session unusable: every      *)
(* later flush raises until the rollback (session = "invalid").            *)
(***************************************************************************)
EXTENDS Naturals, Sequences, FiniteSets

CONSTANTS
  Tenants,      \* tenants named by the verified tokens
  WorkflowIds,  \* ids uuid4() may give to definitions
  Requests,     \* POST .../execute requests; also the ids of their executions
  Readers,      \* GET .../executions/{id} requests, one at a time each
  StepIds,      \* step slugs
  StepLists,    \* the "steps" bodies clients post
  MaxSteps,     \* bound on the length of a step list
  Faults,       \* which failures of the environment may occur
  Absent        \* no row, no value

\* "service": a statement a step's service issues; "statement": one of the
\* engine's own; "commit": the final COMMIT; "process": the server itself.
FaultKinds == {"service", "statement", "commit", "process"}

StepTypes == {"service", "transform"}

Steps == [ id : StepIds, type : StepTypes,
           depends_on : SUBSET StepIds, max_attempts : 1..10 ]

Indexes == 1..MaxSteps

Outcomes == {"none", "value", "empty", "step_error", "transient"}

\* One WorkflowStepExecution.  "outcome" is history: how the last attempt ended.
RowSet == [ status : {"none", "running", "completed", "failed"},
            attempt : 0..10, outcome : Outcomes ]
NoRow == [ status |-> "none", attempt |-> 0, outcome |-> "none" ]
NoRows == [ i \in Indexes |-> NoRow ]

DefinitionSet == [ tenant : Tenants, steps : StepLists, is_active : BOOLEAN ]
TriggerSet == [ workflow : WorkflowIds, tenant : Tenants ]
ExecutionSet == [ status : {"completed", "failed"}, rows : [Indexes -> RowSet] ]

ViewSet == [ execution : Requests \cup {Absent}, tenant : Tenants \cup {Absent},
             status : {"none", "completed", "failed"}, rows : [Indexes -> RowSet] ]

ASSUME MaxStepsAssumption == MaxSteps \in Nat
ASSUME StepListsAssumption ==
  \A s \in StepLists : s \in Seq(Steps) /\ Len(s) <= MaxSteps
ASSUME FaultsAssumption == Faults \subseteq FaultKinds
ASSUME AbsentAssumption == Absent \notin DefinitionSet \cup TriggerSet \cup ExecutionSet

VARIABLES
  defs,       \* committed workflow_definitions
  committed,  \* committed workflow_executions with their step rows
  pc,         \* where the coroutine serving the request is
  request,    \* the path parameter and the tenant of the SecurityContext
  session,    \* state of the request's AsyncSession
  status,     \* execution.status, in the session
  index,      \* the step the engine's loop is at
  rows,       \* WorkflowStepExecution records, in the session
  last_error, \* _run_step: an attempt has failed with a transient error
  output,     \* _run_step: what the executor returned
  response,   \* what the client was told
  view        \* what a reader has fetched so far

reqVars == <<pc, request, session, status, index, rows, last_error, output, response>>
vars == <<defs, committed, reqVars, view>>

InFlight == {"fetch", "start", "loop", "attempt", "backoff", "step_failed", "record",
             "finish", "respond", "commit", "rollback"}

-----------------------------------------------------------------------------
(* Definitions *)

\* The blueprint checks of WorkflowDefinitionModel: at least one step, unique
\* ids, dependencies that name a step.  Nothing orders a dependency first.
ValidSteps(s) ==
  LET ids == { s[i].id : i \in DOMAIN s }
  IN  /\ Len(s) >= 1
      /\ \A i, j \in DOMAIN s : i # j => s[i].id # s[j].id
      /\ \A i \in DOMAIN s : s[i].depends_on \subseteq ids

CreateWorkflow(w, t, s) ==
  /\ defs[w] = Absent
  /\ ValidSteps(s)
  /\ defs' = [defs EXCEPT ![w] = [tenant |-> t, steps |-> s, is_active |-> TRUE]]
  /\ UNCHANGED <<committed, reqVars, view>>

\* The tenant-scoped lookup every definition route goes through.
Found(w, t) == defs[w] # Absent /\ defs[w].tenant = t

DeactivateWorkflow(w, t) ==
  /\ Found(w, t)
  /\ defs' = [defs EXCEPT ![w].is_active = FALSE]
  /\ UNCHANGED <<committed, reqVars, view>>

-----------------------------------------------------------------------------
(* One execution *)

Plan(r) == defs[request[r].workflow].steps

CompletedIds(r) ==
  { Plan(r)[i].id : i \in { j \in DOMAIN Plan(r) : rows[r][j].status = "completed" } }

Goto(r, label) == pc' = [pc EXCEPT ![r] = label]

\* The route's _require: a caller who may not execute workflows is told 403.
Receive(r, w, t, permitted) ==
  /\ pc[r] = "idle"
  /\ Goto(r, IF permitted THEN "fetch" ELSE "rollback")
  /\ response' = [response EXCEPT ![r] = IF permitted THEN @ ELSE "403"]
  /\ request' = [request EXCEPT ![r] = [workflow |-> w, tenant |-> t]]
  /\ UNCHANGED <<defs, committed, session, status, index, rows, last_error, output, view>>

\* 404 for an unknown or foreign definition, 400 for an inactive one: the
\* HTTPException sends get_session to its rollback.
Refuse(r) ==
  /\ pc[r] = "fetch" /\ session[r] = "active"
  /\ LET w == request[r].workflow
         found == Found(w, request[r].tenant)
     IN  /\ found => ~defs[w].is_active
         /\ response' = [response EXCEPT ![r] = IF found THEN "400" ELSE "404"]
  /\ Goto(r, "rollback")
  /\ UNCHANGED <<defs, committed, request, session, status, index, rows, last_error,
                 output, view>>

TriggerExecution(r) ==
  /\ pc[r] = "fetch" /\ session[r] = "active"
  /\ Found(request[r].workflow, request[r].tenant)
  /\ defs[request[r].workflow].is_active
  /\ status' = [status EXCEPT ![r] = "pending"]
  /\ Goto(r, "start")
  /\ UNCHANGED <<defs, committed, request, session, index, rows, last_error, output,
                 response, view>>

\* Faulty variant: the running row is committed on its own.
StartExecutionVisibly(r) ==
  /\ pc[r] = "start" /\ session[r] = "active"
  /\ status' = [status EXCEPT ![r] = "running"]
  /\ index' = [index EXCEPT ![r] = 1]
  /\ committed' = [committed EXCEPT ![r] = [status |-> "running", rows |-> rows[r]]]
  /\ Goto(r, "loop")
  /\ UNCHANGED <<defs, request, session, rows, last_error, output, response, view>>

StartExecution(r) ==
  /\ pc[r] = "start" /\ session[r] = "active"
  /\ status' = [status EXCEPT ![r] = "running"]
  /\ index' = [index EXCEPT ![r] = 1]
  /\ Goto(r, "loop")
  /\ UNCHANGED <<defs, committed, request, session, rows, last_error, output, response,
                 view>>

\* Faulty variant: a dependency counts as met once its step has a record.
DependenciesAttempted(r) ==
  \A d \in Plan(r)[index[r]].depends_on :
    \E i \in 1..index[r] : Plan(r)[i].id = d

\* "missing" is empty: every dependency has completed.
DependenciesMet(r) == Plan(r)[index[r]].depends_on \subseteq CompletedIds(r)

BeginStep(r) ==
  /\ pc[r] = "loop" /\ session[r] = "active"
  /\ index[r] \in DOMAIN Plan(r)
  /\ DependenciesMet(r)
  /\ rows' = [rows EXCEPT ![r][index[r]] =
                [status |-> "running", attempt |-> 1, outcome |-> "none"]]
  /\ last_error' = [last_error EXCEPT ![r] = FALSE]
  /\ output' = [output EXCEPT ![r] = "none"]
  /\ Goto(r, "attempt")
  /\ UNCHANGED <<defs, committed, request, session, status, index, response, view>>

\* The WorkflowExecutionError handler of execute(), reached without a flush.
DependencyUnmet(r) ==
  /\ pc[r] = "loop"
  /\ index[r] \in DOMAIN Plan(r)
  /\ ~DependenciesMet(r)
  /\ status' = [status EXCEPT ![r] = "failed"]
  /\ Goto(r, "finish")
  /\ UNCHANGED <<defs, committed, request, session, index, rows, last_error, output,
                 response, view>>

\* How the executor may come back.  Only a service call fails transiently, and
\* only a transform returns an empty dict.
OutcomesOf(type) ==
  IF type = "transform" THEN {"value", "empty", "step_error"}
                        ELSE {"value", "step_error", "transient"}

\* StepExecutor.execute: the handlers of services use the session, and some of
\* them swallow its errors (agent tools, VisionService._index_text), so that
\* any outcome may leave it invalid.
MayInvalidate(type) == type = "service" /\ "service" \in Faults

\* Faulty variant: one attempt too many.
AttemptLeftInclusive(row, step) == row.attempt <= step.max_attempts

\* "if attempt < step.retry.max_attempts"
AttemptLeft(row, step) == row.attempt < step.max_attempts

AttemptStep(r, outcome) ==
  LET step == Plan(r)[index[r]]
      row  == rows[r][index[r]]
  IN  /\ pc[r] = "attempt"
      /\ outcome \in OutcomesOf(step.type)
      /\ \/ UNCHANGED session
         \/ MayInvalidate(step.type) /\ session' = [session EXCEPT ![r] = "invalid"]
      /\ rows' = [rows EXCEPT ![r][index[r]] = [row EXCEPT !.outcome = outcome]]
      /\ last_error' = [last_error EXCEPT ![r] = @ \/ outcome = "transient"]
      /\ output' = [output EXCEPT ![r] = IF outcome \in {"value", "empty"}
                                         THEN outcome ELSE @]
      /\ Goto(r, CASE outcome = "step_error" -> "step_failed"
                   [] outcome = "transient" /\ AttemptLeft(row, step) -> "backoff"
                   [] OTHER -> "record")
      /\ UNCHANGED <<defs, committed, request, status, index, response, view>>

\* Faulty variant: attempt_number is not advanced.
RetryStepUncounted(r) ==
  /\ pc[r] = "backoff"
  /\ Goto(r, "attempt")
  /\ UNCHANGED <<defs, committed, request, session, status, index, rows, last_error,
                 output, response, view>>

\* asyncio.sleep, then the next iteration of the attempt loop.
RetryStep(r) ==
  /\ pc[r] = "backoff"
  /\ rows' = [rows EXCEPT ![r][index[r]].attempt = @ + 1]
  /\ Goto(r, "attempt")
  /\ UNCHANGED <<defs, committed, request, session, status, index, last_error, output,
                 response, view>>

\* Faulty variant: the loop goes on after a failed step.
RecordStepErrorAndGoOn(r) ==
  /\ pc[r] = "step_failed" /\ session[r] = "active"
  /\ rows' = [rows EXCEPT ![r][index[r]].status = "failed"]
  /\ index' = [index EXCEPT ![r] = @ + 1]
  /\ Goto(r, "loop")
  /\ UNCHANGED <<defs, committed, request, session, status, last_error, output, response,
                 view>>

\* A WorkflowStepError is never retried: the step and the execution fail.
RecordStepError(r) ==
  /\ pc[r] = "step_failed" /\ session[r] = "active"
  /\ rows' = [rows EXCEPT ![r][index[r]].status = "failed"]
  /\ status' = [status EXCEPT ![r] = "failed"]
  /\ Goto(r, "finish")
  /\ UNCHANGED <<defs, committed, request, session, index, last_error, output, response,
                 view>>

\* Faulty variant: any earlier error fails the step, even after a good retry.
AnyAttemptFailed(r) == last_error[r]

\* "if last_error is not None and not output"
AttemptsExhausted(r) == last_error[r] /\ output[r] \in {"none", "empty"}

RecordExhausted(r) ==
  /\ pc[r] = "record" /\ session[r] = "active"
  /\ AttemptsExhausted(r)
  /\ rows' = [rows EXCEPT ![r][index[r]].status = "failed"]
  /\ status' = [status EXCEPT ![r] = "failed"]
  /\ Goto(r, "finish")
  /\ UNCHANGED <<defs, committed, request, session, index, last_error, output, response,
                 view>>

RecordStep(r) ==
  /\ pc[r] = "record" /\ session[r] = "active"
  /\ ~AttemptsExhausted(r)
  /\ rows' = [rows EXCEPT ![r][index[r]].status = "completed"]
  /\ index' = [index EXCEPT ![r] = @ + 1]
  /\ Goto(r, "loop")
  /\ UNCHANGED <<defs, committed, request, session, status, last_error, output, response,
                 view>>

CompleteExecution(r) ==
  /\ pc[r] = "loop"
  /\ index[r] \notin DOMAIN Plan(r)
  /\ status' = [status EXCEPT ![r] = "completed"]
  /\ Goto(r, "finish")
  /\ UNCHANGED <<defs, committed, request, session, index, rows, last_error, output,
                 response, view>>

\* The finally block of execute().
FinishExecution(r) ==
  /\ pc[r] = "finish" /\ session[r] = "active"
  /\ Goto(r, "respond")
  /\ UNCHANGED <<defs, committed, request, session, status, index, rows, last_error,
                 output, response, view>>

\* Faulty variant: the body is built without rereading the execution.
RespondCompleted(r) ==
  /\ pc[r] = "respond" /\ session[r] = "active"
  /\ response' = [response EXCEPT ![r] = "completed"]
  /\ Goto(r, "commit")
  /\ UNCHANGED <<defs, committed, request, session, status, index, rows, last_error,
                 output, view>>

\* _fetch_steps, then the 200 whose body carries the execution's status.
Respond(r) ==
  /\ pc[r] = "respond" /\ session[r] = "active"
  /\ response' = [response EXCEPT ![r] = status[r]]
  /\ Goto(r, "commit")
  /\ UNCHANGED <<defs, committed, request, session, status, index, rows, last_error,
                 output, view>>

-----------------------------------------------------------------------------
(* The session's end: get_session *)

\* Faulty variant: the request is served again after its commit.
CommitAndReplay(r) ==
  /\ pc[r] = "commit" /\ session[r] = "active"
  /\ committed' = [committed EXCEPT ![r] = [status |-> status[r], rows |-> rows[r]]]
  /\ rows' = [rows EXCEPT ![r] = NoRows]
  /\ Goto(r, "start")
  /\ UNCHANGED <<defs, request, session, status, index, last_error, output, response,
                 view>>

Commit(r) ==
  /\ pc[r] = "commit" /\ session[r] = "active"
  /\ committed' = [committed EXCEPT ![r] = [status |-> status[r], rows |-> rows[r]]]
  /\ Goto(r, "done")
  /\ UNCHANGED <<defs, request, session, status, index, rows, last_error, output,
                 response, view>>

CommitFails(r) ==
  /\ "commit" \in Faults
  /\ pc[r] = "commit"
  /\ session' = [session EXCEPT ![r] = "invalid"]
  /\ Goto(r, "rollback")
  /\ UNCHANGED <<defs, committed, request, status, index, rows, last_error, output,
                 response, view>>

\* The coroutine's next step is a statement or a flush on the session.
AtStatement(r) ==
  \/ pc[r] \in {"fetch", "start", "step_failed", "record", "finish", "respond"}
  \/ pc[r] = "loop" /\ index[r] \in DOMAIN Plan(r) /\ DependenciesMet(r)

\* A statement raises: it fails itself, or the session is already invalid.
\* execute() catches WorkflowExecutionError only, and the flush of its finally
\* block raises again: the exception reaches get_session.
StatementRaises(r) ==
  /\ AtStatement(r)
  /\ session[r] = "invalid" \/ "statement" \in Faults
  /\ session' = [session EXCEPT ![r] = "invalid"]
  /\ Goto(r, "rollback")
  /\ UNCHANGED <<defs, committed, request, status, index, rows, last_error, output,
                 response, view>>

\* The rollback; a client not answered yet gets a 500.
Rollback(r) ==
  /\ pc[r] = "rollback"
  /\ response' = [response EXCEPT ![r] = IF @ = "none" THEN "500" ELSE @]
  /\ Goto(r, "done")
  /\ UNCHANGED <<defs, committed, request, session, status, index, rows, last_error,
                 output, view>>

\* The process serving the request dies; the database drops its transaction.
ProcessDies(r) ==
  /\ "process" \in Faults
  /\ pc[r] \in InFlight
  /\ Goto(r, "done")
  /\ UNCHANGED <<defs, committed, request, session, status, index, rows, last_error,
                 output, response, view>>

-----------------------------------------------------------------------------
(* A reader: get_execution, two statements that each see what is committed *)

NoView == [ execution |-> Absent, tenant |-> Absent, status |-> "none", rows |-> NoRows ]

ReadExecution(g, r, t) ==
  /\ view[g].execution = Absent
  /\ committed[r] # Absent
  /\ request[r].tenant = t
  /\ view' = [view EXCEPT ![g] = [ execution |-> r, tenant |-> t,
                                   status |-> committed[r].status, rows |-> NoRows ]]
  /\ UNCHANGED <<defs, committed, reqVars>>

ReadSteps(g) ==
  /\ view[g].execution # Absent
  /\ view[g].rows = NoRows
  /\ view' = [view EXCEPT ![g].rows = committed[view[g].execution].rows]
  /\ UNCHANGED <<defs, committed, reqVars>>

-----------------------------------------------------------------------------
Init ==
  /\ defs       = [w \in WorkflowIds |-> Absent]
  /\ committed  = [r \in Requests |-> Absent]
  /\ pc         = [r \in Requests |-> "idle"]
  /\ request    = [r \in Requests |-> Absent]
  /\ session    = [r \in Requests |-> "active"]
  /\ status     = [r \in Requests |-> "none"]
  /\ index      = [r \in Requests |-> 0]
  /\ rows       = [r \in Requests |-> NoRows]
  /\ last_error = [r \in Requests |-> FALSE]
  /\ output     = [r \in Requests |-> "none"]
  /\ response   = [r \in Requests |-> "none"]
  /\ view       = [g \in Readers |-> NoView]

\* The engine's part of a request, from the first flush to the last.
EngineStep(r) ==
  \/ StartExecution(r)
  \/ BeginStep(r)
  \/ DependencyUnmet(r)
  \/ \E outcome \in Outcomes : AttemptStep(r, outcome)
  \/ RetryStep(r)
  \/ RecordStepError(r)
  \/ RecordExhausted(r)
  \/ RecordStep(r)
  \/ CompleteExecution(r)
  \/ FinishExecution(r)

\* Everything the server itself does for a request once it has it.
Serve(r) ==
  \/ Refuse(r)
  \/ TriggerExecution(r)
  \/ EngineStep(r)
  \/ Respond(r)
  \/ Commit(r)
  \/ CommitFails(r)
  \/ StatementRaises(r)
  \/ Rollback(r)

Next ==
  \/ \E w \in WorkflowIds, t \in Tenants, s \in StepLists : CreateWorkflow(w, t, s)
  \/ \E w \in WorkflowIds, t \in Tenants : DeactivateWorkflow(w, t)
  \/ \E r \in Requests, w \in WorkflowIds, t \in Tenants, permitted \in BOOLEAN :
       Receive(r, w, t, permitted)
  \/ \E r \in Requests : Serve(r)
  \/ \E r \in Requests : ProcessDies(r)
  \/ \E g \in Readers, r \in Requests, t \in Tenants : ReadExecution(g, r, t)
  \/ \E g \in Readers : ReadSteps(g)

\* The event loop resumes every coroutine that can run; provider calls have
\* timeouts and sleeps are finite, so a request in flight keeps moving.
Fairness == \A r \in Requests : WF_vars(Serve(r))

Spec == Init /\ [][Next]_vars
FairSpec == Spec /\ Fairness

-----------------------------------------------------------------------------
(* Properties *)

\* Every variable ranges over the values the columns and locals of the code take.
TypeOK ==
  /\ defs \in [WorkflowIds -> DefinitionSet \cup {Absent}]
  /\ committed \in [Requests -> ExecutionSet \cup {Absent}]
  /\ pc \in [Requests -> InFlight \cup {"idle", "done"}]
  /\ request \in [Requests -> TriggerSet \cup {Absent}]
  /\ session \in [Requests -> {"active", "invalid"}]
  /\ status \in [Requests -> {"none", "pending", "running", "completed", "failed"}]
  /\ index \in [Requests -> 0..(MaxSteps + 1)]
  /\ rows \in [Requests -> [Indexes -> RowSet]]
  /\ last_error \in [Requests -> BOOLEAN]
  /\ output \in [Requests -> {"none", "value", "empty"}]
  /\ response \in [Requests -> {"none", "400", "403", "404", "500", "completed", "failed"}]
  /\ view \in [Readers -> ViewSet]

StepCompleted(row) == row.status = "completed"

\* The rows of a committed execution tell one consistent story: the steps ran
\* in definition order up to the one the engine stopped at, each of them
\* completed; a completed execution ran them all; a failed one stopped at a
\* step that failed, or that never started because a dependency had not run.
ConsistentTrail(steps, exec) ==
  \E n \in 1..(Len(steps) + 1) :
    /\ \A i \in Indexes : i < n => StepCompleted(exec.rows[i])
    /\ \A i \in Indexes : i > n => exec.rows[i] = NoRow
    /\ n \in Indexes => exec.rows[n].status \in {"none", "failed"}
    /\ exec.status = IF n > Len(steps) THEN "completed" ELSE "failed"
    /\ (n \in DOMAIN steps /\ exec.rows[n].status = "none") =>
         \E d \in steps[n].depends_on : \A i \in 1..(n - 1) : steps[i].id # d

AuditTrail ==
  \A r \in Requests : committed[r] # Absent => ConsistentTrail(Plan(r), committed[r])

RanAfterDependencies(r, i) ==
  rows[r][i].status # "none" =>
    \A d \in Plan(r)[i].depends_on :
      \E j \in 1..(i - 1) : Plan(r)[j].id = d /\ StepCompleted(rows[r][j])

\* A step has a record only if every step it depends on completed before it.
DependencyOrder == \A r \in Requests : \A i \in Indexes : RanAfterDependencies(r, i)

TruthfulRow(row) ==
  /\ row.status = "completed" => row.outcome \in {"value", "empty"}
  /\ row.status = "failed" => row.outcome \in {"step_error", "transient"}

\* A step's record says what its last attempt did: completed after one that
\* returned, failed after one that raised, whatever was swallowed in between.
StepTruthful == \A r \in Requests : \A i \in Indexes : TruthfulRow(rows[r][i])

WithinPolicy(row, step) ==
  /\ row.attempt \in 1..step.max_attempts
  /\ row.status = "failed" /\ row.outcome = "transient" =>
       row.attempt = step.max_attempts

\* A transient error fails a step only when every attempt has been used, and
\* no step is attempted more often than its retry policy says.
RetryPolicy ==
  \A r \in Requests : \A i \in Indexes :
    rows[r][i].status # "none" => WithinPolicy(rows[r][i], Plan(r)[i])

\* What the client was told is what everybody else will read: the status of
\* the 200 is the committed one, and an execution answered 4xx or 500 left none.
AnswerAgrees ==
  \A r \in Requests : committed[r] # Absent => response[r] = committed[r].status

\* An execution, and a reader of it, belong to the tenant of the definition.
TenantIsolation ==
  /\ \A r \in Requests : committed[r] # Absent =>
       defs[request[r].workflow].tenant = request[r].tenant
  /\ \A g \in Readers : view[g].execution # Absent =>
       defs[request[view[g].execution].workflow].tenant = view[g].tenant

\* get_execution needs two statements, yet no reader meets an execution under
\* way, nor steps that do not belong to the status it has read.
ReaderSeesWhole ==
  \A g \in Readers :
    LET v == view[g]
    IN  v.execution # Absent =>
          /\ v.status \in {"completed", "failed"}
          /\ v.rows # NoRows => ConsistentTrail(Plan(v.execution), v)

\* The audit trail as others see it is the write-once ledger.
LedgerView ==
  [ r \in Requests |-> IF committed[r] = Absent THEN "absent" ELSE committed[r].status ]
Ledger == INSTANCE ExecutionLedger WITH Executions <- Requests, ledger <- LedgerView
LedgerSpec == Ledger!Spec

\* Bounded attempts, finite sleeps and providers with timeouts: every request
\* the server has accepted comes to its end.
RequestsTerminate == \A r \in Requests : pc[r] = "fetch" ~> pc[r] = "done"

\* engine.py: "The overall execution status is always committed -- even on
\* failure -- so the audit trail is preserved."
AuditPreserved ==
  \A r \in Requests : pc[r] = "done" /\ status[r] # "none" => committed[r] # Absent

-----------------------------------------------------------------------------
(* The inductive invariant: what the safety properties rest on *)

InStep  == {"attempt", "backoff", "step_failed", "record"}
Ending  == {"finish", "respond", "commit"}
Ended   == {"completed", "failed"}
Current(r) == rows[r][index[r]]

\* An execution belongs to a definition of its tenant, and the place the
\* coroutine has reached says how far the execution has come.
ControlInv(r) ==
  /\ pc[r] # "idle" => request[r] # Absent
  /\ status[r] # "none" =>
       request[r] # Absent /\ Found(request[r].workflow, request[r].tenant)
  /\ pc[r] \in {"idle", "fetch"} => status[r] = "none"
  /\ pc[r] = "start" => status[r] = "pending"
  /\ pc[r] \in InStep \cup {"loop"} => status[r] = "running"
  /\ pc[r] \in Ending => status[r] \in Ended
  /\ pc[r] = "commit" => response[r] = status[r]

\* Steps before the engine's index have completed, steps after it have no row.
TrailInv(r) ==
  /\ status[r] \in {"none", "pending"} => rows[r] = NoRows
  /\ status[r] \in Ended \cup {"running"} =>
       /\ index[r] \in 1..(Len(Plan(r)) + 1)
       /\ \A i \in Indexes : i < index[r] => StepCompleted(rows[r][i])
       /\ \A i \in Indexes : i > index[r] => rows[r][i] = NoRow
       /\ index[r] \in Indexes => ~StepCompleted(Current(r))
  /\ pc[r] \in InStep => index[r] \in DOMAIN Plan(r) /\ Current(r).status = "running"
  /\ pc[r] = "loop" /\ index[r] \in Indexes => Current(r) = NoRow
  /\ status[r] = "completed" =>
       /\ index[r] = Len(Plan(r)) + 1
       /\ index[r] \in Indexes => Current(r) = NoRow
  /\ status[r] = "failed" =>
       /\ index[r] \in DOMAIN Plan(r)
       /\ \/ Current(r).status = "failed"
          \/ Current(r) = NoRow /\ ~DependenciesMet(r)

\* How an attempt ended, in the row and in the locals that decide the step.
AttemptInv(r) ==
  pc[r] \in InStep =>
    LET step == Plan(r)[index[r]]
        row  == Current(r)
    IN  /\ row.attempt \in 1..step.max_attempts
        /\ last_error[r] => step.type = "service"
        /\ pc[r] \in {"attempt", "backoff"} => output[r] = "none"
        /\ pc[r] = "backoff" => AttemptLeft(row, step)
        /\ pc[r] = "step_failed" => row.outcome = "step_error"
        /\ pc[r] = "record" =>
             IF row.outcome = "transient"
             THEN last_error[r] /\ output[r] = "none" /\ row.attempt = step.max_attempts
             ELSE row.outcome \in OutcomesOf(step.type) \ {"step_error"}
                  /\ output[r] = row.outcome

\* What is committed is what the request ended with.
CommitInv(r) ==
  committed[r] # Absent =>
    /\ pc[r] = "done" /\ status[r] \in Ended /\ response[r] = status[r]
    /\ committed[r] = [status |-> status[r], rows |-> rows[r]]

\* A reader's view is of committed data of its tenant.
ViewInv(g) ==
  LET v == view[g]
  IN  v.execution # Absent =>
        /\ committed[v.execution] # Absent
        /\ v.tenant = request[v.execution].tenant
        /\ v.status = committed[v.execution].status
        /\ v.rows # NoRows => v.rows = committed[v.execution].rows

\* What DependencyOrder, StepTruthful and RetryPolicy say of one row.
RowInv(r, i) ==
  /\ RanAfterDependencies(r, i)
  /\ TruthfulRow(rows[r][i])
  /\ rows[r][i].status # "none" => WithinPolicy(rows[r][i], Plan(r)[i])

\* The rows' own properties hold at every moment of the request, and the parts
\* above keep them so.
IInv ==
  /\ TypeOK
  /\ \A r \in Requests :
       /\ ControlInv(r) /\ TrailInv(r) /\ AttemptInv(r) /\ CommitInv(r)
       /\ \A i \in Indexes : RowInv(r, i)
  /\ \A g \in Readers : ViewInv(g)
=============================================================================
