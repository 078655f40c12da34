----------------------------- MODULE UsageMeter -----------------------------
(***************************************************************************)
(* Metering of AI calls and the monthly quota of one tenant in one billing *)
(* period: AIGatewayService.generate (app/ai_gateway/service.py) with      *)
(* QuotaService (quota.py), RAGService.ask (app/rag/service.py), and       *)
(* UsageRepository (app/saas/repository.py) that both of them call.        *)
(*                                                                         *)
(* Each call runs in a database session of its own, at READ COMMITTED:     *)
(* a SELECT sees what is committed, an UPDATE waits for the transaction    *)
(* that holds the row, an INSERT for one that is inserting the same key.   *)
(* The session refers to a loaded row weakly, and nothing else holds the   *)
(* one the quota check read: increment reads the counter again, and adds   *)
(* to it in the process.                                                   *)
(***************************************************************************)
EXTENDS Naturals, FiniteSets

CONSTANTS
  Calls,          \* calls of AIGatewayService.generate and of RAGService.ask
  Projects,       \* project ids
  NoProject,      \* a gateway request without project_id: SQL NULL
  Limit,          \* AI_MONTHLY_REQUEST_LIMIT
  MaxInFlight,    \* how many calls the load lets overlap
  Faults,         \* which failures of the environment may occur
  Absent          \* no row

Keys == Projects \cup {NoProject}

FaultKinds == {"statement", "commit", "process"}

ASSUME CallsAssumption == IsFiniteSet(Calls)
ASSUME LimitAssumption == Limit \in Nat /\ MaxInFlight \in Nat
ASSUME FaultsAssumption == Faults \subseteq FaultKinds
ASSUME NoProjectAssumption == NoProject \notin Projects
ASSUME AbsentAssumption ==
  Absent \notin Calls \cup Keys \cup [ project : Keys, ai_call_count : Nat ]

VARIABLES
  usage_records,  \* committed rows, each named by the call that inserted it
  pc,             \* where the call is
  project,        \* request.project_id
  record,         \* the UsageRecord that increment has loaded or added
  ai_call_count,  \* its attribute, as the process holds it
  inserted,       \* the call's transaction holds the new row's key
  updated,        \* the call's transaction holds the row it has updated
  session,        \* state of the AsyncSession
  response,       \* what the caller was told
  metered,        \* history: calls whose increment is committed
  overlapped,     \* history: two calls have been in flight at once
  quota_enabled   \* AI_QUOTA_ENABLED, as the process was started with it

vars == <<usage_records, pc, project, record, ai_call_count, inserted, updated, session,
          response, metered, overlapped, quota_enabled>>

InFlight == {"check", "generate", "search", "answer", "fetch", "insert", "update",
             "commit", "rollback"}

CallsInFlight == { d \in Calls : pc[d] \in InFlight }

Goto(c, label) == pc' = [pc EXCEPT ![c] = label]
Answer(c, r) == response' = [response EXCEPT ![c] = r]

\* The SELECT of a usage record by tenant, period and project.
Matching(k) == { i \in Calls : usage_records[i] # Absent /\ usage_records[i].project = k }

-----------------------------------------------------------------------------
\* A call arrives and passes its permission gate, or is refused there.
Receive(c, k, label) ==
  /\ pc[c] = "idle"
  /\ Cardinality(CallsInFlight) < MaxInFlight
  /\ overlapped' = (overlapped \/ CallsInFlight # {})
  /\ project' = [project EXCEPT ![c] = k]
  /\ \/ Goto(c, label) /\ UNCHANGED response
     \/ Goto(c, "rollback") /\ Answer(c, "forbidden")
  /\ UNCHANGED <<usage_records, record, ai_call_count, inserted, updated, session,
                 metered, quota_enabled>>

\* A gateway request arrives, with a project or without.
CallGenerate(c, k) == Receive(c, k, "check")

\* A question arrives: AskRequest requires a project, and no quota is checked.
CallAsk(c, k) == k # NoProject /\ Receive(c, k, "search")

\* Faulty variant: one call more than the limit.
CheckQuotaInclusive(c) ==
  /\ pc[c] = "check"
  /\ LET found == Matching(project[c])
     IN  \/ /\ \/ ~quota_enabled
               \/ \A i \in found : found = {i} /\ usage_records[i].ai_call_count <= Limit
            /\ Goto(c, "generate")
            /\ UNCHANGED response
         \/ /\ quota_enabled
            /\ \E i \in found : found = {i} /\ usage_records[i].ai_call_count > Limit
            /\ Answer(c, "quota_exceeded")
            /\ Goto(c, "rollback")
  /\ UNCHANGED <<usage_records, project, record, ai_call_count, inserted, updated, session,
                 metered, overlapped, quota_enabled>>

\* QuotaService.check: switched off, no row yet, or one whose counter is
\* compared with the limit.  It is the row of the request's project that is
\* read, and no other of the tenant's.  A Failure ends in an HTTPException,
\* hence in a rollback.
CheckQuota(c) ==
  /\ pc[c] = "check"
  /\ LET found == Matching(project[c])
     IN  \/ /\ \/ ~quota_enabled
               \/ \A i \in found : found = {i} /\ usage_records[i].ai_call_count < Limit
            /\ Goto(c, "generate")
            /\ UNCHANGED response
         \/ /\ quota_enabled
            /\ \E i \in found : found = {i} /\ usage_records[i].ai_call_count >= Limit
            /\ Answer(c, "quota_exceeded")
            /\ Goto(c, "rollback")
  /\ UNCHANGED <<usage_records, project, record, ai_call_count, inserted, updated, session,
                 metered, overlapped, quota_enabled>>

\* scalar_one_or_none() on two rows: generate() does not catch it.
CheckRaises(c) ==
  /\ pc[c] = "check" /\ quota_enabled
  /\ Cardinality(Matching(project[c])) > 1
  /\ Answer(c, "raised")
  /\ Goto(c, "rollback")
  /\ UNCHANGED <<usage_records, project, record, ai_call_count, inserted, updated, session,
                 metered, overlapped, quota_enabled>>

\* ask embeds the question and searches the chunks of the project: it finds
\* some, answers that there are none, or the embedder fails.
Search(c) ==
  /\ pc[c] = "search"
  /\ \/ Goto(c, "answer") /\ UNCHANGED response
     \/ Goto(c, "commit") /\ Answer(c, "success")
     \/ Goto(c, "rollback") /\ Answer(c, "unavailable")
  /\ UNCHANGED <<usage_records, project, record, ai_call_count, inserted, updated, session,
                 metered, overlapped, quota_enabled>>

\* The provider is awaited: it answers, or fails, in any way generate turns
\* into a Failure.
Generate(c) ==
  /\ pc[c] = "generate"
  /\ \/ Goto(c, "fetch") /\ UNCHANGED response
     \/ Goto(c, "rollback") /\ Answer(c, "unavailable")
  /\ UNCHANGED <<usage_records, project, record, ai_call_count, inserted, updated, session,
                 metered, overlapped, quota_enabled>>

\* ask handles that the provider is unavailable, and no other exception of it.
AnswerQuestion(c) ==
  /\ pc[c] = "answer"
  /\ \/ Goto(c, "fetch") /\ UNCHANGED response
     \/ Goto(c, "rollback") /\ \E a \in {"unavailable", "ask_raised"} : Answer(c, a)
  /\ UNCHANGED <<usage_records, project, record, ai_call_count, inserted, updated, session,
                 metered, overlapped, quota_enabled>>

-----------------------------------------------------------------------------
(* UsageRepository.increment, inside a try that swallows every exception *)

\* get_or_create reads the row; two rows raise, and the call goes unmetered.
FetchRecord(c) ==
  /\ pc[c] = "fetch"
  /\ LET found == Matching(project[c])
     IN  \/ /\ found = {}
            /\ Goto(c, "insert")
            /\ UNCHANGED <<record, ai_call_count, response>>
         \/ \E i \in found :
              /\ found = {i}
              /\ record' = [record EXCEPT ![c] = i]
              /\ ai_call_count' = [ai_call_count EXCEPT ![c] = usage_records[i].ai_call_count]
              /\ Goto(c, "update")
              /\ UNCHANGED response
         \/ /\ Cardinality(found) > 1
            /\ Answer(c, "success")
            /\ Goto(c, "commit")
            /\ UNCHANGED <<record, ai_call_count>>
  /\ UNCHANGED <<usage_records, project, inserted, updated, session, metered, overlapped, quota_enabled>>

\* The unique constraint does not apply to rows whose project_id is NULL.
Inserting(k) == { d \in Calls : inserted[d] /\ project[d] = k }
KeyFree(k) == k = NoProject \/ Inserting(k) = {}

\* Faulty variant: no unique constraint.
InsertRecordUnchecked(c) ==
  /\ pc[c] = "insert" /\ session[c] = "active"
  /\ inserted' = [inserted EXCEPT ![c] = TRUE]
  /\ record' = [record EXCEPT ![c] = c]
  /\ ai_call_count' = [ai_call_count EXCEPT ![c] = 0]
  /\ Goto(c, "update")
  /\ UNCHANGED <<usage_records, project, updated, session, response, metered, overlapped, quota_enabled>>

InsertRecord(c) ==
  /\ pc[c] = "insert" /\ session[c] = "active"
  /\ KeyFree(project[c])
  /\ project[c] = NoProject \/ Matching(project[c]) = {}
  /\ inserted' = [inserted EXCEPT ![c] = TRUE]
  /\ record' = [record EXCEPT ![c] = c]
  /\ ai_call_count' = [ai_call_count EXCEPT ![c] = 0]
  /\ Goto(c, "update")
  /\ UNCHANGED <<usage_records, project, updated, session, response, metered, overlapped, quota_enabled>>

\* IntegrityError: somebody has committed the row since the SELECT.
InsertCollides(c) ==
  /\ pc[c] = "insert"
  /\ project[c] # NoProject /\ KeyFree(project[c]) /\ Matching(project[c]) # {}
  /\ session' = [session EXCEPT ![c] = "invalid"]
  /\ Answer(c, "success")
  /\ Goto(c, "commit")
  /\ UNCHANGED <<usage_records, project, record, ai_call_count, inserted, updated, metered,
                 overlapped, quota_enabled>>

RowFree(c) == \A d \in Calls \ {c} : ~(updated[d] /\ record[d] = record[c])

\* Faulty variant: the call is counted once per flush.
UpdateRecordTwice(c) ==
  /\ pc[c] = "update" /\ session[c] = "active"
  /\ RowFree(c)
  /\ ai_call_count' = [ai_call_count EXCEPT ![c] = @ + 2]
  /\ updated' = [updated EXCEPT ![c] = TRUE]
  /\ Answer(c, "success")
  /\ Goto(c, "commit")
  /\ UNCHANGED <<usage_records, project, record, inserted, session, metered, overlapped, quota_enabled>>

\* "record.ai_call_count += 1" and the flush: the UPDATE writes the sum that
\* was computed from the counter the session held.
UpdateRecord(c) ==
  /\ pc[c] = "update" /\ session[c] = "active"
  /\ RowFree(c)
  /\ ai_call_count' = [ai_call_count EXCEPT ![c] = @ + 1]
  /\ updated' = [updated EXCEPT ![c] = TRUE]
  /\ Answer(c, "success")
  /\ Goto(c, "commit")
  /\ UNCHANGED <<usage_records, project, record, inserted, session, metered, overlapped, quota_enabled>>

\* The locks of the transaction go with it.
Release(c) ==
  /\ inserted' = [inserted EXCEPT ![c] = FALSE]
  /\ updated' = [updated EXCEPT ![c] = FALSE]

\* A statement fails, and the transaction with it: those of the quota check and
\* of the search let the exception through, increment is in a handler that
\* swallows it.
StatementFails(c) ==
  /\ "statement" \in Faults
  /\ session[c] = "active"
  /\ \/ pc[c] = "check" /\ quota_enabled /\ Answer(c, "raised") /\ Goto(c, "rollback")
     \/ pc[c] = "search" /\ Answer(c, "ask_raised") /\ Goto(c, "rollback")
     \/ pc[c] \in {"fetch", "insert", "update"} /\ Answer(c, "success") /\ Goto(c, "commit")
  /\ session' = [session EXCEPT ![c] = "invalid"]
  /\ Release(c)
  /\ UNCHANGED <<usage_records, project, record, ai_call_count, metered, overlapped, quota_enabled>>

-----------------------------------------------------------------------------
(* The session's end *)

Commit(c) ==
  /\ pc[c] = "commit" /\ session[c] = "active"
  /\ usage_records' =
       IF updated[c]
       THEN [usage_records EXCEPT
               ![record[c]] = [project |-> project[c], ai_call_count |-> ai_call_count[c]]]
       ELSE usage_records
  /\ metered' = IF updated[c] THEN metered \cup {c} ELSE metered
  /\ Release(c)
  /\ Goto(c, "done")
  /\ UNCHANGED <<project, record, ai_call_count, session, response, overlapped, quota_enabled>>

\* COMMIT fails, or is refused because a flush has failed before.
CommitFails(c) ==
  /\ pc[c] = "commit"
  /\ session[c] = "invalid" \/ "commit" \in Faults
  /\ Goto(c, "rollback")
  /\ UNCHANGED <<usage_records, project, record, ai_call_count, inserted, updated, session,
                 response, metered, overlapped, quota_enabled>>

\* Faulty variant: the session is not rolled back.
RollbackForgotten(c) ==
  /\ pc[c] = "rollback"
  /\ Goto(c, "done")
  /\ UNCHANGED <<usage_records, project, record, ai_call_count, inserted, updated, session,
                 response, metered, overlapped, quota_enabled>>

Rollback(c) ==
  /\ pc[c] = "rollback"
  /\ Release(c)
  /\ Goto(c, "done")
  /\ UNCHANGED <<usage_records, project, record, ai_call_count, session, response, metered,
                 overlapped, quota_enabled>>

\* The process dies; the database drops the transaction.
ProcessDies(c) ==
  /\ "process" \in Faults
  /\ pc[c] \in InFlight
  /\ Release(c)
  /\ Goto(c, "done")
  /\ UNCHANGED <<usage_records, project, record, ai_call_count, session, response, metered,
                 overlapped, quota_enabled>>

-----------------------------------------------------------------------------
Init ==
  /\ usage_records = [c \in Calls |-> Absent]
  /\ pc            = [c \in Calls |-> "idle"]
  /\ project       = [c \in Calls |-> Absent]
  /\ record        = [c \in Calls |-> Absent]
  /\ ai_call_count = [c \in Calls |-> 0]
  /\ inserted      = [c \in Calls |-> FALSE]
  /\ updated       = [c \in Calls |-> FALSE]
  /\ session       = [c \in Calls |-> "active"]
  /\ response      = [c \in Calls |-> "none"]
  /\ metered       = {}
  /\ overlapped    = FALSE
  /\ quota_enabled \in BOOLEAN

Increment(c) ==
  FetchRecord(c) \/ InsertRecord(c) \/ InsertCollides(c) \/ UpdateRecord(c)

Serve(c) ==
  \/ CheckQuota(c) \/ CheckRaises(c) \/ Generate(c)
  \/ Search(c) \/ AnswerQuestion(c)
  \/ Increment(c)
  \/ Commit(c) \/ CommitFails(c) \/ Rollback(c)

Next ==
  \/ \E c \in Calls, k \in Keys : CallGenerate(c, k) \/ CallAsk(c, k)
  \/ \E c \in Calls : Serve(c)
  \/ \E c \in Calls : StatementFails(c) \/ ProcessDies(c)

\* The event loop resumes every coroutine that can run, the provider client
\* has a timeout, and PostgreSQL grants a lock that has been released.  A fault
\* is never due: no call may depend on a failure of its statement to end.
Fairness == \A c \in Calls : WF_vars(Serve(c))

Spec == Init /\ [][Next]_vars
FairSpec == Spec /\ Fairness

-----------------------------------------------------------------------------
(* Properties *)

\* The rows, attributes and answers keep the types the code gives them.
TypeOK ==
  /\ usage_records \in [Calls -> [ project : Keys, ai_call_count : Nat ] \cup {Absent}]
  /\ pc \in [Calls -> InFlight \cup {"idle", "done"}]
  /\ project \in [Calls -> Keys \cup {Absent}]
  /\ record \in [Calls -> Calls \cup {Absent}]
  /\ ai_call_count \in [Calls -> Nat]
  /\ inserted \in [Calls -> BOOLEAN]
  /\ updated \in [Calls -> BOOLEAN]
  /\ session \in [Calls -> {"active", "invalid"}]
  /\ response \in [Calls -> {"none", "success", "forbidden", "quota_exceeded",
                            "unavailable", "raised", "ask_raised"}]
  /\ metered \subseteq Calls
  /\ overlapped \in BOOLEAN /\ quota_enabled \in BOOLEAN

MeteredOn(i) == { c \in metered : record[c] = i }
MeteredFor(k) == { c \in metered : project[c] = k }

\* However calls overlap, fail and wait for each other, no row counts more
\* calls than were metered on it: nobody is refused for calls never made.
NeverOvercounts ==
  \A i \in Calls : usage_records[i] # Absent =>
    usage_records[i].ai_call_count <= Cardinality(MeteredOn(i))

UniqueRecord == \A k \in Projects : \A i, j \in Matching(k) : i = j

\* A project has at most one row, whoever raced to create it, so that reading
\* it raises for a gateway call that names a project only if a statement fails.
OneRecordPerProject ==
  /\ UniqueRecord
  /\ \A c \in Calls : response[c] = "raised" /\ project[c] \in Projects =>
       session[c] = "invalid"

\* The inductive invariant behind it.  A row is named by a call that is done; a
\* key is held by one transaction, and only while no row has it; what is
\* updated is a row of the call's own project.
RowInv ==
  \A i \in Calls : usage_records[i] # Absent =>
    pc[i] = "done" /\ project[i] = usage_records[i].project
KeyInv ==
  \A c \in Calls : inserted[c] =>
    /\ pc[c] \in {"update", "commit", "rollback"}
    /\ record[c] = c
    /\ project[c] \in Projects => Matching(project[c]) = {} /\ Inserting(project[c]) = {c}
LockInv ==
  \A c \in Calls : updated[c] \/ (pc[c] = "update" /\ session[c] = "active") =>
    /\ pc[c] \in {"update", "commit", "rollback"}
    /\ inserted[c] \/ record[c] \in Matching(project[c])
CallInv ==
  \A c \in Calls :
    /\ pc[c] # "idle" => project[c] \in Keys
    /\ response[c] = "raised" => pc[c] \in {"rollback", "done"}

IInv == TypeOK /\ RowInv /\ KeyInv /\ LockInv /\ CallInv /\ OneRecordPerProject

\* The inductive invariant behind NeverOvercounts.  A metered call is over; what a
\* call has read is no more than is metered on the row, and what it has written
\* and not committed one more at most.
CountInv ==
  /\ \A c \in metered : pc[c] = "done"
  /\ NeverOvercounts
  /\ \A c \in Calls : pc[c] = "update" /\ session[c] = "active" =>
       ai_call_count[c] <= Cardinality(MeteredOn(record[c]))
  /\ \A c \in Calls : updated[c] =>
       ai_call_count[c] <= Cardinality(MeteredOn(record[c])) + 1

\* A call that waits for another's row or key gets its turn and ends.
CallsEnd == \A c \in Calls : pc[c] \in InFlight ~> pc[c] = "done"

\* As long as no two calls have overlapped they are counted exactly, in one row
\* per project, whichever of them failed half way.
CounterExact ==
  ~overlapped =>
    \A k \in Keys :
      \/ Matching(k) = {} /\ MeteredFor(k) = {}
      \/ \E i \in Calls :
           /\ Matching(k) = {i}
           /\ usage_records[i].ai_call_count = Cardinality(MeteredFor(k))

\* The inductive invariant behind it.  The one call in flight that finds no row
\* is still right when it inserts; what it has read is what was metered for its
\* project, in the only row there is, and what it has written is one more.
AloneInv ==
  ~overlapped =>
    /\ \A c, d \in CallsInFlight : c = d
    /\ \A c \in Calls :
         /\ pc[c] = "insert" => Matching(project[c]) = {}
         /\ pc[c] = "update" /\ session[c] = "active" =>
              /\ Matching(project[c]) \subseteq {record[c]}
              /\ ai_call_count[c] = Cardinality(MeteredFor(project[c]))
         /\ updated[c] =>
              /\ Matching(project[c]) \subseteq {record[c]}
              /\ ai_call_count[c] = Cardinality(MeteredFor(project[c])) + 1

GoesOnTooLate(c) ==
  /\ quota_enabled
  /\ pc[c] = "check" /\ pc'[c] = "generate"
  /\ Cardinality(MeteredFor(project[c])) >= Limit

\* quota.py:39: "Returns Failure [...] if the monthly limit has been reached".  A
\* call goes on to the provider only while fewer calls of its own project than
\* the limit were metered.  The limit is documented as the tenant's (quota.py:1-6,
\* 25, 37), which asks for more: what breaks this breaks that as well.
QuotaEnforced == [][\A c \in Calls : ~GoesOnTooLate(c)]_vars

\* What the code keeps of it, project by project and not for the tenant, whose
\* other rows are not read (quota.py:77-79), so that one with several projects
\* gets the limit several times: while no two calls have overlapped, a call goes
\* on to the provider only if none was metered for its project, or fewer than
\* the limit.
ProjectQuotaKept ==
  [][\A c \in Calls :
       GoesOnTooLate(c) => overlapped \/ MeteredFor(project[c]) = {}]_vars

\* service.py, generate: "Never raises -- all failures are returned as Failure".
NeverRaises == \A c \in Calls : response[c] # "raised"
=============================================================================
