----------------------------- MODULE Documents -----------------------------
(***************************************************************************)
(* Documents and search: RAGService (app/rag/service.py) on its            *)
(* repositories, and VisionService (app/vision/service.py), which indexes  *)
(* what it has read through it.  A document arrives by the routes          *)
(* POST /v1/rag/upload and /v1/vision/analyze, ocr and extract, or by the  *)
(* workflow steps rag_index, vision_analyze and vision_extract.            *)
(*                                                                         *)
(* Every request has one transaction, which ends after the response has    *)
(* been sent.  A route that answers an error rolls it back; vision         *)
(* swallows the errors of indexing, and a workflow records a step that     *)
(* failed and retries one that raised, so both commit what an unfinished   *)
(* upload has left behind.                                                 *)
(***************************************************************************)
EXTENDS Chunker, FiniteSets

CONSTANTS
  Uploads,      \* requests that bring a document
  Readers,      \* requests that search or list
  Inputs,       \* the bodies and identities each may come with
  Tenants, Projects,
  NoProject,    \* the form or the config names none
  BadProject,   \* it names what is no UUID
  Lengths,      \* lengths of normalised texts, 0 for one that is blank
  MaxAttempts,  \* a workflow step's retry.max_attempts
  TopK,         \* top_k of a search
  Faults,       \* which failures of the environment may occur
  Absent

\* "embedding": EmbeddingError; "provider": VisionProviderUnavailableError;
\* "transport": any other exception of the call to either; "statement": one of
\* the database's; "commit": the final COMMIT; "process": the server itself.
FaultKinds == {"embedding", "provider", "transport", "statement", "commit", "process"}

RagDoors == {"upload", "rag_index"}
AnalyzeDoors == {"analyze", "ocr", "vision_analyze"}
ExtractDoors == {"extract", "vision_extract"}
VisionDoors == AnalyzeDoors \cup ExtractDoors
Workflows == {"rag_index", "vision_analyze", "vision_extract"}
Permissions == {"rag.upload", "vision.analyze", "vision.extract"}

\* "type": an unsupported extension; "size": over the limit; "malformed": cannot
\* be parsed.
Files == {"fine", "type", "size", "malformed"}

InputSet ==
  [ door : RagDoors \cup VisionDoors, tenant : Tenants,
    project : Projects \cup {NoProject, BadProject}, index_into_rag : BOOLEAN, file : Files,
    length : Lengths, permissions : SUBSET Permissions ]

Attempts == 1..MaxAttempts

ChunkIndexes == { i \in Nat : \E l \in Lengths : i < ChunkCount(l) }
DocumentRows ==
  [ status : {"none", "pending", "failed", "indexed"},
    chunks : SUBSET ChunkIndexes ]
NoRow == [ status |-> "none", chunks |-> {} ]

Answers == {"none", "indexed", "index_failed", "ok", "completed", "failed",
            "400", "403", "413", "415", "422", "500", "503"}

ASSUME LengthsAssumption == Lengths \subseteq Nat
ASSUME AttemptsAssumption == MaxAttempts \in Nat \ {0}
ASSUME InputsAssumption == Inputs \in [Uploads -> SUBSET InputSet]
ASSUME ProjectAssumption == NoProject \notin Projects /\ BadProject \notin Projects
ASSUME FaultsAssumption == Faults \subseteq FaultKinds
ASSUME AbsentAssumption ==
  Absent \notin InputSet \cup [ tenant : Tenants, project : Projects ]
    \cup [ tenant : Tenants, project : Projects, copy : Attempts, length : Lengths ]

VARIABLES
  pc,       \* where the coroutine serving the upload is
  input,
  attempt,  \* of the workflow step
  rows,     \* documents, one per attempt, with their document_chunks
  embedded, \* embed_batch: chunks embedded so far
  session,  \* a statement that failed leaves it unusable until the rollback
  outcome,  \* what upload_document came to
  event,    \* vision_events: indexed_into_rag of the request's row
  told,     \* the response
  stored,   \* uploads whose transaction is committed
  query,    \* the tenant and project a reader asks for, its query embedded
  found     \* the chunks it was given

docVars == <<pc, input, attempt, rows, embedded, session, outcome, event, told, stored>>
vars == <<docVars, query, found>>

InFlight == {"validate", "provider", "parse", "embed", "mark_failed", "store_chunks",
             "mark_indexed", "returned", "log", "respond", "record", "commit", "rollback"}

Uploading == {"parse", "embed", "mark_failed", "store_chunks", "mark_indexed"}

Goto(u, label) == pc' = [pc EXCEPT ![u] = label]
Tell(u, answer) == told' = [told EXCEPT ![u] = answer]
Comes(u, result) == outcome' = [outcome EXCEPT ![u] = result]
Input(u) == input[u]
Row(u) == rows[u][attempt[u]]
InWorkflow(u) == Input(u).door \in Workflows
Count(u) == ChunkCount(Input(u).length)

-----------------------------------------------------------------------------
(* The doors *)

\* _require.
Forbidden(q) ==
  \/ q.door \in {"analyze", "ocr"} /\ "vision.analyze" \notin q.permissions
  \/ q.door = "extract" /\ "vision.extract" \notin q.permissions

\* The form lacks project_id, which the routes but that of OCR require, or the
\* UUID the upload route asks for: the route is not entered.
Incomplete(q) ==
  \/ q.door \in {"upload", "analyze", "extract"} /\ q.project = NoProject
  \/ q.door = "upload" /\ q.project = BadProject

\* _parse_project_id of vision's routes, _parse_uuid of the steps: rag_index
\* parses the empty string too.
Unprocessable(q) ==
  \/ q.project = BadProject
  \/ q.door = "rag_index" /\ q.project = NoProject

\* An HTTPException sends get_session to its rollback.
Refuse(u, code) == Tell(u, code) /\ Goto(u, "rollback") /\ UNCHANGED outcome

\* A WorkflowStepError: recorded by the engine and never retried.
StepFails(u) == Comes(u, "failure") /\ Goto(u, "record") /\ UNCHANGED told

Receive(u, q) ==
  /\ pc[u] = "idle"
  /\ input' = [input EXCEPT ![u] = q]
  /\ IF Incomplete(q) THEN Refuse(u, "422")
     ELSE IF Forbidden(q) THEN Refuse(u, "403")
     ELSE IF Unprocessable(q) THEN IF q.door \in Workflows THEN StepFails(u) ELSE Refuse(u, "422")
     ELSE /\ Goto(u, IF q.door \in RagDoors THEN "parse" ELSE "validate")
          /\ UNCHANGED <<told, outcome>>
  /\ UNCHANGED <<attempt, rows, embedded, session, event, stored, query, found>>

\* Faulty variant: an attempt that raised is not counted.
RaiseUncounted(u, code) ==
  IF ~InWorkflow(u) THEN Refuse(u, code) /\ UNCHANGED attempt
  ELSE /\ Goto(u, IF Input(u).door = "rag_index" THEN "parse" ELSE "validate")
       /\ Comes(u, "none")
       /\ UNCHANGED <<attempt, told>>

\* An exception of the call the request awaits.  Of a workflow it uses up an
\* attempt, and the last one ends the step; of a route it is a 500 or a 503.
Raise(u, code) ==
  IF ~InWorkflow(u) THEN Refuse(u, code) /\ UNCHANGED attempt
  ELSE IF attempt[u] < MaxAttempts
  THEN /\ attempt' = [attempt EXCEPT ![u] = @ + 1]
       /\ Goto(u, IF Input(u).door = "rag_index" THEN "parse" ELSE "validate")
       /\ Comes(u, "none")
       /\ UNCHANGED told
  ELSE StepFails(u) /\ UNCHANGED attempt

\* validate_file, and for a PDF is_pdf_file and extract_pdf_text.
Rejected(u) == Input(u).file \in {"type", "size"}

\* "if index_into_rag and project_id", and for a PDF "and total_chars > 0".
WantsIndex(u) ==
  LET q == Input(u)
  IN  /\ q.index_into_rag /\ q.project \in Projects
      /\ q.door \in ExtractDoors => q.length > 0

Proceed(u) == Goto(u, IF WantsIndex(u) THEN "parse" ELSE "log")

ValidateFile(u) ==
  /\ pc[u] = "validate"
  /\ \/ /\ Rejected(u)
        /\ IF InWorkflow(u) THEN StepFails(u)
           ELSE Refuse(u, IF Input(u).file = "type" THEN "415" ELSE "413")
        /\ UNCHANGED attempt
     \/ /\ ~Rejected(u)
        /\ CASE Input(u).door \in AnalyzeDoors ->
                  Goto(u, "provider") /\ UNCHANGED <<attempt, outcome, told>>
             [] Input(u).door \in ExtractDoors /\ Input(u).file = "malformed" -> Raise(u, "500")
             [] OTHER -> Proceed(u) /\ UNCHANGED <<attempt, outcome, told>>
  /\ UNCHANGED <<input, rows, embedded, session, event, stored, query, found>>

\* await provider.analyze(...)
Analyze(u) ==
  /\ pc[u] = "provider"
  /\ Proceed(u)
  /\ UNCHANGED <<input, attempt, outcome, told, rows, embedded, session, event, stored, query, found>>

\* It is unreachable, late or refuses; of Gemini, what httpx raises passes as it is.
AnalyzeFails(u) ==
  /\ pc[u] = "provider"
  /\ \/ "provider" \in Faults /\ Raise(u, "503")
     \/ "transport" \in Faults /\ Raise(u, "500")
  /\ UNCHANGED <<input, rows, embedded, session, event, stored, query, found>>

-----------------------------------------------------------------------------
(* upload_document *)

\* A Failure before anything is written; what vision has read is always fine,
\* except that it may be blank.
Unusable(q) ==
  \/ "rag.upload" \notin q.permissions
  \/ q.door \in RagDoors /\ q.file # "fine"
  \/ q.length = 0

FailureCode(q) ==
  CASE "rag.upload" \notin q.permissions -> "403"
    [] q.file = "size" -> "413"
    [] q.file = "type" -> "400"
    [] OTHER -> "500"

\* upload_document has returned a Failure: _map_failure, _index_text or
\* _rag_index turn it into what their caller understands.
Fail(u, code) ==
  CASE Input(u).door = "upload" -> Refuse(u, code)
    [] Input(u).door = "rag_index" -> StepFails(u)
    [] OTHER -> Comes(u, "index_failed") /\ Goto(u, "log") /\ UNCHANGED told

\* upload_document has raised: _index_text swallows that too.
Throw(u) ==
  IF Input(u).door \in RagDoors THEN Raise(u, "500")
  ELSE Comes(u, "index_failed") /\ Goto(u, "log") /\ UNCHANGED <<attempt, told>>

ParseFails(u) ==
  /\ pc[u] = "parse"
  /\ Unusable(Input(u))
  /\ Fail(u, FailureCode(Input(u)))
  /\ UNCHANGED <<input, attempt, rows, embedded, session, event, stored, query, found>>

CreateDocument(u) ==
  /\ pc[u] = "parse" /\ session[u] = "active"
  /\ ~Unusable(Input(u))
  /\ rows' = [rows EXCEPT ![u][attempt[u]] = [status |-> "pending", chunks |-> {}]]
  /\ embedded' = [embedded EXCEPT ![u] = 0]
  /\ Goto(u, "embed")
  /\ UNCHANGED <<input, attempt, session, outcome, event, told, stored, query, found>>

\* embed_batch: one request to Ollama per chunk, each bounded by its timeout.
EmbedChunk(u) ==
  /\ pc[u] = "embed"
  /\ embedded' = [embedded EXCEPT ![u] = @ + 1]
  /\ IF embedded[u] + 1 < Count(u) THEN UNCHANGED pc ELSE Goto(u, "store_chunks")
  /\ UNCHANGED <<input, attempt, rows, session, outcome, event, told, stored, query, found>>

EmbedFails(u) ==
  /\ pc[u] = "embed"
  /\ \/ "embedding" \in Faults /\ Goto(u, "mark_failed") /\ UNCHANGED <<attempt, outcome, told>>
     \/ "transport" \in Faults /\ Throw(u)
  /\ UNCHANGED <<input, rows, embedded, session, event, stored, query, found>>

MarkFailed(u) ==
  /\ pc[u] = "mark_failed" /\ session[u] = "active"
  /\ rows' = [rows EXCEPT ![u][attempt[u]].status = "failed"]
  /\ Fail(u, "503")
  /\ UNCHANGED <<input, attempt, embedded, session, event, stored, query, found>>

\* create_batch: all chunks in one flush.
StoreChunks(u) ==
  /\ pc[u] = "store_chunks" /\ session[u] = "active"
  /\ rows' = [rows EXCEPT ![u][attempt[u]].chunks = 0..(Count(u) - 1)]
  /\ Goto(u, "mark_indexed")
  /\ UNCHANGED <<input, attempt, embedded, session, outcome, event, told, stored, query, found>>

\* set_status(INDEXED), and the Success as each door reports it.
MarkIndexed(u) ==
  /\ pc[u] = "mark_indexed" /\ session[u] = "active"
  /\ rows' = [rows EXCEPT ![u][attempt[u]].status = "indexed"]
  /\ Comes(u, "indexed")
  /\ Goto(u, CASE Input(u).door = "upload" -> "respond"
               [] Input(u).door = "rag_index" -> "record"
               [] OTHER -> "log")
  /\ UNCHANGED <<input, attempt, embedded, session, event, told, stored, query, found>>

-----------------------------------------------------------------------------
(* The audit event and the answer *)

\* Faulty variant: every event is flagged as that of an OCR, with what was asked.
FlagWanted(u) == WantsIndex(u)

\* indexed_into_rag: what became of the text, except that the OCR logs what was asked.
Flag(u) == IF Input(u).door = "ocr" THEN WantsIndex(u) ELSE outcome[u] = "indexed"

LogEvent(u) ==
  /\ pc[u] = "log" /\ session[u] = "active"
  /\ event' = [event EXCEPT ![u] = IF Flag(u) THEN "indexed" ELSE "plain"]
  /\ Goto(u, IF InWorkflow(u) THEN "record" ELSE "respond")
  /\ UNCHANGED <<input, attempt, rows, embedded, session, outcome, told, stored, query, found>>

\* A statement is refused, or the session is already unusable: the exception
\* leaves upload_document, or past it the service.
StatementFails(u) ==
  /\ pc[u] \in {"parse", "mark_failed", "store_chunks", "mark_indexed", "log"}
  /\ pc[u] = "parse" => ~Unusable(Input(u))
  /\ "statement" \in Faults \/ session[u] = "invalid"
  /\ session' = [session EXCEPT ![u] = "invalid"]
  /\ IF pc[u] = "log" THEN Raise(u, "500") ELSE Throw(u)
  /\ UNCHANGED <<input, rows, embedded, event, stored, query, found>>

\* The body of the 200: index_status, or nothing about it.
Respond(u) ==
  /\ pc[u] = "respond"
  /\ Tell(u, CASE Input(u).door # "ocr" /\ outcome[u] \in {"indexed", "index_failed"} -> outcome[u]
               [] OTHER -> "ok")
  /\ Goto(u, "commit")
  /\ UNCHANGED <<input, attempt, rows, embedded, session, outcome, event, stored, query, found>>

\* The engine flushes the step's record; its status says nothing of what vision
\* has indexed.
RecordStep(u) ==
  /\ pc[u] = "record"
  /\ \/ /\ session[u] = "active"
        /\ Tell(u, IF outcome[u] = "failure" THEN "failed" ELSE "completed")
        /\ Goto(u, "commit")
     \/ /\ session[u] = "invalid"
        /\ Tell(u, "500") /\ Goto(u, "rollback")
  /\ UNCHANGED <<input, attempt, rows, embedded, session, outcome, event, stored, query, found>>

Commit(u) ==
  /\ pc[u] = "commit"
  /\ \/ stored' = stored \cup {u}
     \/ "commit" \in Faults /\ UNCHANGED stored
  /\ Goto(u, "done")
  /\ UNCHANGED <<input, attempt, rows, embedded, session, outcome, event, told, query, found>>

\* Faulty variant: the errors of the route are answered and then committed.
RollbackNothing(u) ==
  /\ pc[u] = "rollback"
  /\ stored' = IF session[u] = "active" THEN stored \cup {u} ELSE stored
  /\ Goto(u, "done")
  /\ UNCHANGED <<input, attempt, rows, embedded, session, outcome, event, told, query, found>>

Rollback(u) ==
  /\ pc[u] = "rollback"
  /\ Goto(u, "done")
  /\ UNCHANGED <<input, attempt, rows, embedded, session, outcome, event, told, stored, query,
                 found>>

\* The server dies: the database drops the transaction.
ProcessDies(u) ==
  /\ "process" \in Faults
  /\ pc[u] \in InFlight
  /\ Goto(u, "done")
  /\ UNCHANGED <<input, attempt, rows, embedded, session, outcome, event, told, stored, query,
                 found>>

-----------------------------------------------------------------------------
(* Searching *)

Pieces(u, a) == { <<u, a, i>> : i \in rows[u][a].chunks }

\* Faulty variant: the join is on the project alone.
MatchingAnyTenant(t, p) ==
  UNION { Pieces(u, a) : u \in { v \in stored : Input(v).project = p }, a \in Attempts }

\* Committed chunks of the tenant's project.  The status of their document is
\* not asked for.
Matching(t, p) ==
  UNION { Pieces(u, a) :
    u \in { v \in stored : Input(v).tenant = t /\ Input(v).project = p }, a \in Attempts }

\* list_by_project: documents of any status.
Listed(t, p) ==
  { d \in stored \X Attempts :
    /\ Input(d[1]).tenant = t /\ Input(d[1]).project = p
    /\ rows[d[1]][d[2]].status # "none" }

\* The permission has been looked at; the query is being embedded.
Ask(s, t, p) ==
  /\ query[s] = Absent
  /\ query' = [query EXCEPT ![s] = [tenant |-> t, project |-> p]]
  /\ UNCHANGED <<docVars, found>>

\* search_similar: one statement, then the top_k closest of its rows, or all if
\* they are no more (with USE_PGVECTOR off, its default: the index of pgvector
\* may miss some).
Search(s) ==
  /\ query[s] # Absent
  /\ \E best \in SUBSET Matching(query[s].tenant, query[s].project) :
       /\ Cardinality(best) <= TopK
       /\ \/ best = Matching(query[s].tenant, query[s].project)
          \/ Cardinality(best) = TopK
       /\ found' = [found EXCEPT ![s] = best]
  /\ query' = [query EXCEPT ![s] = Absent]
  /\ UNCHANGED docVars

\* EmbeddingError or another exception: 503 or 500, and nothing is read.
SearchFails(s) ==
  /\ query[s] # Absent
  /\ Faults \cap {"embedding", "transport"} # {}
  /\ query' = [query EXCEPT ![s] = Absent]
  /\ UNCHANGED <<docVars, found>>

-----------------------------------------------------------------------------
Init ==
  /\ pc = [u \in Uploads |-> "idle"]
  /\ input = [u \in Uploads |-> Absent]
  /\ attempt = [u \in Uploads |-> 1]
  /\ rows = [u \in Uploads |-> [a \in Attempts |-> NoRow]]
  /\ embedded = [u \in Uploads |-> 0]
  /\ session = [u \in Uploads |-> "active"]
  /\ outcome = [u \in Uploads |-> "none"]
  /\ event = [u \in Uploads |-> "none"]
  /\ told = [u \in Uploads |-> "none"]
  /\ stored = {}
  /\ query = [s \in Readers |-> Absent]
  /\ found = [s \in Readers |-> {}]

Serve(u) ==
  \/ ValidateFile(u) \/ Analyze(u) \/ AnalyzeFails(u)
  \/ ParseFails(u) \/ CreateDocument(u) \/ EmbedChunk(u) \/ EmbedFails(u) \/ MarkFailed(u)
  \/ StoreChunks(u) \/ MarkIndexed(u) \/ StatementFails(u)
  \/ LogEvent(u) \/ Respond(u) \/ RecordStep(u) \/ Commit(u) \/ Rollback(u)

Next ==
  \/ \E u \in Uploads : (\E q \in Inputs[u] : Receive(u, q)) \/ Serve(u) \/ ProcessDies(u)
  \/ \E s \in Readers :
       (\E t \in Tenants, p \in Projects : Ask(s, t, p)) \/ Search(s) \/ SearchFails(s)

\* Every call that is awaited has a timeout, and every statement is answered.
Spec == Init /\ [][Next]_vars /\ \A u \in Uploads : WF_vars(Serve(u))
-----------------------------------------------------------------------------
(* Properties *)

TypeOK ==
  /\ pc \in [Uploads -> InFlight \cup {"idle", "done"}]
  /\ input \in [Uploads -> InputSet \cup {Absent}]
  /\ attempt \in [Uploads -> Attempts]
  /\ rows \in [Uploads -> [Attempts -> DocumentRows]]
  /\ embedded \in [Uploads -> Nat]
  /\ session \in [Uploads -> {"active", "invalid"}]
  /\ outcome \in [Uploads -> {"none", "indexed", "index_failed", "failure"}]
  /\ event \in [Uploads -> {"none", "indexed", "plain"}]
  /\ told \in [Uploads -> Answers]
  /\ stored \subseteq Uploads
  /\ query \in [Readers -> [ tenant : Tenants, project : Projects ] \cup {Absent}]
  /\ found \in [Readers -> SUBSET (Uploads \X Attempts \X Nat)]

Indexed(u) == \E a \in Attempts : rows[u][a].status = "indexed"

\* What a search can find is whole.  A document of the project's list has its
\* whole text within reach if it says "indexed" and none of it otherwise, though
\* the search asks for no status and a request may commit what a failed
\* indexing has left behind.
SearchableWhole ==
  \A t \in Tenants, p \in Projects :
    /\ \A d \in Listed(t, p) :
         UNION { Piece(Input(d[1]).length, i) : i \in rows[d[1]][d[2]].chunks } =
           IF rows[d[1]][d[2]].status = "indexed" THEN 0..(Input(d[1]).length - 1) ELSE {}
    /\ \A piece \in Matching(t, p) : <<piece[1], piece[2]>> \in Listed(t, p)

\* vision/service.py:9: "Every operation is recorded in the vision_events audit
\* table".  What the code keeps of it: of the operations that a commit has made
\* permanent, each but a workflow's vision step that is recorded as failed has
\* its event.  A failed step has none, and neither has a failed route, whose
\* request is rolled back.  The event says "indexed" exactly when the document
\* is; that of an OCR may also say so when it is not.
EventTruth ==
  \A u \in stored : Input(u).door \in VisionDoors =>
    /\ event[u] = "none" <=> told[u] = "failed"
    /\ event[u] = "none" => \A a \in Attempts : rows[u][a] = NoRow
    /\ Indexed(u) => event[u] = "indexed"
    /\ event[u] = "indexed" /\ Input(u).door # "ocr" => Indexed(u)

\* A row as a commit may leave it.
Settled(u, a) ==
  \/ rows[u][a] = NoRow
  \/ rows[u][a].status \in {"pending", "failed"} /\ rows[u][a].chunks = {}
     /\ Input(u).door # "upload"
  \/ rows[u][a].status = "indexed" /\ rows[u][a].chunks = 0..(Count(u) - 1)
     /\ a = attempt[u] /\ outcome[u] = "indexed"

Promises == {"indexed", "ok", "completed"}
Answered == Promises \cup {"index_failed", "failed"}

\* The inductive invariant: where an upload is, what it may be about then.
Placed(u) ==
  /\ pc[u] = "idle" <=> input[u] = Absent
  /\ pc[u] = "idle" => told[u] = "none" /\ event[u] = "none"
                        /\ \A a \in Attempts : rows[u][a] = NoRow
  /\ pc[u] \in Uploading => Input(u).project \in Projects
  /\ pc[u] \in Uploading \cup {"idle", "validate", "provider"} => outcome[u] = "none"
  /\ pc[u] \in Uploading \ {"parse"} \/ outcome[u] = "indexed" =>
       ~Unusable(Input(u)) /\ Input(u).project \in Projects
  /\ pc[u] = "embed" => embedded[u] < Count(u)
  /\ pc[u] \in {"validate", "provider", "log"} => Input(u).door \in VisionDoors
  /\ pc[u] \in {"log", "respond"} => outcome[u] # "failure"
  /\ pc[u] = "respond" => ~InWorkflow(u) /\ (Input(u).door = "upload" => outcome[u] = "indexed")
  /\ pc[u] \in Uploading \/ outcome[u] = "indexed" =>
       (Input(u).door \in VisionDoors => WantsIndex(u))
  /\ pc[u] \in InFlight \ {"commit", "rollback"} => told[u] = "none"
  /\ pc[u] = "commit" => told[u] \in Answered /\ (outcome[u] = "indexed" => told[u] \in Promises)
  /\ pc[u] \in {"respond", "commit"} \cup (Uploading \ {"parse"}) => session[u] = "active"
  /\ pc[u] = "commit" \/ u \in stored => (told[u] = "failed" <=> outcome[u] = "failure")
  /\ u \in stored => pc[u] = "done" /\ told[u] \in Answered

\* The transaction can still be committed.
Alive(u) == session[u] = "active" /\ pc[u] \in InFlight \ {"rollback"}

\* What the transaction holds while it can be committed, and once it is.
RowsRight(u) ==
  /\ Alive(u) => \A a \in Attempts : a > attempt[u] => rows[u][a] = NoRow
  /\ Alive(u) => \A a \in Attempts \ {attempt[u]} : Settled(u, a)
  /\ Alive(u) /\ pc[u] \in {"validate", "provider", "parse"} => Row(u) = NoRow
  /\ Alive(u) /\ pc[u] \in {"embed", "mark_failed", "store_chunks"} =>
       Row(u) = [status |-> "pending", chunks |-> {}]
  /\ Alive(u) /\ pc[u] = "mark_indexed" =>
       Row(u) = [status |-> "pending", chunks |-> 0..(Count(u) - 1)]
  /\ (Alive(u) /\ pc[u] \in {"log", "respond", "record", "commit"}) \/ u \in stored =>
       /\ \A a \in Attempts : Settled(u, a)
       /\ outcome[u] = "indexed" <=> Row(u).status = "indexed"

\* Nothing that vision has written goes without its event, and no operation that
\* has not failed.
EventRight(u) ==
  /\ Alive(u) /\ pc[u] \notin {"respond", "record", "commit"} => event[u] = "none"
  /\ Alive(u) /\ pc[u] \notin {"respond", "record", "commit"} /\ Input(u).door \in VisionDoors =>
       \A a \in Attempts \ {attempt[u]} : rows[u][a] = NoRow
  /\ (Alive(u) /\ pc[u] \in {"respond", "record", "commit"}) \/ u \in stored =>
       /\ Input(u).door \in VisionDoors /\ event[u] = "none" =>
            \A a \in Attempts : rows[u][a] = NoRow
       /\ Input(u).door \in VisionDoors => (event[u] = "none" <=> outcome[u] = "failure")
       /\ outcome[u] = "indexed" /\ event[u] # "none" => event[u] = "indexed"
       /\ event[u] = "indexed" /\ Input(u).door # "ocr" => outcome[u] = "indexed"

IInv == TypeOK /\ \A u \in Uploads : Placed(u) /\ RowsRight(u) /\ EventRight(u)

\* Searches see the library of DocumentLibrary: whole documents, each after an
\* answer that promises it or says nothing of it, within their own tenant and
\* project.
Shelf ==
  [u \in Uploads |->
     IF u \in stored /\ Row(u).status = "indexed"
     THEN [ tenant |-> Input(u).tenant, project |-> Input(u).project,
            copy |-> attempt[u], length |-> Input(u).length ]
     ELSE Absent]

Library == INSTANCE DocumentLibrary WITH shelf <- Shelf
LibrarySpec == Library!LibrarySpec

\* Every upload ends, however its calls fail.
UploadsEnd == \A u \in Uploads : pc[u] # "idle" ~> pc[u] = "done"
=============================================================================
