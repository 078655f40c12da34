---------------------------- MODULE AgentSession ----------------------------
(***************************************************************************)
(* Sessions with the agent (app/agent): the routes, the memory of a        *)
(* session, and the loop of model and tools that makes a turn.             *)
(*                                                                         *)
(* A request has one database session, with one transaction: what it adds  *)
(* is its draft until get_session commits, after the answer.  A session    *)
(* is named after the request that creates it, a turn after the one that   *)
(* takes it.  Messages are ordered by created_at, which is the start of    *)
(* the transaction that wrote them: "began" is that order of turns.        *)
(***************************************************************************)
EXTENDS AgentTools, FiniteSets, SequencesExt

CONSTANTS
  Requests, Tenants, Projects, Users,
  Repertoire,    \* for each model, what it may write
  Sizes,         \* lengths of a question
  MaxChars,      \* _MAX_CONTEXT_CHARS
  MaxIterations, \* bound of max_iterations
  Absent

\* What the model may write: an action, an answer, which of them comes first.
ModelReplies ==
  [action : {"none", "malformed", "call"}, call : ToolCalls, answer : {"none", "before", "after"}]

ASSUME RepertoireAssumption == \A m \in DOMAIN Repertoire : Repertoire[m] \subseteq ModelReplies
ASSUME BudgetAssumption == MaxChars \in Nat /\ Sizes \subseteq 1 .. MaxChars
ASSUME IterationsAssumption == MaxIterations \in Nat \ {0}

AgentOps == {"tools", "create", "chat", "history", "run"}

\* project: of a session to create; session: whose it is read or continued in; size: of
\* the question; model: the one that is asked.
AgentRequest ==
  [op : AgentOps, tenant : Tenants, project : Projects, user : Users, session : Requests,
   size : Sizes, iterations : 1 .. MaxIterations, model : DOMAIN Repertoire,
   permissions : SUBSET Permissions]

VARIABLES
  call,      \* what each request asks
  pc,
  reply,     \* the status, and for a routed message the sentence, it was told
  answer,    \* TurnResult.answer
  records,   \* TurnResult.tool_calls
  chosen,    \* the tool call the model has just made
  iteration,
  seen,      \* the messages that were read
  draft,     \* what its transaction has added
  spoilt,    \* whether its transaction is aborted
  db,        \* what it has committed
  began,     \* the turns, in the order of created_at
  lost       \* history: requests whose commit did not happen

progress == <<answer, records, chosen, iteration>>
stored == <<draft, spoilt, db, began, lost>>
agentVars == <<call, pc, reply, answer, records, chosen, iteration, seen, draft, spoilt, db,
               began, lost>>

Waiting == {"idle", "done"}
Ending == {"commit", "rollback"}
InFlight(r) == pc[r] \notin Waiting

Goto(r, label) == pc' = [pc EXCEPT ![r] = label]
At(r, label) == pc[r] = label
Tell(r, status) == reply' = [reply EXCEPT ![r] = status]
Succeed(r, status) == Tell(r, status) /\ Goto(r, "commit")
Refuse(r, status) == Tell(r, status) /\ Goto(r, "rollback")

Sessions == [tenant : Tenants, project : Projects, user : Users, deleted_at : {Absent}]
ASSUME AbsentAssumption == Absent \notin Sessions

NewSession(r) ==
  [ tenant |-> call[r].tenant, project |-> call[r].project, user |-> call[r].user,
    deleted_at |-> Absent ]

Empty == [session |-> Absent, messages |-> <<>>, events |-> {}]

-----------------------------------------------------------------------------
(* Messages *)

Message(r, role, content, size) ==
  [turn |-> r, role |-> role, content |-> content, size |-> size]

Question(r) == Message(r, "user", "question", call[r].size)
FormatToolResult(success, data) == IF success THEN data ELSE "error"
\* The data of a tool are not kept with its message.
ToolMessage(r, record) == Message(r, "tool", FormatToolResult(record.success, "null"), 1)
Reply(r) == Message(r, "assistant", answer[r], 1)

AddMessage(r, message) ==
  draft' = [draft EXCEPT ![r].messages = Append(@, message)]

\* What a SELECT of r shows of a turn.
MessagesOf(r, q) == IF q = r THEN draft[q].messages ELSE db[q].messages
\* ... if it is asked for the messages of its session and tenant.
InSessionOf(r, q) ==
  IF /\ call[q].op = "chat"
     /\ call[q].session = call[r].session /\ call[q].tenant = call[r].tenant
  THEN MessagesOf(r, q) ELSE <<>>

\* The messages of one turn have one created_at: they come in any order.
Orders(s) == { [i \in DOMAIN s |-> s[p[i]]] : p \in Bijection(DOMAIN s, DOMAIN s) }

Extend(lists, blocks) == UNION { { l \o o : o \in blocks } : l \in lists }
\* One block of each set, one after the other.
Concatenations(blocks) ==
  LET lists[k \in 0 .. Len(blocks)] ==
        IF k = 0 THEN {<<>>} ELSE Extend(lists[k - 1], blocks[k])
  IN  lists[Len(blocks)]

\* The result of the SELECT ... ORDER BY created_at.
Listings(r) == Concatenations([i \in DOMAIN began |-> Orders(InSessionOf(r, began[i]))])

Chars(s) ==
  LET total[n \in 0 .. Len(s)] == IF n = 0 THEN 0 ELSE total[n - 1] + s[n].size
  IN  total[Len(s)]

Fits(s) == Chars(s) <= MaxChars

\* Faulty variant: the oldest messages are kept.
KeptOldest(s) ==
  SubSeq(s, 1, CHOOSE n \in 0 .. Len(s) :
                 /\ Fits(SubSeq(s, 1, n))
                 /\ \A k \in n + 1 .. Len(s) : ~Fits(SubSeq(s, 1, k)))

\* The newest messages, back to the first that does not fit.
Kept(s) ==
  SubSeq(s, CHOOSE n \in 1 .. Len(s) + 1 :
              /\ n <= Len(s) => Fits(SubSeq(s, n, Len(s)))
              /\ \A k \in 1 .. n - 1 : ~Fits(SubSeq(s, k, Len(s))),
         Len(s))

-----------------------------------------------------------------------------
(* The routes *)

\* _require, then the handler's first step.
Route(r, op, permissions, label) ==
  /\ At(r, "idle") /\ call[r].op = op
  /\ IF permissions \subseteq call[r].permissions
     THEN Goto(r, label) /\ UNCHANGED reply
     ELSE Tell(r, "403") /\ Goto(r, "done")
  /\ UNCHANGED <<call, progress, seen, stored>>

CreateRoute(r) == Route(r, "create", {"agent.sessions.write"}, "create")
ChatRoute(r) == Route(r, "chat", {"agent.run", "agent.sessions.write"}, "find")
HistoryRoute(r) == Route(r, "history", {"agent.sessions.read"}, "find")
RunRoute(r) == Route(r, "run", {"agent.run"}, "think")

\* No database is asked.
ListTools(r) ==
  /\ At(r, "idle") /\ call[r].op = "tools"
  /\ Tell(r, IF "agent.run" \in call[r].permissions THEN "200" ELSE "403")
  /\ Goto(r, "done")
  /\ UNCHANGED <<call, progress, seen, stored>>

CreateSession(r) ==
  /\ At(r, "create")
  /\ draft' = [draft EXCEPT ![r].session = NewSession(r)]
  /\ Succeed(r, "201")
  /\ UNCHANGED <<call, progress, seen, spoilt, db, began, lost>>

\* The row of a session is looked for with the tenant's id: neither its user nor its
\* project is asked for.
Finds(row, tenant) == row # Absent /\ row.tenant = tenant /\ row.deleted_at = Absent

\* The first statement of the transaction.
GetSession(r) ==
  /\ At(r, "find")
  /\ began' = IF call[r].op = "chat" THEN Append(began, r) ELSE began
  /\ IF Finds(db[call[r].session].session, call[r].tenant)
     THEN Goto(r, IF call[r].op = "chat" THEN "ask" ELSE "read") /\ UNCHANGED reply
     ELSE Refuse(r, "404")
  /\ UNCHANGED <<call, progress, seen, draft, spoilt, db, lost>>

ReadHistory(r) ==
  /\ At(r, "read")
  /\ \E list \in Listings(r) : seen' = [seen EXCEPT ![r] = list]
  /\ Succeed(r, "200")
  /\ UNCHANGED <<call, progress, stored>>

-----------------------------------------------------------------------------
(* A turn *)

AddQuestion(r) ==
  /\ At(r, "ask")
  /\ AddMessage(r, Question(r))
  /\ Goto(r, "recall")
  /\ UNCHANGED <<call, reply, progress, seen, spoilt, db, began, lost>>

Recall(r) ==
  /\ At(r, "recall")
  /\ \E list \in Listings(r) : seen' = [seen EXCEPT ![r] = Kept(list)]
  /\ Goto(r, "think")
  /\ UNCHANGED <<call, reply, progress, stored>>

\* An action that comes before the answer, in well-formed JSON, is run.
IsCall(text) == text.action = "call" /\ text.answer # "before"
\* The answer, or else the whole text.
FinalAnswer(text) == IF text.answer = "none" THEN "text" ELSE "answer"

\* The turn is told, or stored first.
Conclude(r, words) ==
  /\ answer' = [answer EXCEPT ![r] = words]
  /\ IF call[r].op = "chat" THEN Goto(r, "store") /\ UNCHANGED reply ELSE Succeed(r, "200")

Think(r) ==
  /\ At(r, "think") /\ iteration[r] < call[r].iterations
  /\ \E text \in Repertoire[call[r].model] :
       IF IsCall(text)
       THEN /\ chosen' = [chosen EXCEPT ![r] = text.call]
            /\ Goto(r, "act")
            /\ UNCHANGED <<reply, answer, iteration>>
       ELSE /\ iteration' = [iteration EXCEPT ![r] = @ + 1]
            /\ Conclude(r, FinalAnswer(text))
            /\ UNCHANGED chosen
  /\ UNCHANGED <<call, records, seen, stored>>

\* No connection, a timeout, or a reply that is no reply: an answer as well.
ModelUnavailable(r) ==
  /\ "model" \in Faults
  /\ At(r, "think")
  /\ Conclude(r, IF iteration[r] < call[r].iterations THEN "unavailable" ELSE "unable")
  /\ UNCHANGED <<call, records, chosen, iteration, seen, stored>>

\* Any other error of the client leaves the turn.
ModelBreaks(r) ==
  /\ "model" \in Faults
  /\ At(r, "think")
  /\ Refuse(r, "500")
  /\ UNCHANGED <<call, progress, seen, stored>>

ToolCallRecord(r, success) ==
  [tool |-> chosen[r].tool, params |-> chosen[r].params, success |-> success]

\* Faulty variant: a failure is recorded as what it was meant to be.
RecordIntended(r, outcome) ==
  records' = [records EXCEPT ![r] = Append(@, ToolCallRecord(r, TRUE))]

Record(r, outcome) ==
  records' = [records EXCEPT ![r] = Append(@, ToolCallRecord(r, outcome.success))]

\* The row a tool has added, named after the call.
Event(r, outcome) == [n |-> Len(records[r]) + 1, event |-> outcome.event]

\* What the tool reports, or raises, becomes a record.
CallTool(r) ==
  /\ At(r, "act")
  /\ \E outcome \in Outcomes(chosen[r], call[r].permissions, spoilt[r]) :
       /\ Record(r, outcome)
       /\ spoilt' = [spoilt EXCEPT ![r] = @ \/ outcome.spoils]
       /\ draft' = IF outcome.event = "none" THEN draft
                   ELSE [draft EXCEPT ![r].events = @ \cup {Event(r, outcome)}]
  /\ iteration' = [iteration EXCEPT ![r] = @ + 1]
  /\ Goto(r, "think")
  /\ UNCHANGED <<call, reply, answer, chosen, seen, db, began, lost>>

\* Faulty variant: a tool it asks for is run.
ForceAnswerOrAct(r) ==
  /\ At(r, "think") /\ iteration[r] = call[r].iterations
  /\ \E text \in Repertoire[call[r].model] :
       IF IsCall(text)
       THEN chosen' = [chosen EXCEPT ![r] = text.call] /\ Goto(r, "act") /\ UNCHANGED <<reply, answer>>
       ELSE Conclude(r, FinalAnswer(text)) /\ UNCHANGED chosen
  /\ UNCHANGED <<call, records, iteration, seen, stored>>

\* The loop is over: the model is asked once more, and no tool is run.
ForceAnswer(r) ==
  /\ At(r, "think") /\ iteration[r] = call[r].iterations
  /\ \E text \in Repertoire[call[r].model] :
       Conclude(r, IF IsCall(text) THEN "text" ELSE FinalAnswer(text))
  /\ UNCHANGED <<call, records, chosen, iteration, seen, stored>>

\* Faulty variant: the results of the tools are not stored.
UnstoredNone(r) == <<>>

\* The records whose message is still to be added.
Unstored(r) == SubSeq(records[r], Len(draft[r].messages), Len(records[r]))

\* One message after the other; a spoilt session refuses the first.
StoreTurn(r) ==
  /\ At(r, "store") /\ ~spoilt[r]
  /\ IF Unstored(r) # <<>>
     THEN /\ AddMessage(r, ToolMessage(r, Head(Unstored(r))))
          /\ UNCHANGED <<pc, reply>>
     ELSE AddMessage(r, Reply(r)) /\ Succeed(r, "200")
  /\ UNCHANGED <<call, progress, seen, spoilt, db, began, lost>>

StoreRefused(r) ==
  /\ At(r, "store") /\ spoilt[r]
  /\ Refuse(r, "500")
  /\ UNCHANGED <<call, progress, seen, stored>>

-----------------------------------------------------------------------------
(* The end of a request *)

Close(r) ==
  /\ draft' = [draft EXCEPT ![r] = Empty]
  /\ Goto(r, "done")
  /\ UNCHANGED <<call, reply, progress, seen, spoilt, began>>

\* COMMIT of an aborted transaction rolls it back.
Commit(r) ==
  /\ At(r, "commit")
  /\ db' = IF spoilt[r] THEN db ELSE [db EXCEPT ![r] = draft[r]]
  /\ Close(r)
  /\ UNCHANGED lost

\* Refused; if only its answer is lost, it is Commit.
CommitFails(r) ==
  /\ "commit" \in Faults
  /\ At(r, "commit")
  /\ lost' = lost \cup {r}
  /\ Close(r)
  /\ UNCHANGED db

Rollback(r) ==
  /\ At(r, "rollback")
  /\ Close(r)
  /\ UNCHANGED <<db, lost>>

\* A statement outside the tools raises, and so does the handler.
StatementFails(r) ==
  /\ "statement" \in Faults
  /\ pc[r] \in {"create", "find", "read", "ask", "recall", "store"}
  /\ Refuse(r, "500")
  /\ UNCHANGED <<call, progress, seen, stored>>

ProcessDies(r) ==
  /\ "process" \in Faults
  /\ InFlight(r)
  /\ lost' = lost \cup {r}
  /\ Close(r)
  /\ UNCHANGED db

AgentStart(r) ==
  CreateRoute(r) \/ ChatRoute(r) \/ HistoryRoute(r) \/ RunRoute(r) \/ ListTools(r)

AgentStep(r) ==
  \/ CreateSession(r) \/ GetSession(r) \/ ReadHistory(r)
  \/ AddQuestion(r) \/ Recall(r) \/ Think(r) \/ CallTool(r) \/ ForceAnswer(r)
  \/ StoreTurn(r) \/ StoreRefused(r) \/ Commit(r) \/ Rollback(r)

AgentFault(r) ==
  ModelUnavailable(r) \/ ModelBreaks(r) \/ CommitFails(r) \/ StatementFails(r) \/ ProcessDies(r)
=============================================================================
