----------------------------- MODULE AgentTools -----------------------------
(***************************************************************************)
(* The tools the agent's model may call (app/agent/tools): what each can   *)
(* come to, given its parameters, the caller's permissions and the state   *)
(* of the database session it shares with the turn.                        *)
(*                                                                         *)
(* PostgreSQL refuses every statement of a transaction after one that      *)
(* failed: a tool whose statement fails spoils the session, whether the    *)
(* tool raises (the runtime catches it) or reports a failure.              *)
(***************************************************************************)
EXTENDS Integers, Sequences

CONSTANT Faults

FaultKinds == {"statement", "commit", "process", "model"}

ASSUME AssistantFaultsAssumption == Faults \subseteq FaultKinds

Permissions ==
  {"agent.run", "agent.sessions.read", "agent.sessions.write", "rag.search", "analytics.read",
   "vision.analyze", "orders.cancel", "policies.read"}

\* What list_tools shows of a tool.
Definition(name, required, permissions) ==
  [name |-> name, required |-> required, permissions |-> permissions]

RagSearchDefinition == Definition("rag_search", {"query", "project_id"}, {"rag.search"})
TenantLookupDefinition == Definition("tenant_lookup", {}, {})
SqlQueryDefinition == Definition("sql_query", {"sql"}, {"analytics.read"})
RbacCheckDefinition == Definition("rbac_check", {}, {})
AuditLogDefinition == Definition("audit_log", {"action"}, {})
VisionAnalyzeDefinition ==
  Definition("vision_analyze", {"image_base64", "filename"}, {"vision.analyze"})

\* The process-wide registry.
Registry ==
  {RagSearchDefinition, TenantLookupDefinition, SqlQueryDefinition, RbacCheckDefinition,
   AuditLogDefinition, VisionAnalyzeDefinition}
Tools == { d.name : d \in Registry }

\* A tool call the model writes: "blank" has nothing of what is required, "malformed"
\* has it in a form the tool refuses.
ToolCalls == [tool : Tools \cup {"unknown"}, params : {"fine", "blank", "malformed"}]

\* ToolResult, the row the tool has added, and whether its statement failed.
Failed == [success |-> FALSE, event |-> "none", spoils |-> FALSE]
Succeeded(event) == [success |-> TRUE, event |-> event, spoils |-> FALSE]
StatementFailed == [Failed EXCEPT !.spoils = TRUE]

\* One that sends a statement.
Query(spoilt, results) ==
  IF spoilt THEN {Failed}
  ELSE results \cup { o \in {StatementFailed} : "statement" \in Faults }

\* The tenant of the token may have no row.
TenantLookup(spoilt) == Query(spoilt, {Succeeded("none"), Failed})

RbacCheck == {Succeeded("none")}

\* "malformed" has no meaning here: every text is an action.
AuditLog(params, spoilt) ==
  IF params = "blank" THEN {Failed} ELSE Query(spoilt, {Succeeded("audit_event")})

\* The embedding may fail; parameters that are no number raise.
RagSearch(params, permissions, spoilt) ==
  IF params # "fine" \/ "rag.search" \notin permissions THEN {Failed}
  ELSE {Failed} \cup Query(spoilt, {Succeeded("none")})

\* What passes is SELECTs, several of them too, which the database then refuses; one may
\* be wrong as well, for SQLAlchemy, which sends nothing then, or for the database.
ValidateSelectOnly(params) == params = "fine"

\* Faulty variant: the caller's permissions are not looked at.
SqlQueryForAll(params, permissions, spoilt) ==
  IF ~ValidateSelectOnly(params) THEN {Failed}
  ELSE Query(spoilt, {Succeeded("none"), Failed}) \cup { o \in {StatementFailed} : ~spoilt }

SqlQuery(params, permissions, spoilt) ==
  IF ~ValidateSelectOnly(params) \/ "analytics.read" \notin permissions THEN {Failed}
  ELSE Query(spoilt, {Succeeded("none"), Failed}) \cup { o \in {StatementFailed} : ~spoilt }

\* The file and the provider are refused before the event is written.
VisionAnalyze(params, permissions, spoilt) ==
  IF params # "fine" \/ "vision.analyze" \notin permissions THEN {Failed}
  ELSE {Failed} \cup Query(spoilt, {Succeeded("vision_event")})

Outcomes(c, permissions, spoilt) ==
  CASE c.tool = "tenant_lookup" -> TenantLookup(spoilt)
    [] c.tool = "rbac_check" -> RbacCheck
    [] c.tool = "audit_log" -> AuditLog(c.params, spoilt)
    [] c.tool = "rag_search" -> RagSearch(c.params, permissions, spoilt)
    [] c.tool = "sql_query" -> SqlQuery(c.params, permissions, spoilt)
    [] c.tool = "vision_analyze" -> VisionAnalyze(c.params, permissions, spoilt)
    [] OTHER -> {Failed}
=============================================================================
