------------------------------- MODULE Routing -------------------------------
(***************************************************************************)
(* POST /v1/route: what a message becomes on its way from the classifier   *)
(* through the permission check and a pathway to the sentence it is        *)
(* answered with (app/intent, app/auth/permissions.py, app/orchestrator.py,*)
(* app/response).                                                          *)
(*                                                                         *)
(* A message is the set of the rules whose pattern it matches.  main.py    *)
(* gives route() neither a session nor providers; "wired" is what another  *)
(* caller may give it.                                                     *)
(***************************************************************************)
EXTENDS Integers, FiniteSets, Sequences

\* The patterns in the order they are tried, with what they stand for.
Rule(word, intent, action, confidence) ==
  [word |-> word, intent |-> intent, action |-> action, confidence |-> confidence]

Rules ==
  << Rule("cancel", "CANCEL_ORDER", "WRITE_MUTATION", 92),
     Rule("analytics", "ANALYTICS_QUERY", "SQL_ANALYTICS", 90),
     Rule("policy", "POLICY_SEARCH", "RAG_VISION", 90),
     Rule("receipt", "VISION_RECEIPT_VALIDATE", "RAG_VISION", 91),
     Rule("damage", "VISION_DAMAGE_ANALYSIS", "RAG_VISION", 91) >>

Words == { Rules[i].word : i \in DOMAIN Rules }
Parts == {"session", "mfa_provider", "policy_provider", "receipt_provider", "damage_provider"}

Classify(words) ==
  LET matching == { i \in DOMAIN Rules : Rules[i].word \in words }
  IN  IF matching = {} THEN Rule("none", "UNKNOWN", "NOOP", 10)
      ELSE Rules[CHOOSE i \in matching : \A j \in matching : i <= j]

\* The entities are always empty.
Parse(words, threshold) ==
  LET result == Classify(words)
  IN  IF result.confidence < threshold
      THEN [result EXCEPT !.intent = "CLARIFY", !.action = "CLARIFICATION"]
      ELSE result

RagPermission(intent) ==
  IF intent = "POLICY_SEARCH" THEN "policies.read" ELSE "vision.analyze"

RequiredPermission(parsed) ==
  CASE parsed.action = "WRITE_MUTATION" -> {"orders.cancel"}
    [] parsed.action = "SQL_ANALYTICS" -> {"analytics.read"}
    [] parsed.action = "RAG_VISION" -> {RagPermission(parsed.intent)}
    [] OTHER -> {}

CheckPermission(permissions, parsed) == RequiredPermission(parsed) \subseteq permissions

-----------------------------------------------------------------------------
(* The pathways: a value, or the class of the error *)

\* Without an order_id it is the nil UUID that is asked for, which no order has.
RouteWrite(wired) ==
  IF {"session", "mfa_provider"} \subseteq wired
  THEN {"AuthorizationError", "DatabaseError"} ELSE {"MythosError"}

\* Without sql the airlock is given the empty text, which is no statement.
RouteSql(wired) ==
  IF "session" \in wired THEN {"SqlAirlockViolation"} ELSE {"MythosError"}

ProviderFor(intent) ==
  CASE intent = "POLICY_SEARCH" -> "policy_provider"
    [] intent = "VISION_RECEIPT_VALIDATE" -> "receipt_provider"
    [] intent = "VISION_DAMAGE_ANALYSIS" -> "damage_provider"

\* A provider answers, or raises: any error of the application is passed on, be it one
\* that a route is refused with, any other error is one of the database.
ProviderResults ==
  { "value", "AIProviderUnavailableError", "ValidationError", "BusinessRuleViolation",
    "AuthorizationError", "TenantIsolationError", "SqlAirlockViolation", "DatabaseError" }

RouteRag(intent, wired) ==
  IF ProviderFor(intent) \in wired THEN ProviderResults ELSE {"MythosError"}

\* What is asked back.
ExecuteClarification == {"question"}

PathwayResults(parsed, wired) ==
  CASE parsed.action = "WRITE_MUTATION" -> RouteWrite(wired)
    [] parsed.action = "SQL_ANALYTICS" -> RouteSql(wired)
    [] parsed.action = "RAG_VISION" -> RouteRag(parsed.intent, wired)
    [] parsed.action = "CLARIFICATION" -> ExecuteClarification
    [] OTHER -> {"MythosError"}

\* The sentence for an error says no more than its class.
SafeFailureMessage(error) ==
  CASE error \in {"AuthorizationError", "TenantIsolationError"} -> "not authorized"
    [] error = "SqlAirlockViolation" -> "rejected"
    [] error \in {"BusinessRuleViolation", "ValidationError"} -> "its own message"
    [] OTHER -> "system error"

Synthesize(result) ==
  IF result \in {"value", "question"} THEN result ELSE SafeFailureMessage(result)
=============================================================================
