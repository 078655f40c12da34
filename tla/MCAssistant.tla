----------------------------- MODULE MCAssistant -----------------------------
(***************************************************************************)
(* Assistant on small instances: three requests of two users in one        *)
(* session of a tenant, or three routed messages.                          *)
(***************************************************************************)
EXTENDS Assistant, TLC

CONSTANTS r1, r2, r3, t1, t2, p1, u1, u2

MCFaults == FaultKinds

Writes(kind, c, place) == [action |-> kind, call |-> c, answer |-> place]
Tool(name, params) == [tool |-> name, params |-> params]
Says(place) == Writes("none", Tool("unknown", "fine"), place)
Calls(name, params) == Writes("call", Tool(name, params), "none")

Answer == Says("after")
OtherTexts ==
  { Says("none"), Writes("malformed", Tool("unknown", "fine"), "none"),
    Writes("call", Tool("audit_log", "fine"), "before") }
FineCalls(names) == { Calls(name, "fine") : name \in names }

MCRepertoire ==
  [ terse |-> {Answer},
    brief |-> {Answer} \cup FineCalls({"audit_log", "sql_query"}),
    guarded |-> FineCalls({"rag_search", "sql_query", "vision_analyze"}),
    full |-> {Answer, Calls("rag_search", "malformed"), Calls("audit_log", "blank")}
             \cup OtherTexts \cup FineCalls(Tools \cup {"unknown"}) ]

Ask(op, session, size) ==
  [op |-> op, tenant |-> t1, project |-> p1, user |-> u1, session |-> session, size |-> size,
   iterations |-> 2, model |-> "full", permissions |-> Permissions]
Mix(a, b, c) == (r1 :> a) @@ (r2 :> b) @@ (r3 :> c)

Create == Ask("create", r1, 1)
Chat(size) == [Ask("chat", r1, size) EXCEPT !.model = "brief"]
Once(size) == [Chat(size) EXCEPT !.iterations = 1]
History == Ask("history", r1, 1)
Run == Ask("run", r1, 1)
Other(request) == [request EXCEPT !.user = u2]
Denied(request) == [request EXCEPT !.permissions = {"agent.run"}]

Short(request, model) == [request EXCEPT !.iterations = 1, !.model = model]

SessionMixes ==
  { Mix(Create, Once(2), Once(2)),
    Mix(Create, Chat(1), Other(History)),
    Mix(Create, Chat(1), Other(Short(Chat(2), "terse"))),
    Mix(Create, Ask("chat", r1, 1), [Short(Chat(1), "terse") EXCEPT !.tenant = t2]) }

RunMixes ==
  { Mix(Run, Denied(Create), Denied(Ask("tools", r1, 1))),
    Mix(Short(Denied(Run), "guarded"), Denied(Chat(1)), Denied(History)) }

Routed(words, permissions) ==
  [op |-> "route", blank |-> FALSE, words |-> words, permissions |-> permissions]

RouteMixes ==
  { Mix(Routed(words, Permissions), Routed(words, {}), [Routed({}, {}) EXCEPT !.blank = TRUE]) :
      words \in SUBSET Words }

With(mixes, wirings, thresholds) ==
  [calls : mixes, wired : wirings, threshold : thresholds]

MCMixes ==
  With(SessionMixes \cup RunMixes, {{}}, {85}) \cup With(RouteMixes, {{}, Parts}, {85, 91})
=============================================================================
