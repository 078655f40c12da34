------------------------------ MODULE Assistant ------------------------------
(***************************************************************************)
(* What a user may say to the platform: messages that are routed to a      *)
(* pathway, and turns with the agent, side by side.                        *)
(***************************************************************************)
EXTENDS AgentSession, Routing

CONSTANT Mixes  \* the requests that are made side by side, and the settings

\* A routed message; blank or with the words of the rules.
RouteRequest ==
  [op : {"route"}, blank : BOOLEAN, words : SUBSET Words, permissions : SUBSET Permissions]

ASSUME MixesAssumption ==
  Mixes \subseteq
    [calls : [Requests -> AgentRequest \cup RouteRequest], wired : SUBSET Parts, threshold : 1 .. 100]

VARIABLE setup  \* what route() is given, and settings.INTENT_CONFIDENCE_THRESHOLD in percent

vars == <<agentVars, setup>>

Parsed(r) == Parse(call[r].words, setup.threshold)

\* Parsed, checked and dispatched without a pause.
RouteMessage(r) ==
  /\ At(r, "idle") /\ call[r].op = "route"
  /\ IF call[r].blank
     THEN Tell(r, "422") /\ Goto(r, "done")
     ELSE IF ~CheckPermission(call[r].permissions, Parsed(r))
     THEN Tell(r, Synthesize("AuthorizationError")) /\ Goto(r, "done")
     ELSE Goto(r, "pathway") /\ UNCHANGED reply
  /\ UNCHANGED <<call, progress, seen, stored>>

\* The pathway is awaited; what it comes to is put into a sentence.
PathwayAnswers(r) ==
  /\ At(r, "pathway")
  /\ \E result \in PathwayResults(Parsed(r), setup.wired) : Tell(r, Synthesize(result))
  /\ Goto(r, "done")
  /\ UNCHANGED <<call, progress, seen, stored>>

-----------------------------------------------------------------------------
Init ==
  /\ \E mix \in Mixes :
       call = mix.calls /\ setup = [wired |-> mix.wired, threshold |-> mix.threshold]
  /\ pc = [r \in Requests |-> "idle"]
  /\ reply = [r \in Requests |-> "none"]
  /\ answer = [r \in Requests |-> "none"]
  /\ records = [r \in Requests |-> <<>>]
  /\ chosen = [r \in Requests |-> Absent]
  /\ iteration = [r \in Requests |-> 0]
  /\ seen = [r \in Requests |-> <<>>]
  /\ draft = [r \in Requests |-> Empty]
  /\ spoilt = [r \in Requests |-> FALSE]
  /\ db = [r \in Requests |-> Empty]
  /\ began = <<>>
  /\ lost = {}

Start(r) == AgentStart(r) \/ RouteMessage(r)
Step(r) == AgentStep(r) \/ PathwayAnswers(r)

Next == (\E r \in Requests : Start(r) \/ Step(r) \/ AgentFault(r)) /\ UNCHANGED setup

\* The database answers, and the model, whose client has a timeout.
Fairness == \A r \in Requests : WF_vars(Step(r) /\ UNCHANGED setup)

Spec == Init /\ [][Next]_vars /\ Fairness

-----------------------------------------------------------------------------
(* Properties *)

TurnOf(r) ==
  <<Question(r)>> \o [i \in DOMAIN records[r] |-> ToolMessage(r, records[r][i])] \o <<Reply(r)>>

EventOf(tool) == IF tool = "audit_log" THEN "audit_event" ELSE "vision_event"
EventsOf(r) ==
  LET writing == { n \in DOMAIN records[r] :
                     records[r][n].success
                     /\ records[r][n].tool \in {"audit_log", "vision_analyze"} }
  IN  { [n |-> n, event |-> EventOf(records[r][n].tool)] : n \in writing }

\* A turn is stored whole - the question, each tool's result in the order of the calls,
\* the answer that was given - or not at all, and only if it was answered.
TurnWhole ==
  \A r \in Requests : db[r].messages # <<>> => db[r].messages = TurnOf(r) /\ reply[r] = "200"

\* An audit or vision event exists exactly if a tool has reported it, except that all
\* events of a request may be missing: when its commit was lost, or when a later tool
\* has spoilt the transaction of a question outside a session, which is answered all
\* the same.
EventsAsReported ==
  \A r \in Requests :
    At(r, "done") /\ reply[r] = "200" /\ call[r].op \in {"chat", "run"} =>
      \/ db[r].events = EventsOf(r)
      \/ db[r] = Empty /\ (r \in lost \/ (spoilt[r] /\ call[r].op = "run"))

Position(r) == CHOOSE i \in DOMAIN began : began[i] = r
After(r) == { began[i] : i \in Position(r) + 1 .. Len(began) }

\* The messages of q stand in s, side by side and nowhere else.
WholeIn(s, q) ==
  LET length == Len(db[q].messages)
  IN  \E o \in 0 .. Len(s) - length :
        /\ \A i \in DOMAIN s : s[i].turn = q => i \in o + 1 .. o + length
        /\ SubSeq(s, o + 1, o + length) \in Orders(db[q].messages)

\* r has read the messages of its session.
HasRead(r) == (At(r, "read") /\ pc'[r] = "commit") \/ (At(r, "recall") /\ pc'[r] = "think")

ShownTo(r, s) ==
  /\ Finds(db[call[r].session].session, call[r].tenant)
  /\ \A i \in DOMAIN s :
       LET q == s[i].turn
       IN  /\ call[q].session = call[r].session /\ call[q].tenant = call[r].tenant
           /\ q = r \/ s[i] \in ToSet(db[q].messages)
           /\ \A j \in i .. Len(s) : s[j].turn \in {q} \cup After(q)
  /\ \A q \in Requests :
       call[q].op = "chat" /\ call[q].session = call[r].session /\ db[q].messages # <<>> =>
         \/ WholeIn(s, q)
         \/ call[r].op = "chat" /\ \A i \in DOMAIN s : s[i].turn \in {q} \cup After(q)
  /\ call[r].op = "chat" =>
       \/ s # <<>> /\ Last(s) = Question(r)
       \/ \E q \in After(r) : db[q].messages # <<>>

\* A session is shown to its own tenant - to any user of it, though the model's docstring
\* (agent_session.py:20) scopes it to one user and project - the oldest turn first, and
\* each turn that is committed, whoever of the tenant has taken it, is shown whole; to
\* the language model only a tail of it, which may begin within a turn.  Last it is shown the question that it is asked, unless a turn that began
\* later was committed earlier.
ShownWhole == [][\A r \in Requests : HasRead(r) => ShownTo(r, seen'[r])]_vars

Needed(rule) ==
  CASE rule.word = "cancel" -> "orders.cancel"
    [] rule.word = "analytics" -> "analytics.read"
    [] rule.word = "policy" -> "policies.read"
    [] OTHER -> "vision.analyze"

\* A tool reports success only to who holds the permission list_tools shows for it, and
\* never if all that it shows as required is left out.
ToolsGuarded ==
  \A r \in Requests, d \in Registry : \A i \in DOMAIN records[r] :
    records[r][i].tool = d.name /\ records[r][i].success =>
      d.permissions \subseteq call[r].permissions
      /\ (records[r][i].params = "blank" => d.required = {})

RouteGuarded ==
  \A r \in Requests, i \in DOMAIN Rules :
    /\ call[r].op = "route" /\ At(r, "done") /\ ~call[r].blank /\ r \notin lost
    /\ Rules[i].word \in call[r].words
    /\ \A j \in 1 .. i - 1 : Rules[j].word \notin call[r].words
    => LET sure == Rules[i].confidence >= setup.threshold
           permitted == Needed(Rules[i]) \in call[r].permissions
       IN  /\ ~sure => reply[r] = "question"
           /\ sure /\ ~permitted => reply[r] = "not authorized"
           /\ reply[r] = "value" =>
                sure /\ permitted /\ ProviderFor(Rules[i].intent) \in setup.wired

\* Nothing is done for who lacks its permission, in a turn or on a route.  The first rule
\* a message matches decides: who lacks its permission is told so whatever is wired, and
\* no result comes from a missing provider or a rule that is not trusted enough.
GatesHold == ToolsGuarded /\ RouteGuarded

\* No request runs for ever: iterations are counted, and what is awaited ends.
TurnsEnd == \A r \in Requests : InFlight(r) ~> At(r, "done")
=============================================================================
