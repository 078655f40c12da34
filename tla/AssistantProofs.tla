-------------------------- MODULE AssistantProofs --------------------------
(***************************************************************************)
(* Proofs about Assistant, for every set of requests and tenants, every    *)
(* repertoire of the models, every number of iterations, every mix of      *)
(* requests and every combination of faults.                               *)
(***************************************************************************)
EXTENDS Assistant, WellFoundedInduction, TLAPS

-----------------------------------------------------------------------------
(* The inductive invariant *)

ToolRecords ==
  [tool : Tools \cup {"unknown"}, params : {"fine", "blank", "malformed"}, success : BOOLEAN]

Shapes ==
  /\ call \in [Requests -> AgentRequest \cup RouteRequest]
  /\ DOMAIN pc = Requests /\ DOMAIN reply = Requests /\ DOMAIN answer = Requests
  /\ DOMAIN records = Requests /\ DOMAIN chosen = Requests
  /\ DOMAIN draft = Requests /\ DOMAIN db = Requests
  /\ lost \subseteq Requests /\ setup.threshold \in Int
  /\ \A r \in Requests : DOMAIN draft[r] = {"session", "messages", "events"}

\* Where a request is tells what it asks.
Placed(r) ==
  /\ call[r].op = "route" => pc[r] \in {"idle", "pathway", "done"}
  /\ pc[r] = "pathway" => call[r].op = "route"
  /\ pc[r] \in {"ask", "recall", "store"} => call[r].op = "chat"
  /\ pc[r] \in {"think", "act"} => call[r].op \in {"chat", "run"}
  /\ pc[r] = "find" => call[r].op \in {"chat", "history"}
  /\ pc[r] = "read" => call[r].op = "history"
  /\ pc[r] = "create" => call[r].op = "create"

\* A record is a success only if nothing was missing.
Allowed(c, permissions) ==
  c.success => \A d \in Registry : d.name = c.tool =>
    d.permissions \subseteq permissions /\ (c.params = "blank" => d.required = {})

Recorded(r) ==
  /\ records[r] \in Seq(ToolRecords)
  /\ \A i \in 1 .. Len(records[r]) : Allowed(records[r][i], call[r].permissions)
  /\ pc[r] = "act" => chosen[r] \in ToolCalls

\* The first n messages of a turn without its answer.
Opening(r, n) ==
  [i \in 1 .. n |-> IF i = 1 THEN Question(r) ELSE ToolMessage(r, records[r][i - 1])]

Writing(r) ==
  \/ pc[r] \in {"idle", "find", "ask"} /\ draft[r].messages = <<>>
  \/ pc[r] \in {"recall", "think", "act"} /\ draft[r].messages = Opening(r, 1)
  \/ pc[r] = "store" /\ \E n \in 1 .. Len(records[r]) + 1 : draft[r].messages = Opening(r, n)
  \/ pc[r] = "commit" /\ draft[r].messages = TurnOf(r) /\ reply[r] = "200"
  \/ pc[r] \in {"rollback", "done"}

Stored(r) ==
  /\ call[r].op = "chat" => Writing(r)
  /\ call[r].op # "chat" => draft[r].messages = <<>>
  /\ db[r].messages # <<>> =>
       pc[r] = "done" /\ db[r].messages = TurnOf(r) /\ reply[r] = "200"

\* What a routed message may be told.
Told(r, a) ==
  LET parsed == Parsed(r)
  IN  \/ ~CheckPermission(call[r].permissions, parsed) /\ a = "not authorized"
      \/ /\ CheckPermission(call[r].permissions, parsed)
         /\ \E result \in PathwayResults(parsed, setup.wired) : a = Synthesize(result)

Sent(r) ==
  call[r].op = "route" /\ ~call[r].blank =>
    /\ pc[r] = "pathway" => CheckPermission(call[r].permissions, Parsed(r))
    /\ pc[r] = "done" /\ r \notin lost => Told(r, reply[r])

RequestInv(r) == Placed(r) /\ Recorded(r) /\ Stored(r) /\ Sent(r)

IInv == Shapes /\ \A r \in Requests : RequestInv(r)

-----------------------------------------------------------------------------
(* One request moves *)

Alone(r) ==
  /\ call' = call /\ setup' = setup
  /\ DOMAIN pc' = Requests /\ DOMAIN reply' = Requests /\ DOMAIN answer' = Requests
  /\ DOMAIN records' = Requests /\ DOMAIN chosen' = Requests
  /\ DOMAIN draft' = Requests /\ DOMAIN db' = Requests
  /\ lost' \subseteq Requests
  /\ DOMAIN draft'[r] = {"session", "messages", "events"}
  /\ \A q \in Requests \ {r} :
       /\ pc'[q] = pc[q] /\ reply'[q] = reply[q] /\ answer'[q] = answer[q]
       /\ records'[q] = records[q] /\ chosen'[q] = chosen[q]
       /\ draft'[q] = draft[q] /\ db'[q] = db[q]
       /\ q \in lost' <=> q \in lost

\* What a turn is made of stays.
LEMMA SameTurn ==
  ASSUME NEW q \in Requests, call' = call, records'[q] = records[q], answer'[q] = answer[q]
  PROVE  TurnOf(q)' = TurnOf(q) /\ \A n : Opening(q, n)' = Opening(q, n)
  BY DEF TurnOf, Opening, Question, ToolMessage, Reply, Message

LEMMA SameTold ==
  ASSUME NEW q \in Requests, call' = call, setup' = setup
  PROVE  /\ Parsed(q)' = Parsed(q)
         /\ \A a : Told(q, a)' = Told(q, a)
  BY DEF Parsed, Told

LEMMA OthersKeep ==
  ASSUME IInv, NEW r \in Requests, Alone(r), NEW q \in Requests \ {r}
  PROVE  RequestInv(q)'
<1>1. /\ call' = call /\ setup' = setup
      /\ pc'[q] = pc[q] /\ reply'[q] = reply[q] /\ answer'[q] = answer[q]
      /\ records'[q] = records[q] /\ chosen'[q] = chosen[q]
      /\ draft'[q] = draft[q] /\ db'[q] = db[q]
      /\ (q \in lost' <=> q \in lost)
  BY DEF Alone
<1>2. Placed(q) /\ Recorded(q) /\ Stored(q) /\ Sent(q)
  BY DEF IInv, RequestInv
<1>3. Placed(q)' /\ Recorded(q)'
  BY <1>1, <1>2 DEF Placed, Recorded
<1>4. TurnOf(q)' = TurnOf(q) /\ \A n : Opening(q, n)' = Opening(q, n)
  BY <1>1, SameTurn
<1>5. Stored(q)'
  BY <1>1, <1>2, <1>4 DEF Stored, Writing
<1>6. Sent(q)'
  <2>1. Parsed(q)' = Parsed(q) /\ \A a : Told(q, a)' = Told(q, a)
    BY <1>1, SameTold
  <2>2. \A a : a = reply[q] /\ Told(q, a) => Told(q, a)'
    BY <2>1
  <2>3. Told(q, reply[q]) => Told(q, reply[q])'
    BY <1>1, <2>2 DEF Told
  <2> QED
    BY <1>1, <1>2, <2>1, <2>3 DEF Sent
<1> QED
  BY <1>3, <1>5, <1>6 DEF RequestInv

LEMMA AloneKeeps ==
  ASSUME IInv, NEW r \in Requests, Alone(r), RequestInv(r)'
  PROVE  IInv'
<1>1. Shapes'
  BY DEF IInv, Shapes, Alone
<1>2. \A q \in Requests \ {r} : RequestInv(q)'
  BY OthersKeep
<1> QED
  BY <1>1, <1>2 DEF IInv

-----------------------------------------------------------------------------
(* Requests to the agent *)

\* Where a request of the agent may be.
LEMMA AgentLabels ==
  ASSUME IInv, NEW r \in Requests,
         pc[r] \in {"create", "find", "read", "ask", "recall", "think", "act", "store",
                    "commit", "rollback"}
  PROVE  call[r].op # "route" /\ call[r] \in AgentRequest
<1>1. call[r].op # "route"
  BY DEF IInv, RequestInv, Placed
<1>2. call[r] \in AgentRequest \cup RouteRequest
  BY DEF IInv, Shapes
<1> QED
  BY <1>1, <1>2 DEF RouteRequest

\* A step that records nothing, stores nothing and calls no tool.
LEMMA QuietKeeps ==
  ASSUME IInv, NEW r \in Requests, Alone(r), call[r].op # "route",
         pc[r] # "done", pc'[r] # "act", records' = records, db' = db, Placed(r)',
         call[r].op = "chat" => Writing(r)',
         call[r].op # "chat" => draft'[r].messages = draft[r].messages
  PROVE  IInv'
<1>1. call' = call /\ RequestInv(r)
  BY DEF Alone, IInv
<1>2. Recorded(r)'
  BY <1>1 DEF RequestInv, Recorded
<1>3. Stored(r)'
  BY <1>1 DEF RequestInv, Stored
<1>4. Sent(r)'
  BY <1>1 DEF Sent
<1> QED
  BY <1>2, <1>3, <1>4, AloneKeeps DEF RequestInv

\* A request moves on, with or without an answer, and adds nothing.
LEMMA MoveKeeps ==
  ASSUME IInv, NEW r \in Requests, call[r].op # "route", pc[r] # "done",
         NEW l, l # "act", Goto(r, l), UNCHANGED <<call, records, draft, db, lost, setup>>,
         DOMAIN reply' = Requests, DOMAIN answer' = Requests, DOMAIN chosen' = Requests,
         \A q \in Requests \ {r} :
           reply'[q] = reply[q] /\ answer'[q] = answer[q] /\ chosen'[q] = chosen[q],
         Placed(r)',
         call[r].op = "chat" => Writing(r)'
  PROVE  IInv'
<1>1. DOMAIN pc = Requests
  BY DEF IInv, Shapes
<1>2. Alone(r) /\ pc'[r] = l
  BY <1>1 DEF IInv, Shapes, Alone, Goto
<1> QED
  BY <1>2, QuietKeeps

LEMMA RefuseKeeps ==
  ASSUME IInv, NEW r \in Requests, call[r].op # "route", pc[r] # "done", NEW status,
         NEW l \in {"rollback", "done"}, Tell(r, status), Goto(r, l),
         UNCHANGED <<call, progress, draft, db, lost, setup>>
  PROVE  IInv'
<1>1. DOMAIN pc = Requests /\ DOMAIN reply = Requests /\ call' = call
  BY DEF IInv, Shapes
<1>2. pc'[r] = l
  BY <1>1 DEF Goto
<1>3. Placed(r)' /\ Writing(r)'
  BY <1>1, <1>2 DEF Placed, Writing
<1> QED
  BY <1>1, <1>3, MoveKeeps DEF IInv, Shapes, Tell, progress

\* Without a turn there is nothing to store.
LEMMA SucceedKeeps ==
  ASSUME IInv, NEW r \in Requests, call[r].op \notin {"route", "chat"}, pc[r] # "done", NEW status,
         Succeed(r, status), UNCHANGED <<call, progress, draft, db, lost, setup>>
  PROVE  IInv'
<1>1. DOMAIN pc = Requests /\ DOMAIN reply = Requests /\ call' = call
  BY DEF IInv, Shapes
<1>2. pc'[r] = "commit"
  BY <1>1 DEF Succeed, Goto
<1>3. Placed(r)'
  BY <1>1, <1>2 DEF Placed
<1> QED
  BY <1>1, <1>3, MoveKeeps DEF IInv, Shapes, Succeed, Tell, progress

LEMMA StartKeeps ==
  ASSUME IInv, NEW r \in Requests, AgentStart(r), setup' = setup
  PROVE  IInv'
<1>1. ASSUME NEW op \in AgentOps, NEW permissions, NEW l, Route(r, op, permissions, l),
             \/ op = "create" /\ l = "create"
             \/ op \in {"chat", "history"} /\ l = "find"
             \/ op = "run" /\ l = "think"
      PROVE  IInv'
  <2>1. /\ pc[r] = "idle" /\ call[r].op = op /\ op # "route"
        /\ UNCHANGED <<call, progress, draft, db, lost>>
    BY <1>1 DEF Route, At, AgentOps, stored
  <2>2. CASE Tell(r, "403") /\ Goto(r, "done")
    BY <2>1, <2>2, RefuseKeeps
  <2>3. CASE Goto(r, l) /\ UNCHANGED reply
    <3>1. pc'[r] = l /\ call' = call
      BY <2>1, <2>3 DEF Goto, IInv, Shapes
    <3>2. Placed(r)'
      BY <1>1, <2>1, <3>1 DEF Placed
    <3>3. call[r].op = "chat" => Writing(r)'
      BY <1>1, <2>1, <3>1 DEF IInv, RequestInv, Stored, Writing
    <3> QED
      BY <1>1, <2>1, <2>3, <3>2, <3>3, MoveKeeps DEF IInv, Shapes, progress
  <2> QED
    BY <1>1, <2>2, <2>3 DEF Route
<1>2. ASSUME ListTools(r) PROVE IInv'
  <2>1. /\ pc[r] = "idle" /\ call[r].op # "route" /\ Goto(r, "done")
        /\ Tell(r, "200") \/ Tell(r, "403")
        /\ UNCHANGED <<call, progress, draft, db, lost>>
    BY <1>2 DEF ListTools, At, stored
  <2> QED
    BY <2>1, RefuseKeeps
<1> QED
  BY <1>1, <1>2 DEF AgentStart, CreateRoute, ChatRoute, HistoryRoute, RunRoute, AgentOps

LEMMA CreateKeeps ==
  ASSUME IInv, NEW r \in Requests, CreateSession(r), setup' = setup
  PROVE  IInv'
<1>1. /\ pc[r] = "create" /\ call[r].op = "create" /\ Succeed(r, "201")
      /\ draft' = [draft EXCEPT ![r].session = NewSession(r)]
      /\ UNCHANGED <<call, answer, records, chosen, db, lost>>
  BY DEF CreateSession, At, IInv, RequestInv, Placed, progress
<1>2. /\ DOMAIN pc = Requests /\ DOMAIN reply = Requests /\ DOMAIN draft = Requests
      /\ DOMAIN draft[r] = {"session", "messages", "events"}
  BY DEF IInv, Shapes
<1>3. /\ pc'[r] = "commit" /\ draft'[r].messages = draft[r].messages
      /\ DOMAIN draft'[r] = {"session", "messages", "events"}
  BY <1>1, <1>2 DEF Succeed, Goto
<1>4. Alone(r)
  BY <1>1, <1>2, <1>3 DEF IInv, Shapes, Alone, Succeed, Tell, Goto
<1>5. Placed(r)'
  BY <1>1, <1>3 DEF Placed
<1> QED
  BY <1>1, <1>3, <1>4, <1>5, QuietKeeps

LEMMA GetSessionKeeps ==
  ASSUME IInv, NEW r \in Requests, GetSession(r), setup' = setup
  PROVE  IInv'
<1>1. /\ pc[r] = "find" /\ call[r].op \in {"chat", "history"}
      /\ UNCHANGED <<call, progress, draft, db, lost>>
  BY DEF GetSession, At, IInv, RequestInv, Placed
<1>2. CASE Refuse(r, "404")
  BY <1>1, <1>2, RefuseKeeps DEF Refuse
<1>3. ASSUME NEW l, l = (IF call[r].op = "chat" THEN "ask" ELSE "read"), Goto(r, l), UNCHANGED reply
      PROVE  IInv'
  <2>1. pc'[r] = l /\ call' = call
    BY <1>1, <1>3 DEF Goto, IInv, Shapes
  <2>2. Placed(r)'
    BY <1>1, <1>3, <2>1 DEF Placed
  <2>3. call[r].op = "chat" => Writing(r)'
    BY <1>1, <1>3, <2>1 DEF IInv, RequestInv, Stored, Writing
  <2> QED
    BY <1>1, <1>3, <2>2, <2>3, MoveKeeps DEF IInv, Shapes, progress
<1> QED
  BY <1>2, <1>3 DEF GetSession

LEMMA ReadKeeps ==
  ASSUME IInv, NEW r \in Requests, ReadHistory(r), setup' = setup
  PROVE  IInv'
<1>1. /\ pc[r] = "read" /\ call[r].op = "history" /\ Succeed(r, "200")
      /\ UNCHANGED <<call, progress, draft, db, lost>>
  BY DEF ReadHistory, At, IInv, RequestInv, Placed, stored
<1> QED
  BY <1>1, SucceedKeeps

-----------------------------------------------------------------------------
(* Turns *)

LEMMA SameOpening ==
  ASSUME NEW r \in Requests, call' = call, records'[r] = records[r]
  PROVE  \A n : Opening(r, n)' = Opening(r, n)
  BY DEF Opening, Question, ToolMessage, Message

LEMMA OpeningFirst ==
  ASSUME NEW r \in Requests
  PROVE  Append(<<>>, Question(r)) = Opening(r, 1)
<1>1. Append(<<>>, Question(r)) = <<Question(r)>>
  OBVIOUS
<1>2. Opening(r, 1) = [i \in 1 .. 1 |-> Question(r)]
  BY DEF Opening
<1> QED
  BY <1>1, <1>2

LEMMA OpeningNext ==
  ASSUME NEW r \in Requests, NEW n \in Nat \ {0}
  PROVE  /\ Len(Opening(r, n)) = n
         /\ Append(Opening(r, n), ToolMessage(r, records[r][n])) = Opening(r, n + 1)
<1> DEFINE message(i) == IF i = 1 THEN Question(r) ELSE ToolMessage(r, records[r][i - 1])
           s == [i \in 1 .. n |-> message(i)]
           S == { message(i) : i \in Nat }
<1>1. Opening(r, n) = s
  BY DEF Opening
<1>2. message(n + 1) = ToolMessage(r, records[r][n])
  OBVIOUS
<1>3. Opening(r, n + 1) = [i \in 1 .. n + 1 |-> message(i)]
  BY DEF Opening
<1> HIDE DEF message
<1>4. s \in Seq(S) /\ Len(s) = n
  OBVIOUS
<1>5. Append(s, message(n + 1)) = [i \in 1 .. n + 1 |-> message(i)]
  BY <1>4
<1> QED
  BY <1>1, <1>2, <1>3, <1>4, <1>5

LEMMA OpeningLast ==
  ASSUME NEW r \in Requests, records[r] \in Seq(ToolRecords)
  PROVE  Append(Opening(r, Len(records[r]) + 1), Reply(r)) = TurnOf(r)
<1> DEFINE n == Len(records[r])
           message(i) == IF i = 1 THEN Question(r) ELSE ToolMessage(r, records[r][i - 1])
           s == [i \in 1 .. n + 1 |-> message(i)]
           tools == [i \in 1 .. n |-> ToolMessage(r, records[r][i])]
<1>1. n \in Nat /\ DOMAIN records[r] = 1 .. n
  OBVIOUS
<1>2. Opening(r, n + 1) = s
  BY DEF Opening
<1>3. TurnOf(r) = <<Question(r)>> \o tools \o <<Reply(r)>>
  BY <1>1 DEF TurnOf
<1> DEFINE S == { message(i) : i \in Nat } \cup {Reply(r)} \cup { ToolMessage(r, records[r][i]) : i \in Nat }
<1>4. message(1) = Question(r) /\ \A i \in 1 .. n : message(i + 1) = ToolMessage(r, records[r][i])
  BY <1>1
<1> HIDE DEF n, message
<1>5. /\ s \in Seq(S) /\ Len(s) = n + 1 /\ tools \in Seq(S) /\ Len(tools) = n
      /\ Reply(r) \in S /\ Question(r) \in S
  <2>1. n \in Nat
    BY <1>1 DEF n
  <2>2. \A i \in Nat : message(i) \in S /\ ToolMessage(r, records[r][i]) \in S
    OBVIOUS
  <2>3. Reply(r) \in S /\ Question(r) \in S
    BY <1>4, <2>2
  <2> HIDE DEF S
  <2>4. s \in Seq(S) /\ Len(s) = n + 1
    BY <2>1, <2>2
  <2>5. tools \in Seq(S) /\ Len(tools) = n
    BY <2>1, <2>2
  <2> QED
    BY <2>3, <2>4, <2>5
<1>6. <<Question(r)>> \o tools = s
  <2>1. /\ <<Question(r)>> \in Seq(S) /\ Len(<<Question(r)>>) = 1 /\ <<Question(r)>>[1] = Question(r)
    BY <1>5
  <2>2. /\ Len(<<Question(r)>> \o tools) = n + 1 /\ <<Question(r)>> \o tools \in Seq(S)
    BY <1>1, <1>5, <2>1
  <2>3. \A i \in 1 .. n + 1 : (<<Question(r)>> \o tools)[i] = s[i]
    <3> SUFFICES ASSUME NEW i \in 1 .. n + 1 PROVE (<<Question(r)>> \o tools)[i] = s[i]
      OBVIOUS
    <3>1. CASE i = 1
      BY <1>1, <1>4, <1>5, <2>1, <3>1
    <3>2. CASE i # 1
      <4>1. i - 1 \in 1 .. n
        BY <1>1, <3>2
      <4>2. (<<Question(r)>> \o tools)[i] = tools[i - 1]
        BY <1>1, <1>5, <2>1, <3>2
      <4>3. message((i - 1) + 1) = ToolMessage(r, records[r][i - 1])
        BY <1>4, <4>1
      <4> QED
        BY <1>1, <4>1, <4>2, <4>3
    <3> QED
      BY <3>1, <3>2
  <2> QED
    BY <1>1, <1>5, <2>2, <2>3
<1> HIDE DEF s, S, tools
<1>7. Append(s, Reply(r)) = s \o <<Reply(r)>>
  BY <1>1, <1>5
<1> QED
  BY <1>2, <1>3, <1>6, <1>7 DEF n

-----------------------------------------------------------------------------
(* The steps of a turn *)

LEMMA AskKeeps ==
  ASSUME IInv, NEW r \in Requests, AddQuestion(r), setup' = setup
  PROVE  IInv'
<1>1. /\ pc[r] = "ask" /\ call[r].op = "chat" /\ draft[r].messages = <<>>
      /\ draft' = [draft EXCEPT ![r].messages = Append(@, Question(r))] /\ Goto(r, "recall")
      /\ UNCHANGED <<call, reply, answer, records, chosen, db, lost>>
  BY DEF AddQuestion, AddMessage, At, IInv, RequestInv, Placed, Stored, Writing, progress
<1>2. DOMAIN pc = Requests /\ DOMAIN draft = Requests /\ DOMAIN draft[r] = {"session", "messages", "events"}
  BY DEF IInv, Shapes
<1>3. /\ pc'[r] = "recall" /\ draft'[r].messages = Append(<<>>, Question(r))
      /\ DOMAIN draft'[r] = {"session", "messages", "events"}
      /\ \A q \in Requests \ {r} : draft'[q] = draft[q]
  BY <1>1, <1>2 DEF Goto
<1>4. Alone(r)
  BY <1>1, <1>2, <1>3 DEF IInv, Shapes, Alone, Goto
<1>5. \A n : Opening(r, n)' = Opening(r, n)
  BY <1>1, SameOpening
<1>6. draft'[r].messages = Opening(r, 1)'
  BY <1>3, <1>5, OpeningFirst
<1>7. Writing(r)'
  BY <1>3, <1>6 DEF Writing
<1>8. Placed(r)'
  BY <1>1, <1>3 DEF Placed
<1> QED
  BY <1>1, <1>3, <1>4, <1>7, <1>8, QuietKeeps

\* A turn that has asked has stored its question, and only that.
LEMMA Asked ==
  ASSUME IInv, NEW r \in Requests, pc[r] \in {"recall", "think", "act"}, call[r].op = "chat"
  PROVE  draft[r].messages = Opening(r, 1)
  BY DEF IInv, RequestInv, Stored, Writing

LEMMA RecallKeeps ==
  ASSUME IInv, NEW r \in Requests, Recall(r), setup' = setup
  PROVE  IInv'
<1>1. /\ pc[r] = "recall" /\ call[r].op = "chat" /\ Goto(r, "think")
      /\ UNCHANGED <<call, reply, answer, records, chosen, draft, db, lost>>
  BY DEF Recall, At, IInv, RequestInv, Placed, progress, stored
<1>2. pc'[r] = "think" /\ draft[r].messages = Opening(r, 1)
  BY <1>1, Asked DEF Goto, IInv, Shapes
<1>3. \A n : Opening(r, n)' = Opening(r, n)
  BY <1>1, SameOpening
<1>4. draft'[r].messages = Opening(r, 1)'
  BY <1>1, <1>2, <1>3
<1>5. Writing(r)'
  BY <1>2, <1>4 DEF Writing
<1>6. Placed(r)'
  BY <1>1, <1>2 DEF Placed
<1> QED
  BY <1>1, <1>5, <1>6, MoveKeeps DEF IInv, Shapes

LEMMA ConcludeKeeps ==
  ASSUME IInv, NEW r \in Requests, At(r, "think"), NEW words, Conclude(r, words), setup' = setup,
         UNCHANGED <<call, records, chosen, draft, db, lost>>
  PROVE  IInv'
<1>1. /\ call[r].op \in {"chat", "run"} /\ pc[r] = "think" /\ DOMAIN answer = Requests
      /\ DOMAIN pc = Requests /\ DOMAIN reply = Requests /\ records[r] \in Seq(ToolRecords)
      /\ DOMAIN chosen = Requests
  BY DEF At, IInv, Shapes, RequestInv, Placed, Recorded
<1>2. CASE call[r].op = "chat"
  <2>1. Goto(r, "store") /\ UNCHANGED reply /\ answer' = [answer EXCEPT ![r] = words]
    BY <1>2 DEF Conclude
  <2>2. pc'[r] = "store" /\ draft[r].messages = Opening(r, 1)
    BY <1>1, <1>2, <2>1, Asked DEF Goto
  <2>3. \A n : Opening(r, n)' = Opening(r, n)
    BY SameOpening
  <2>4. draft'[r].messages = Opening(r, 1)' /\ 1 \in 1 .. Len(records'[r]) + 1
    BY <1>1, <2>2, <2>3
  <2>5. Writing(r)'
    BY <2>2, <2>4 DEF Writing
  <2>6. Placed(r)'
    BY <1>1, <1>2, <2>2 DEF Placed
  <2> QED
    BY <1>1, <2>1, <2>5, <2>6, MoveKeeps
<1>3. CASE call[r].op = "run"
  <2>1. Succeed(r, "200") /\ answer' = [answer EXCEPT ![r] = words]
    BY <1>3 DEF Conclude
  <2>2. pc'[r] = "commit"
    BY <1>1, <2>1 DEF Succeed, Goto
  <2>3. Placed(r)'
    BY <1>1, <1>3, <2>2 DEF Placed
  <2> QED
    BY <1>1, <1>3, <2>1, <2>3, MoveKeeps DEF Succeed, Tell
<1> QED
  BY <1>1, <1>2, <1>3

LEMMA ThinkKeeps ==
  ASSUME IInv, NEW r \in Requests, Think(r) \/ ForceAnswer(r) \/ ModelUnavailable(r) \/ ModelBreaks(r),
         setup' = setup
  PROVE  IInv'
<1>1. /\ pc[r] = "think" /\ UNCHANGED <<call, records, draft, db, lost>>
      /\ call[r].op \in {"chat", "run"}
  BY DEF Think, ForceAnswer, ModelUnavailable, ModelBreaks, At, progress, stored, IInv, RequestInv, Placed
<1>2. ASSUME NEW words, Conclude(r, words), UNCHANGED chosen PROVE IInv'
  BY <1>1, <1>2, ConcludeKeeps DEF At
<1>3. ASSUME NEW text \in Repertoire[call[r].model], chosen' = [chosen EXCEPT ![r] = text.call],
             Goto(r, "act"), UNCHANGED <<reply, answer>>
      PROVE  IInv'
  <2>1. /\ DOMAIN pc = Requests /\ DOMAIN chosen = Requests
    BY DEF IInv, Shapes
  <2>2. /\ pc'[r] = "act" /\ chosen'[r] = text.call
    BY <1>3, <2>1 DEF Goto
  <2>3. text.call \in ToolCalls
    <3>1. call[r].model \in DOMAIN Repertoire
      BY <1>1, AgentLabels DEF AgentRequest
    <3> QED
      BY <1>3, <3>1, RepertoireAssumption DEF ModelReplies
  <2>4. Alone(r)
    BY <1>1, <1>3, <2>1 DEF IInv, Shapes, Alone, Goto
  <2>5. Placed(r)'
    BY <1>1, <2>2 DEF Placed
  <2>6. Recorded(r)'
    BY <1>1, <2>2, <2>3 DEF IInv, RequestInv, Recorded
  <2>7. Stored(r)'
    <3>1. call[r].op = "chat" => draft'[r].messages = Opening(r, 1)'
      BY <1>1, Asked, SameOpening
    <3>2. call[r].op = "chat" => Writing(r)'
      BY <2>2, <3>1 DEF Writing
    <3> QED
      BY <1>1, <3>2 DEF IInv, RequestInv, Stored
  <2>8. Sent(r)'
    BY <1>1 DEF Sent
  <2> QED
    BY <2>4, <2>5, <2>6, <2>7, <2>8, AloneKeeps DEF RequestInv
<1>4. ASSUME Think(r) PROVE IInv'
  <2>1. PICK text \in Repertoire[call[r].model] :
          IF IsCall(text)
          THEN /\ chosen' = [chosen EXCEPT ![r] = text.call]
               /\ Goto(r, "act")
               /\ UNCHANGED <<reply, answer, iteration>>
          ELSE /\ iteration' = [iteration EXCEPT ![r] = @ + 1]
               /\ Conclude(r, FinalAnswer(text))
               /\ UNCHANGED chosen
    BY <1>4 DEF Think
  <2>2. CASE IsCall(text)
    BY <1>3, <2>1, <2>2
  <2>3. CASE ~IsCall(text)
    BY <1>2, <2>1, <2>3
  <2> QED
    BY <2>2, <2>3
<1>5. ASSUME ForceAnswer(r) PROVE IInv'
  BY <1>2, <1>5 DEF ForceAnswer
<1>6. ASSUME ModelUnavailable(r) PROVE IInv'
  BY <1>2, <1>6 DEF ModelUnavailable
<1>7. ASSUME ModelBreaks(r) PROVE IInv'
  BY <1>1, <1>7, RefuseKeeps DEF ModelBreaks, Refuse, stored
<1> QED
  BY <1>4, <1>5, <1>6, <1>7

\* What a tool may come to: a success only for who may call it, with what it needs.
LEMMA OutcomesAllowed ==
  ASSUME NEW c \in ToolCalls, NEW permissions, NEW bad,
         NEW outcome \in Outcomes(c, permissions, bad)
  PROVE  /\ outcome.success \in BOOLEAN
         /\ outcome.success => \A d \in Registry : d.name = c.tool =>
              d.permissions \subseteq permissions /\ (c.params = "blank" => d.required = {})
<1>1. /\ Failed.success = FALSE /\ StatementFailed.success = FALSE
      /\ \A event : Succeeded(event).success = TRUE
  BY DEF Failed, StatementFailed, Succeeded
<1>2. \A results, o : o \in Query(bad, results) => o = Failed \/ o = StatementFailed \/ o \in results
  BY DEF Query
<1> HIDE DEF Failed, StatementFailed, Succeeded
<1>3. /\ RagSearchDefinition.name = "rag_search" /\ TenantLookupDefinition.name = "tenant_lookup"
      /\ SqlQueryDefinition.name = "sql_query" /\ RbacCheckDefinition.name = "rbac_check"
      /\ AuditLogDefinition.name = "audit_log" /\ VisionAnalyzeDefinition.name = "vision_analyze"
      /\ RagSearchDefinition.permissions = {"rag.search"} /\ TenantLookupDefinition.permissions = {}
      /\ SqlQueryDefinition.permissions = {"analytics.read"} /\ RbacCheckDefinition.permissions = {}
      /\ AuditLogDefinition.permissions = {} /\ VisionAnalyzeDefinition.permissions = {"vision.analyze"}
      /\ TenantLookupDefinition.required = {} /\ RbacCheckDefinition.required = {}
  BY DEF RagSearchDefinition, TenantLookupDefinition, SqlQueryDefinition, RbacCheckDefinition,
         AuditLogDefinition, VisionAnalyzeDefinition, Definition
<1>4. \A d \in Registry :
        /\ d.name = "tenant_lookup" => d = TenantLookupDefinition
        /\ d.name = "rbac_check" => d = RbacCheckDefinition
        /\ d.name = "audit_log" => d = AuditLogDefinition
        /\ d.name = "rag_search" => d = RagSearchDefinition
        /\ d.name = "sql_query" => d = SqlQueryDefinition
        /\ d.name = "vision_analyze" => d = VisionAnalyzeDefinition
        /\ d.name \in {"tenant_lookup", "rbac_check", "audit_log", "rag_search", "sql_query",
                       "vision_analyze"}
  BY <1>3 DEF Registry
<1>5. CASE c.tool = "tenant_lookup"
  <2>1. outcome \in TenantLookup(bad)
    BY <1>5 DEF Outcomes
  <2>2. outcome.success \in BOOLEAN
    BY <1>1, <1>2, <2>1 DEF TenantLookup
  <2> QED
    BY <1>3, <1>4, <1>5, <2>2
<1>6. CASE c.tool = "rbac_check"
  <2>1. outcome.success \in BOOLEAN
    BY <1>1, <1>6 DEF Outcomes, RbacCheck
  <2> QED
    BY <1>3, <1>4, <1>6, <2>1
<1>7. CASE c.tool = "audit_log"
  <2>1. outcome \in AuditLog(c.params, bad)
    BY <1>7 DEF Outcomes
  <2>2. outcome.success \in BOOLEAN /\ (outcome.success => c.params # "blank")
    <3>1. CASE c.params = "blank"
      BY <1>1, <2>1, <3>1 DEF AuditLog
    <3>2. CASE c.params # "blank"
      <4>1. outcome \in Query(bad, {Succeeded("audit_event")})
        BY <2>1, <3>2 DEF AuditLog
      <4> QED
        BY <1>1, <1>2, <3>2, <4>1
    <3> QED
      BY <3>1, <3>2
  <2> QED
    BY <1>3, <1>4, <1>7, <2>2
<1>8. CASE c.tool = "rag_search"
  <2>1. outcome \in RagSearch(c.params, permissions, bad)
    BY <1>8 DEF Outcomes
  <2>2. /\ outcome.success \in BOOLEAN
        /\ outcome.success => c.params = "fine" /\ "rag.search" \in permissions
    BY <1>1, <1>2, <2>1 DEF RagSearch
  <2> QED
    BY <1>3, <1>4, <1>8, <2>2
<1>9. CASE c.tool = "sql_query"
  <2>1. outcome \in SqlQuery(c.params, permissions, bad)
    BY <1>9 DEF Outcomes
  <2>2. /\ outcome.success \in BOOLEAN
        /\ outcome.success => c.params = "fine" /\ "analytics.read" \in permissions
    BY <1>1, <1>2, <2>1 DEF SqlQuery, ValidateSelectOnly
  <2> QED
    BY <1>3, <1>4, <1>9, <2>2
<1>10. CASE c.tool = "vision_analyze"
  <2>1. outcome \in VisionAnalyze(c.params, permissions, bad)
    BY <1>10 DEF Outcomes
  <2>2. /\ outcome.success \in BOOLEAN
        /\ outcome.success => c.params = "fine" /\ "vision.analyze" \in permissions
    BY <1>1, <1>2, <2>1 DEF VisionAnalyze
  <2> QED
    BY <1>3, <1>4, <1>10, <2>2
<1>11. CASE c.tool \notin {"tenant_lookup", "rbac_check", "audit_log", "rag_search", "sql_query",
                           "vision_analyze"}
  <2>1. outcome = Failed
    BY <1>11 DEF Outcomes
  <2> QED
    BY <1>1, <2>1
<1> QED
  BY <1>5, <1>6, <1>7, <1>8, <1>9, <1>10, <1>11

LEMMA CallToolKeeps ==
  ASSUME IInv, NEW r \in Requests, CallTool(r), setup' = setup
  PROVE  IInv'
<1>1. PICK outcome \in Outcomes(chosen[r], call[r].permissions, spoilt[r]) :
        /\ Record(r, outcome)
        /\ draft' = IF outcome.event = "none" THEN draft
                    ELSE [draft EXCEPT ![r].events = @ \cup {Event(r, outcome)}]
  BY DEF CallTool
<1>2. /\ pc[r] = "act" /\ Goto(r, "think") /\ call[r].op \in {"chat", "run"}
      /\ UNCHANGED <<call, reply, answer, chosen, db, lost>>
  BY DEF CallTool, At, IInv, RequestInv, Placed
<1>3. /\ DOMAIN pc = Requests /\ DOMAIN draft = Requests /\ DOMAIN records = Requests
      /\ DOMAIN draft[r] = {"session", "messages", "events"}
      /\ chosen[r] \in ToolCalls /\ records[r] \in Seq(ToolRecords)
      /\ \A i \in 1 .. Len(records[r]) : Allowed(records[r][i], call[r].permissions)
  BY <1>2 DEF IInv, Shapes, RequestInv, Recorded
<1> DEFINE new == ToolCallRecord(r, outcome.success)
<1>4. /\ pc'[r] = "think" /\ records' = [records EXCEPT ![r] = Append(records[r], new)]
      /\ draft'[r].messages = draft[r].messages
      /\ DOMAIN draft'[r] = {"session", "messages", "events"} /\ DOMAIN draft' = Requests
      /\ \A q \in Requests \ {r} : draft'[q] = draft[q]
  BY <1>1, <1>2, <1>3 DEF Goto, Record
<1>5. new \in ToolRecords /\ Allowed(new, call[r].permissions)
  <2>1. /\ outcome.success \in BOOLEAN
        /\ outcome.success => \A d \in Registry : d.name = chosen[r].tool =>
             /\ d.permissions \subseteq call[r].permissions
             /\ chosen[r].params = "blank" => d.required = {}
    BY <1>3, OutcomesAllowed
  <2>2. new = [tool |-> chosen[r].tool, params |-> chosen[r].params, success |-> outcome.success]
    BY DEF ToolCallRecord
  <2>3. new \in ToolRecords
    BY <1>3, <2>1, <2>2 DEF ToolRecords, ToolCalls
  <2>4. new.tool = chosen[r].tool /\ new.params = chosen[r].params /\ new.success = outcome.success
    BY <2>2
  <2> HIDE DEF new
  <2> QED
    BY <2>1, <2>3, <2>4 DEF Allowed
<1> HIDE DEF new
<1>6. Alone(r)
  BY <1>2, <1>3, <1>4 DEF IInv, Shapes, Alone, Goto
<1>7. Placed(r)'
  BY <1>2, <1>4 DEF Placed
<1>8. Recorded(r)'
  <2>1. records'[r] = Append(records[r], new)
    BY <1>3, <1>4
  <2>2. /\ records'[r] \in Seq(ToolRecords) /\ Len(records'[r]) = Len(records[r]) + 1
        /\ \A i \in 1 .. Len(records[r]) : records'[r][i] = records[r][i]
        /\ records'[r][Len(records[r]) + 1] = new
    BY <1>3, <1>5, <2>1
  <2>3. \A i \in 1 .. Len(records'[r]) : Allowed(records'[r][i], call[r].permissions)
    <3> SUFFICES ASSUME NEW i \in 1 .. Len(records'[r])
                 PROVE  Allowed(records'[r][i], call[r].permissions)
      OBVIOUS
    <3>1. CASE i \in 1 .. Len(records[r])
      BY <1>3, <2>2, <3>1
    <3>2. CASE i = Len(records[r]) + 1
      BY <1>5, <2>2, <3>2
    <3> QED
      BY <1>3, <2>2, <3>1, <3>2
  <2> QED
    BY <1>2, <1>4, <2>2, <2>3 DEF Recorded, Allowed
<1>9. Stored(r)'
  <2>1. call[r].op = "chat" => draft'[r].messages = Opening(r, 1)
    BY <1>2, <1>4, Asked
  <2>2. Opening(r, 1)' = Opening(r, 1)
    BY <1>2 DEF Opening, Question, Message
  <2>3. call[r].op = "chat" => Writing(r)'
    BY <1>4, <2>1, <2>2 DEF Writing
  <2> QED
    BY <1>2, <1>4, <2>3 DEF IInv, RequestInv, Stored
<1>10. Sent(r)'
  BY <1>2 DEF Sent
<1> QED
  BY <1>6, <1>7, <1>8, <1>9, <1>10, AloneKeeps DEF RequestInv

LEMMA StoreKeeps ==
  ASSUME IInv, NEW r \in Requests, StoreTurn(r), setup' = setup
  PROVE  IInv'
<1>1. /\ pc[r] = "store" /\ call[r].op = "chat"
      /\ UNCHANGED <<call, answer, records, chosen, db, lost>>
  BY DEF StoreTurn, At, progress, IInv, RequestInv, Placed
<1>2. PICK n \in 1 .. Len(records[r]) + 1 : draft[r].messages = Opening(r, n)
  BY <1>1 DEF IInv, RequestInv, Stored, Writing
<1>3. /\ DOMAIN pc = Requests /\ DOMAIN reply = Requests /\ DOMAIN draft = Requests
      /\ DOMAIN draft[r] = {"session", "messages", "events"} /\ records[r] \in Seq(ToolRecords)
  BY DEF IInv, Shapes, RequestInv, Recorded
<1>4. n \in Nat \ {0} /\ Len(records[r]) \in Nat /\ Len(draft[r].messages) = n
  <2>1. Len(records[r]) \in Nat
    BY <1>3
  <2>2. n \in Nat \ {0}
    BY <2>1
  <2> QED
    BY <1>2, <2>1, <2>2, OpeningNext
<1>5. Unstored(r) = SubSeq(records[r], n, Len(records[r]))
  BY <1>4 DEF Unstored
<1>6. /\ \A m : Opening(r, m)' = Opening(r, m) /\ TurnOf(r)' = TurnOf(r)
  BY <1>1, SameOpening, SameTurn
<1>7. ASSUME NEW message, AddMessage(r, message)
      PROVE  /\ draft'[r].messages = Append(Opening(r, n), message)
             /\ DOMAIN draft'[r] = {"session", "messages", "events"} /\ DOMAIN draft' = Requests
             /\ \A q \in Requests \ {r} : draft'[q] = draft[q]
  BY <1>2, <1>3, <1>7 DEF AddMessage
<1>8. CASE Unstored(r) # <<>>
  <2>1. n \in 1 .. Len(records[r])
    BY <1>3, <1>4, <1>5, <1>8
  <2>2. Head(Unstored(r)) = records[r][n]
    BY <1>3, <1>5, <2>1
  <2>3. AddMessage(r, ToolMessage(r, records[r][n])) /\ UNCHANGED <<pc, reply>>
    BY <1>8, <2>2 DEF StoreTurn
  <2>4. draft'[r].messages = Opening(r, n + 1)
    BY <1>4, <1>7, <2>3, OpeningNext
  <2>5. Alone(r)
    BY <1>1, <1>7, <2>3 DEF IInv, Shapes, Alone
  <2>6. Writing(r)'
    <3>1. n + 1 \in 1 .. Len(records'[r]) + 1 /\ draft'[r].messages = Opening(r, n + 1)'
      BY <1>1, <1>4, <1>6, <2>1, <2>4
    <3> QED
      BY <1>1, <2>3, <3>1 DEF Writing
  <2>7. Placed(r)'
    BY <1>1, <2>3 DEF Placed
  <2> QED
    BY <1>1, <2>3, <2>5, <2>6, <2>7, QuietKeeps
<1>9. CASE Unstored(r) = <<>>
  <2>1. n = Len(records[r]) + 1
    <3>1. ASSUME n <= Len(records[r]) PROVE Len(SubSeq(records[r], n, Len(records[r]))) > 0
      BY <1>3, <1>4, <3>1
    <3>2. Len(<<>>) = 0
      OBVIOUS
    <3> QED
      BY <1>4, <1>5, <1>9, <3>1, <3>2
  <2>2. AddMessage(r, Reply(r)) /\ Succeed(r, "200")
    BY <1>9 DEF StoreTurn
  <2>3. draft'[r].messages = TurnOf(r)
    BY <1>3, <1>7, <2>1, <2>2, OpeningLast
  <2>4. pc'[r] = "commit" /\ reply'[r] = "200"
    BY <1>3, <2>2 DEF Succeed, Tell, Goto
  <2>5. Alone(r)
    BY <1>1, <1>3, <1>7, <2>2 DEF IInv, Shapes, Alone, Succeed, Tell, Goto
  <2>6. Writing(r)'
    BY <1>6, <2>3, <2>4 DEF Writing
  <2>7. Placed(r)'
    BY <1>1, <2>4 DEF Placed
  <2> QED
    BY <1>1, <2>4, <2>5, <2>6, <2>7, QuietKeeps
<1> QED
  BY <1>8, <1>9

-----------------------------------------------------------------------------
(* The end of a request *)

\* Nothing is kept of what the request has added.
LEMMA CloseKeeps ==
  ASSUME IInv, NEW r \in Requests, InFlight(r), Close(r), db' = db, setup' = setup,
         lost' = lost \cup {r} \/ (lost' = lost /\ pc[r] # "pathway")
  PROVE  IInv'
<1>1. /\ draft' = [draft EXCEPT ![r] = Empty] /\ Goto(r, "done")
      /\ UNCHANGED <<call, reply, answer, records, chosen>>
  BY DEF Close, progress
<1>2. DOMAIN pc = Requests /\ DOMAIN draft = Requests /\ pc[r] # "done"
  BY DEF IInv, Shapes, InFlight, Waiting
<1>3. /\ pc'[r] = "done" /\ draft'[r] = Empty
      /\ DOMAIN draft'[r] = {"session", "messages", "events"} /\ draft'[r].messages = <<>>
  BY <1>1, <1>2 DEF Goto, Empty
<1>4. Alone(r)
  BY <1>1, <1>2, <1>3 DEF IInv, Shapes, Alone, Goto
<1>5. RequestInv(r)
  BY DEF IInv
<1>6. Placed(r)' /\ Recorded(r)'
  BY <1>1, <1>3, <1>5 DEF RequestInv, Placed, Recorded
<1>7. Writing(r)'
  BY <1>3 DEF Writing
<1>8. Stored(r)'
  BY <1>1, <1>2, <1>3, <1>5, <1>7 DEF RequestInv, Stored
<1>9. Sent(r)'
  <2>1. CASE r \in lost'
    BY <1>3, <2>1 DEF Sent
  <2>2. CASE pc[r] # "pathway"
    <3>1. call[r].op # "route"
      BY <1>2, <1>5, <2>2 DEF RequestInv, Placed, InFlight, Waiting
    <3> QED
      BY <1>1, <3>1 DEF Sent
  <2> QED
    BY <2>1, <2>2
<1> QED
  BY <1>4, <1>6, <1>8, <1>9, AloneKeeps DEF RequestInv

LEMMA CommitKeeps ==
  ASSUME IInv, NEW r \in Requests, Commit(r), setup' = setup
  PROVE  IInv'
<1>1. pc[r] = "commit" /\ InFlight(r) /\ Close(r) /\ lost' = lost
  BY DEF Commit, At, InFlight, Waiting
<1>2. CASE db' = db
  BY <1>1, <1>2, CloseKeeps
<1>3. CASE db' = [db EXCEPT ![r] = draft[r]]
  <2>1. /\ draft' = [draft EXCEPT ![r] = Empty] /\ Goto(r, "done")
        /\ UNCHANGED <<call, reply, answer, records, chosen>>
    BY <1>1 DEF Close, progress
  <2>2. DOMAIN pc = Requests /\ DOMAIN draft = Requests /\ DOMAIN db = Requests
    BY DEF IInv, Shapes
  <2>3. /\ pc'[r] = "done" /\ draft'[r] = Empty /\ db'[r] = draft[r]
        /\ DOMAIN draft'[r] = {"session", "messages", "events"} /\ draft'[r].messages = <<>>
    BY <1>3, <2>1, <2>2 DEF Goto, Empty
  <2>4. Alone(r)
    BY <1>1, <1>3, <2>1, <2>2, <2>3 DEF IInv, Shapes, Alone, Goto
  <2>5. RequestInv(r)
    BY DEF IInv
  <2>6. Placed(r)' /\ Recorded(r)' /\ Sent(r)'
    <3>1. call[r].op # "route"
      BY <1>1, AgentLabels
    <3> QED
      BY <2>1, <2>3, <2>5, <3>1 DEF RequestInv, Placed, Recorded, Sent
  <2>7. Writing(r)'
    BY <2>3 DEF Writing
  <2>8. TurnOf(r)' = TurnOf(r)
    BY <2>1, SameTurn
  <2>9. draft[r].messages # <<>> => draft[r].messages = TurnOf(r) /\ reply[r] = "200"
    BY <1>1, <2>5 DEF RequestInv, Stored, Writing
  <2>10. Stored(r)'
    BY <2>1, <2>3, <2>7, <2>8, <2>9 DEF Stored
  <2> QED
    BY <2>4, <2>6, <2>10, AloneKeeps DEF RequestInv
<1> QED
  BY <1>2, <1>3 DEF Commit

LEMMA AgentKeeps ==
  ASSUME IInv, NEW r \in Requests, AgentStep(r) \/ AgentFault(r), setup' = setup
  PROVE  IInv'
<1>1. ASSUME NEW status, Refuse(r, status), UNCHANGED <<call, progress, seen, stored>>,
             pc[r] \in {"create", "find", "read", "ask", "recall", "store"}
      PROVE  IInv'
  BY <1>1, AgentLabels, RefuseKeeps DEF Refuse, stored
<1>2. ASSUME StoreRefused(r) PROVE IInv'
  BY <1>1, <1>2 DEF StoreRefused, At
<1>3. ASSUME StatementFails(r) PROVE IInv'
  BY <1>1, <1>3 DEF StatementFails
<1>4. ASSUME Rollback(r) PROVE IInv'
  BY <1>4, CloseKeeps DEF Rollback, At, InFlight, Waiting
<1>5. ASSUME CommitFails(r) PROVE IInv'
  BY <1>5, CloseKeeps DEF CommitFails, At, InFlight, Waiting
<1>6. ASSUME ProcessDies(r) PROVE IInv'
  BY <1>6, CloseKeeps DEF ProcessDies
<1>7. CASE AgentStep(r)
  BY <1>2, <1>4, <1>7, CreateKeeps, GetSessionKeeps, ReadKeeps, AskKeeps, RecallKeeps, ThinkKeeps,
     CallToolKeeps, StoreKeeps, CommitKeeps DEF AgentStep
<1>8. CASE AgentFault(r)
  BY <1>3, <1>5, <1>6, <1>8, ThinkKeeps DEF AgentFault
<1> QED
  BY <1>7, <1>8

-----------------------------------------------------------------------------
(* Routed messages *)

\* A routed message stores nothing and calls no tool.
LEMMA RoutedKeeps ==
  ASSUME IInv, NEW r \in Requests, call[r].op = "route", pc[r] # "done",
         NEW l \in {"pathway", "done"}, Goto(r, l),
         UNCHANGED <<call, progress, seen, stored, setup>>,
         DOMAIN reply' = Requests, \A q \in Requests \ {r} : reply'[q] = reply[q],
         ~call[r].blank =>
           IF l = "pathway" THEN CheckPermission(call[r].permissions, Parsed(r))
           ELSE Told(r, reply'[r])
  PROVE  IInv'
<1>1. /\ call' = call /\ setup' = setup /\ answer' = answer /\ records' = records /\ chosen' = chosen
      /\ draft' = draft /\ db' = db /\ lost' = lost
  BY DEF progress, stored
<1>2. DOMAIN pc = Requests /\ pc'[r] = l
  BY DEF IInv, Shapes, Goto
<1>3. Alone(r)
  BY <1>1, <1>2 DEF IInv, Shapes, Alone, Goto
<1>4. RequestInv(r)
  BY DEF IInv
<1>5. Placed(r)' /\ Recorded(r)' /\ Stored(r)'
  BY <1>1, <1>2, <1>4 DEF RequestInv, Placed, Recorded, Stored
<1>6. Sent(r)'
  <2>1. Parsed(r)' = Parsed(r) /\ \A a : Told(r, a)' = Told(r, a)
    BY <1>1, SameTold
  <2>2. \A a : a = reply'[r] /\ Told(r, a) => Told(r, a)'
    BY <2>1
  <2>3. Told(r, reply'[r]) => Told(r, reply[r])'
    BY <1>1, <2>2 DEF Told
  <2> QED
    BY <1>1, <1>2, <2>1, <2>3 DEF Sent
<1> QED
  BY <1>3, <1>5, <1>6, AloneKeeps DEF RequestInv

LEMMA RouteKeeps ==
  ASSUME IInv, NEW r \in Requests, RouteMessage(r), setup' = setup
  PROVE  IInv'
<1>1. /\ pc[r] = "idle" /\ call[r].op = "route" /\ UNCHANGED <<call, progress, seen, stored>>
      /\ DOMAIN reply = Requests
  BY DEF RouteMessage, At, IInv, Shapes
<1>2. CASE call[r].blank
  <2>1. Tell(r, "422") /\ Goto(r, "done")
    BY <1>2 DEF RouteMessage
  <2> QED
    BY <1>1, <1>2, <2>1, RoutedKeeps DEF Tell
<1>3. CASE ~call[r].blank /\ ~CheckPermission(call[r].permissions, Parsed(r))
  <2>1. Tell(r, Synthesize("AuthorizationError")) /\ Goto(r, "done")
    BY <1>3 DEF RouteMessage
  <2>2. Synthesize("AuthorizationError") = "not authorized"
    BY DEF Synthesize, SafeFailureMessage
  <2>3. Told(r, reply'[r])
    BY <1>1, <1>3, <2>1, <2>2 DEF Told, Tell
  <2> QED
    BY <1>1, <2>1, <2>3, RoutedKeeps DEF Tell
<1>4. CASE ~call[r].blank /\ CheckPermission(call[r].permissions, Parsed(r))
  <2>1. Goto(r, "pathway") /\ UNCHANGED reply
    BY <1>4 DEF RouteMessage
  <2> QED
    BY <1>1, <1>4, <2>1, RoutedKeeps
<1> QED
  BY <1>2, <1>3, <1>4

LEMMA PathwayKeeps ==
  ASSUME IInv, NEW r \in Requests, PathwayAnswers(r), setup' = setup
  PROVE  IInv'
<1>1. /\ pc[r] = "pathway" /\ call[r].op = "route" /\ Goto(r, "done")
      /\ UNCHANGED <<call, progress, seen, stored>> /\ DOMAIN reply = Requests
  BY DEF PathwayAnswers, At, IInv, Shapes, RequestInv, Placed
<1>2. PICK result \in PathwayResults(Parsed(r), setup.wired) : Tell(r, Synthesize(result))
  BY DEF PathwayAnswers
<1>3. reply'[r] = Synthesize(result)
  BY <1>1, <1>2 DEF Tell
<1>4. ~call[r].blank => CheckPermission(call[r].permissions, Parsed(r))
  BY <1>1 DEF IInv, RequestInv, Sent
<1>5. ~call[r].blank => Told(r, reply'[r])
  BY <1>3, <1>4 DEF Told
<1> QED
  BY <1>1, <1>2, <1>5, RoutedKeeps DEF Tell

\* The first rule that a message matches, alone, is what it is classified by.
LEMMA FirstRule ==
  ASSUME NEW words, NEW i \in DOMAIN Rules, Rules[i].word \in words,
         \A j \in 1 .. i - 1 : Rules[j].word \notin words
  PROVE  Classify(words) = Rules[i]
<1> DEFINE matching == { k \in DOMAIN Rules : Rules[k].word \in words }
<1>1. DOMAIN Rules = 1 .. 5
  BY DEF Rules
<1>2. i \in matching /\ \A j \in matching : i <= j
  BY <1>1
<1>3. \A k \in matching : (\A j \in matching : k <= j) => k = i
  BY <1>1, <1>2
<1>4. (CHOOSE k \in matching : \A j \in matching : k <= j) = i
  BY <1>2, <1>3
<1> QED
  BY <1>2, <1>4 DEF Classify

LEMMA RulesAre ==
  ASSUME NEW i \in DOMAIN Rules
  PROVE  \E rule : /\ rule = Rules[i] /\ rule.confidence \in Int
                   /\ RequiredPermission(rule) = {Needed(rule)}
                   /\ rule.action \in {"WRITE_MUTATION", "SQL_ANALYTICS", "RAG_VISION"}
<1>1. i \in 1 .. 5
  BY DEF Rules
<1>2. CASE i = 1
  <2>1. Rules[i] = Rule("cancel", "CANCEL_ORDER", "WRITE_MUTATION", 92)
    BY <1>2 DEF Rules
  <2> QED
    BY <2>1 DEF Rule, RequiredPermission, Needed
<1>3. CASE i = 2
  <2>1. Rules[i] = Rule("analytics", "ANALYTICS_QUERY", "SQL_ANALYTICS", 90)
    BY <1>3 DEF Rules
  <2> QED
    BY <2>1 DEF Rule, RequiredPermission, Needed
<1>4. CASE i = 3
  <2>1. Rules[i] = Rule("policy", "POLICY_SEARCH", "RAG_VISION", 90)
    BY <1>4 DEF Rules
  <2> QED
    BY <2>1 DEF Rule, RequiredPermission, RagPermission, Needed
<1>5. CASE i = 4
  <2>1. Rules[i] = Rule("receipt", "VISION_RECEIPT_VALIDATE", "RAG_VISION", 91)
    BY <1>5 DEF Rules
  <2> QED
    BY <2>1 DEF Rule, RequiredPermission, RagPermission, Needed
<1>6. CASE i = 5
  <2>1. Rules[i] = Rule("damage", "VISION_DAMAGE_ANALYSIS", "RAG_VISION", 91)
    BY <1>6 DEF Rules
  <2> QED
    BY <2>1 DEF Rule, RequiredPermission, RagPermission, Needed
<1> QED
  BY <1>1, <1>2, <1>3, <1>4, <1>5, <1>6

LEMMA Sentences ==
  ASSUME NEW result
  PROVE  /\ Synthesize(result) = "value" => result = "value"
         /\ Synthesize("question") = "question"
  BY DEF Synthesize, SafeFailureMessage

\* The sentence a message is answered with says what its rule and the gates made of it.
LEMMA ToldGuarded ==
  ASSUME NEW r \in Requests, NEW a, Told(r, a), setup.threshold \in Int,
         NEW i \in DOMAIN Rules, Rules[i].word \in call[r].words,
         \A j \in 1 .. i - 1 : Rules[j].word \notin call[r].words
  PROVE  LET sure == Rules[i].confidence >= setup.threshold
             permitted == Needed(Rules[i]) \in call[r].permissions
         IN  /\ ~sure => a = "question"
             /\ sure /\ ~permitted => a = "not authorized"
             /\ a = "value" => sure /\ permitted /\ ProviderFor(Rules[i].intent) \in setup.wired
<1> DEFINE rule == Rules[i]
           sure == rule.confidence >= setup.threshold
<1>1. /\ rule.confidence \in Int /\ RequiredPermission(rule) = {Needed(rule)}
      /\ rule.action \in {"WRITE_MUTATION", "SQL_ANALYTICS", "RAG_VISION"}
  BY RulesAre
<1>2. Classify(call[r].words) = rule
  BY FirstRule
<1>3. CASE ~sure
  <2>1. Parsed(r) = [rule EXCEPT !.intent = "CLARIFY", !.action = "CLARIFICATION"]
    BY <1>1, <1>2, <1>3 DEF Parsed, Parse
  <2>2. Parsed(r).action = "CLARIFICATION"
    <3>1. "action" \in DOMAIN rule
      <4>1. \A k \in 1 .. 5 : "action" \in DOMAIN Rules[k]
        BY DEF Rules, Rule
      <4> QED
        BY <4>1 DEF Rules
    <3> QED
      BY <2>1, <3>1
  <2>3. CheckPermission(call[r].permissions, Parsed(r))
    BY <2>2 DEF CheckPermission, RequiredPermission
  <2>4. PathwayResults(Parsed(r), setup.wired) = {"question"}
    BY <2>2 DEF PathwayResults, ExecuteClarification
  <2>5. a = "question"
    BY <2>3, <2>4, Sentences DEF Told
  <2> QED
    BY <1>3, <2>5
<1>4. CASE sure
  <2>1. Parsed(r) = rule
    BY <1>1, <1>2, <1>4 DEF Parsed, Parse
  <2>2. CheckPermission(call[r].permissions, Parsed(r)) <=> Needed(rule) \in call[r].permissions
    BY <1>1, <2>1 DEF CheckPermission
  <2>3. CASE Needed(rule) \notin call[r].permissions
    BY <1>4, <2>2, <2>3 DEF Told
  <2>4. CASE Needed(rule) \in call[r].permissions
    <3>1. PICK result \in PathwayResults(rule, setup.wired) : a = Synthesize(result)
      BY <2>1, <2>2, <2>4 DEF Told
    <3>2. result = "value" => rule.action = "RAG_VISION"
      BY <1>1 DEF PathwayResults, RouteWrite, RouteSql
    <3>3. result = "value" => ProviderFor(rule.intent) \in setup.wired
      BY <3>2 DEF PathwayResults, RouteRag
    <3> QED
      BY <1>4, <2>4, <3>1, <3>3, Sentences
  <2> QED
    BY <2>3, <2>4
<1> QED
  BY <1>3, <1>4

-----------------------------------------------------------------------------
(* The theorems *)

LEMMA InitIInv == Init => IInv
<1> SUFFICES ASSUME Init PROVE IInv
  OBVIOUS
<1>1. PICK mix \in Mixes :
        call = mix.calls /\ setup = [wired |-> mix.wired, threshold |-> mix.threshold]
  BY DEF Init
<1>2. call \in [Requests -> AgentRequest \cup RouteRequest] /\ setup.threshold \in Int
  BY <1>1, MixesAssumption
<1>3. /\ DOMAIN pc = Requests /\ DOMAIN reply = Requests /\ DOMAIN answer = Requests
      /\ DOMAIN records = Requests /\ DOMAIN chosen = Requests
      /\ DOMAIN draft = Requests /\ DOMAIN db = Requests /\ lost = {}
      /\ \A r \in Requests : pc[r] = "idle" /\ records[r] = <<>> /\ draft[r] = Empty /\ db[r] = Empty
  BY DEF Init
<1>4. Shapes
  BY <1>2, <1>3 DEF Shapes, Empty
<1>5. ASSUME NEW r \in Requests PROVE RequestInv(r)
  <2>1. draft[r].messages = <<>> /\ db[r].messages = <<>>
    BY <1>3 DEF Empty
  <2>2. <<>> \in Seq(ToolRecords) /\ Len(<<>>) = 0
    OBVIOUS
  <2>3. Recorded(r)
    <3>1. records[r] = <<>> /\ pc[r] = "idle"
      BY <1>3
    <3>2. records[r] \in Seq(ToolRecords) /\ Len(records[r]) = 0
      BY <2>2, <3>1
    <3>3. \A i \in 1 .. Len(records[r]) : Allowed(records[r][i], call[r].permissions)
      BY <3>2
    <3> QED
      BY <3>1, <3>2, <3>3 DEF Recorded
  <2> QED
    BY <1>3, <2>1, <2>3 DEF RequestInv, Placed, Stored, Writing, Sent
<1> QED
  BY <1>4, <1>5 DEF IInv

LEMMA NextIInv == IInv /\ [Next]_vars => IInv'
<1> SUFFICES ASSUME IInv, [Next]_vars PROVE IInv'
  OBVIOUS
<1>1. ASSUME NEW r \in Requests, Start(r), setup' = setup PROVE IInv'
  BY <1>1, StartKeeps, RouteKeeps DEF Start
<1>2. ASSUME NEW r \in Requests, Step(r), setup' = setup PROVE IInv'
  BY <1>2, AgentKeeps, PathwayKeeps DEF Step
<1>3. ASSUME NEW r \in Requests, AgentFault(r), setup' = setup PROVE IInv'
  BY <1>3, AgentKeeps
<1>4. CASE UNCHANGED vars
  <2>1. /\ call' = call /\ pc' = pc /\ reply' = reply /\ answer' = answer /\ records' = records
        /\ chosen' = chosen /\ draft' = draft /\ db' = db /\ lost' = lost /\ setup' = setup
    BY <1>4 DEF vars, agentVars
  <2>2. Shapes'
    BY <2>1 DEF IInv, Shapes
  <2>3. ASSUME NEW r \in Requests PROVE RequestInv(r)'
    <3>1. RequestInv(r)
      BY DEF IInv
    <3>2. TurnOf(r)' = TurnOf(r) /\ \A n : Opening(r, n)' = Opening(r, n)
      BY <2>1, SameTurn
    <3>3. Placed(r)' /\ Recorded(r)' /\ Stored(r)'
      BY <2>1, <3>1, <3>2 DEF RequestInv, Placed, Recorded, Stored, Writing
    <3>4. Sent(r)'
      <4>1. Parsed(r)' = Parsed(r) /\ \A a : Told(r, a)' = Told(r, a)
        BY <2>1, SameTold
      <4>2. \A a : a = reply[r] /\ Told(r, a) => Told(r, a)'
        BY <4>1
      <4>3. Told(r, reply[r]) => Told(r, reply[r])'
        BY <2>1, <4>2 DEF Told
      <4> QED
        BY <2>1, <3>1, <4>1, <4>3 DEF RequestInv, Sent
    <3> QED
      BY <3>3, <3>4 DEF RequestInv
  <2> QED
    BY <2>2, <2>3 DEF IInv
<1> QED
  BY <1>1, <1>2, <1>3, <1>4 DEF Next

LEMMA Invariance == Spec => []IInv
  BY InitIInv, NextIInv, PTL DEF Spec

\* Whatever the model writes, whatever the tools come to and wherever a request fails: a
\* turn is stored whole, in the order of its calls, or not at all, and only if it was
\* answered.
THEOREM TurnsAreWhole == Spec => []TurnWhole
<1>1. IInv => TurnWhole
  BY DEF IInv, RequestInv, Stored, TurnWhole
<1> QED
  BY <1>1, Invariance, PTL

\* Whatever the model asks for and whatever is wired: no tool and no pathway succeeds for
\* who lacks its permission, and the first rule a message matches decides its answer.
THEOREM GatesAlwaysHold == Spec => []GatesHold
<1>1. IInv => ToolsGuarded
  <2> SUFFICES ASSUME IInv, NEW r \in Requests, NEW d \in Registry, NEW i \in DOMAIN records[r],
                      records[r][i].tool = d.name, records[r][i].success
               PROVE  /\ d.permissions \subseteq call[r].permissions
                      /\ records[r][i].params = "blank" => d.required = {}
    BY DEF ToolsGuarded
  <2>1. records[r] \in Seq(ToolRecords) /\ \A k \in 1 .. Len(records[r]) : Allowed(records[r][k], call[r].permissions)
    BY DEF IInv, RequestInv, Recorded
  <2>2. Allowed(records[r][i], call[r].permissions)
    BY <2>1
  <2> QED
    BY <2>2 DEF Allowed
<1>2. IInv => RouteGuarded
  <2> SUFFICES ASSUME IInv, NEW r \in Requests, NEW i \in DOMAIN Rules,
                      call[r].op = "route", At(r, "done"), ~call[r].blank, r \notin lost,
                      Rules[i].word \in call[r].words,
                      \A j \in 1 .. i - 1 : Rules[j].word \notin call[r].words
               PROVE  LET sure == Rules[i].confidence >= setup.threshold
                          permitted == Needed(Rules[i]) \in call[r].permissions
                      IN  /\ ~sure => reply[r] = "question"
                          /\ sure /\ ~permitted => reply[r] = "not authorized"
                          /\ reply[r] = "value" =>
                               sure /\ permitted /\ ProviderFor(Rules[i].intent) \in setup.wired
    BY DEF RouteGuarded
  <2>1. Told(r, reply[r]) /\ setup.threshold \in Int
    BY DEF IInv, Shapes, RequestInv, Sent, At
  <2> QED
    BY <2>1, ToldGuarded
<1> QED
  BY <1>1, <1>2, Invariance, PTL DEF GatesHold

-----------------------------------------------------------------------------
(* Events *)

\* What is reported of an answered request, once it is over.
Reported(r) ==
  pc[r] = "done" /\ reply[r] = "200" /\ call[r].op \in {"chat", "run"} =>
    \/ db[r].events = EventsOf(r)
    \/ db[r] = Empty /\ (r \in lost \/ (spoilt[r] /\ call[r].op = "run"))

\* Until then the draft holds what the records tell, and nothing is committed.
Reporting(r) ==
  /\ pc[r] # "done" => db[r] = Empty /\ draft[r].events = EventsOf(r)
  /\ pc[r] = "rollback" => reply[r] # "200"
  /\ pc[r] = "commit" /\ call[r].op = "chat" => ~spoilt[r]
  /\ Reported(r)

EventInv == DOMAIN spoilt = Requests /\ \A r \in Requests : Reporting(r)

\* The other requests stay as they are.
Only(r) ==
  /\ call' = call /\ DOMAIN spoilt' = Requests
  /\ \A q \in Requests \ {r} :
       /\ pc'[q] = pc[q] /\ reply'[q] = reply[q] /\ records'[q] = records[q]
       /\ draft'[q] = draft[q] /\ db'[q] = db[q] /\ spoilt'[q] = spoilt[q]
       /\ q \in lost' <=> q \in lost

LEMMA SameEvents ==
  ASSUME NEW q \in Requests, records'[q] = records[q]
  PROVE  EventsOf(q)' = EventsOf(q)
  BY DEF EventsOf, EventOf

LEMMA OnlyReports ==
  ASSUME EventInv, NEW r \in Requests, Only(r), Reporting(r)'
  PROVE  EventInv'
<1>1. ASSUME NEW q \in Requests \ {r} PROVE Reporting(q)'
  <2>1. /\ call' = call /\ pc'[q] = pc[q] /\ reply'[q] = reply[q] /\ records'[q] = records[q]
        /\ draft'[q] = draft[q] /\ db'[q] = db[q] /\ spoilt'[q] = spoilt[q]
        /\ (q \in lost' <=> q \in lost)
    BY <1>1 DEF Only
  <2>2. EventsOf(q)' = EventsOf(q)
    BY <1>1, <2>1, SameEvents
  <2>3. Reporting(q)
    BY <1>1 DEF EventInv
  <2>4. Reported(q)'
    BY <2>1, <2>2, <2>3 DEF Reporting, Reported, Empty
  <2> QED
    BY <2>1, <2>2, <2>3, <2>4 DEF Reporting, Empty
<1> QED
  BY <1>1 DEF EventInv, Only

\* A request moves on: it calls no tool and does not end.
LEMMA MoveReports ==
  ASSUME IInv, EventInv, NEW r \in Requests, pc[r] # "done", NEW l, Goto(r, l), l # "done",
         UNCHANGED <<call, records, spoilt, db, lost>>,
         \A q \in Requests \ {r} : reply'[q] = reply[q] /\ draft'[q] = draft[q],
         draft'[r].events = draft[r].events,
         l = "rollback" => reply'[r] # "200",
         l = "commit" /\ call[r].op = "chat" => ~spoilt[r]
  PROVE  EventInv'
<1>1. pc'[r] = l /\ DOMAIN spoilt = Requests /\ Reporting(r)
  BY DEF Goto, IInv, Shapes, EventInv
<1>2. Only(r)
  BY <1>1 DEF Only, Goto, IInv, Shapes
<1>3. EventsOf(r)' = EventsOf(r)
  BY SameEvents
<1>4. Reporting(r)'
  BY <1>1, <1>3 DEF Reporting, Reported, Empty
<1> QED
  BY <1>2, <1>4, OnlyReports

LEMMA RefuseReports ==
  ASSUME IInv, EventInv, NEW r \in Requests, pc[r] # "done", NEW status, status # "200",
         Refuse(r, status), UNCHANGED <<call, records, stored>>
  PROVE  EventInv'
<1>1. /\ UNCHANGED <<call, records, spoilt, db, lost>> /\ draft' = draft /\ Goto(r, "rollback")
  BY DEF Refuse, stored
<1>2. reply'[r] = status /\ \A q \in Requests \ {r} : reply'[q] = reply[q]
  BY DEF Refuse, Tell, IInv, Shapes
<1> QED
  BY <1>1, <1>2, MoveReports

\* One that is over at once, or is not of the agent.
LEMMA OverReports ==
  ASSUME IInv, EventInv, NEW r \in Requests, pc[r] # "done",
         call[r].op \notin {"chat", "run"} \/ reply'[r] # "200",
         UNCHANGED <<call, records, draft, spoilt, db, lost>>, Goto(r, "done"),
         \A q \in Requests \ {r} : reply'[q] = reply[q]
  PROVE  EventInv'
<1>1. pc'[r] = "done" /\ DOMAIN spoilt = Requests
  BY DEF Goto, IInv, Shapes, EventInv
<1>2. Only(r)
  BY <1>1 DEF Only, Goto, IInv, Shapes
<1>3. Reporting(r)'
  BY <1>1 DEF Reporting, Reported
<1> QED
  BY <1>2, <1>3, OnlyReports

LEMMA StartReports ==
  ASSUME IInv, EventInv, NEW r \in Requests, Start(r)
  PROVE  EventInv'
<1>1. DOMAIN reply = Requests
  BY DEF IInv, Shapes
<1>2. ASSUME NEW op, NEW permissions, NEW l, l \in {"create", "find", "think"},
             Route(r, op, permissions, l)
      PROVE  EventInv'
  <2>1. pc[r] = "idle" /\ UNCHANGED <<call, records, draft, spoilt, db, lost>>
    BY <1>2 DEF Route, At, progress, stored
  <2>2. CASE Goto(r, l) /\ UNCHANGED reply
    BY <1>2, <2>1, <2>2, MoveReports
  <2>3. CASE Tell(r, "403") /\ Goto(r, "done")
    BY <1>1, <2>1, <2>3, OverReports DEF Tell
  <2> QED
    BY <1>2, <2>2, <2>3 DEF Route
<1>3. ASSUME ListTools(r) PROVE EventInv'
  <2>1. /\ pc[r] = "idle" /\ UNCHANGED <<call, records, draft, spoilt, db, lost>>
        /\ call[r].op = "tools" /\ Goto(r, "done")
        /\ \A q \in Requests \ {r} : reply'[q] = reply[q]
    BY <1>1, <1>3 DEF ListTools, At, Tell, progress, stored
  <2> QED
    BY <2>1, OverReports
<1>4. ASSUME RouteMessage(r) PROVE EventInv'
  <2>1. /\ pc[r] = "idle" /\ UNCHANGED <<call, records, draft, spoilt, db, lost>>
        /\ call[r].op = "route"
        /\ \A q \in Requests \ {r} : reply'[q] = reply[q]
        /\ (Goto(r, "done") \/ Goto(r, "pathway"))
    BY <1>1, <1>4 DEF RouteMessage, At, Tell, progress, stored
  <2>2. CASE Goto(r, "done")
    BY <2>1, <2>2, OverReports
  <2>3. CASE Goto(r, "pathway")
    BY <2>1, <2>3, MoveReports
  <2> QED
    BY <2>1, <2>2, <2>3
<1> QED
  BY <1>2, <1>3, <1>4
  DEF Start, AgentStart, CreateRoute, ChatRoute, HistoryRoute, RunRoute

\* A row is reported exactly with the success of a tool that writes.
LEMMA OutcomesReport ==
  ASSUME NEW c \in ToolCalls, NEW permissions, NEW bad,
         NEW outcome \in Outcomes(c, permissions, bad)
  PROVE  /\ outcome.event # "none" <=>
              outcome.success /\ c.tool \in {"audit_log", "vision_analyze"}
         /\ outcome.event # "none" => outcome.event = EventOf(c.tool)
         /\ outcome.success \in BOOLEAN
<1>1. /\ Failed.success = FALSE /\ StatementFailed.success = FALSE
      /\ Failed.event = "none" /\ StatementFailed.event = "none"
      /\ \A event : Succeeded(event).success = TRUE /\ Succeeded(event).event = event
  BY DEF Failed, StatementFailed, Succeeded
<1>2. \A results, o : o \in Query(bad, results) => o = Failed \/ o = StatementFailed \/ o \in results
  BY DEF Query
<1>3. outcome.success \in BOOLEAN
  BY OutcomesAllowed
<1> HIDE DEF Failed, StatementFailed, Succeeded
<1>4. CASE c.tool = "audit_log"
  <2>1. outcome \in AuditLog(c.params, bad)
    BY <1>4 DEF Outcomes
  <2>2. outcome \in {Failed, StatementFailed, Succeeded("audit_event")}
    BY <1>2, <2>1 DEF AuditLog
  <2>3. EventOf(c.tool) = "audit_event"
    BY <1>4 DEF EventOf
  <2> QED
    BY <1>1, <1>3, <1>4, <2>2, <2>3
<1>5. CASE c.tool = "vision_analyze"
  <2>1. outcome \in VisionAnalyze(c.params, permissions, bad)
    BY <1>5 DEF Outcomes
  <2>2. outcome \in {Failed, StatementFailed, Succeeded("vision_event")}
    BY <1>2, <2>1 DEF VisionAnalyze
  <2>3. EventOf(c.tool) = "vision_event"
    BY <1>5 DEF EventOf
  <2> QED
    BY <1>1, <1>3, <1>5, <2>2, <2>3
<1>6. CASE c.tool \notin {"audit_log", "vision_analyze"}
  <2>1. outcome \in {Failed, StatementFailed, Succeeded("none")}
    <3>1. CASE c.tool = "tenant_lookup"
      BY <1>2, <3>1 DEF Outcomes, TenantLookup
    <3>2. CASE c.tool = "rbac_check"
      BY <3>2 DEF Outcomes, RbacCheck
    <3>3. CASE c.tool = "rag_search"
      <4>1. outcome \in RagSearch(c.params, permissions, bad)
        BY <3>3 DEF Outcomes
      <4> QED
        BY <1>2, <4>1 DEF RagSearch
    <3>4. CASE c.tool = "sql_query"
      <4>1. outcome \in SqlQuery(c.params, permissions, bad)
        BY <3>4 DEF Outcomes
      <4> QED
        BY <1>2, <4>1 DEF SqlQuery
    <3>5. CASE c.tool \notin {"tenant_lookup", "rbac_check", "rag_search", "sql_query"}
      BY <1>6, <3>5 DEF Outcomes
    <3> QED
      BY <3>1, <3>2, <3>3, <3>4, <3>5
  <2> QED
    BY <1>1, <1>6, <2>1
<1> QED
  BY <1>3, <1>4, <1>5, <1>6

\* One more record tells of its own event, and of those before it as before.
LEMMA EventsGrow ==
  ASSUME NEW r \in Requests, records[r] \in Seq(ToolRecords), NEW new \in ToolRecords,
         records'[r] = Append(records[r], new)
  PROVE  EventsOf(r)' =
           EventsOf(r) \cup
             { e \in {[n |-> Len(records[r]) + 1, event |-> EventOf(new.tool)]} :
                 new.success /\ new.tool \in {"audit_log", "vision_analyze"} }
<1> DEFINE Writes(c) == c.success /\ c.tool \in {"audit_log", "vision_analyze"}
           Row(n, c) == [n |-> n, event |-> EventOf(c.tool)]
           s == records[r]
           t == records'[r]
           k == Len(s) + 1
<1>1. /\ Len(s) \in Nat /\ DOMAIN s = 1 .. Len(s) /\ DOMAIN t = 1 .. k
      /\ \A n \in 1 .. Len(s) : t[n] = s[n]
      /\ t[k] = new
  OBVIOUS
<1>2. /\ EventsOf(r) = { Row(n, s[n]) : n \in { n \in DOMAIN s : Writes(s[n]) } }
      /\ EventsOf(r)' = { Row(n, t[n]) : n \in { n \in DOMAIN t : Writes(t[n]) } }
  BY DEF EventsOf, EventOf
<1> HIDE DEF Writes, Row, s, t, k
<1>3. ASSUME NEW e
      PROVE  e \in EventsOf(r)' <=>
               e \in EventsOf(r) \/ (e = Row(k, new) /\ Writes(new))
  <2>1. /\ e \in EventsOf(r) <=> \E n \in DOMAIN s : Writes(s[n]) /\ e = Row(n, s[n])
        /\ e \in EventsOf(r)' <=> \E n \in DOMAIN t : Writes(t[n]) /\ e = Row(n, t[n])
    BY <1>2
  <2>2. \A n : n \in DOMAIN t <=> n \in DOMAIN s \/ n = k
    BY <1>1 DEF k
  <2>3. \A n \in DOMAIN s : t[n] = s[n]
    BY <1>1
  <2> QED
    BY <1>1, <2>1, <2>2, <2>3
<1>4. EventsOf(r)' = EventsOf(r) \cup { e \in {Row(k, new)} : Writes(new) }
  BY <1>3
<1> QED
  BY <1>4 DEF Writes, Row, k, s

LEMMA CallToolReports ==
  ASSUME IInv, EventInv, NEW r \in Requests, CallTool(r)
  PROVE  EventInv'
<1>1. PICK outcome \in Outcomes(chosen[r], call[r].permissions, spoilt[r]) :
        /\ Record(r, outcome)
        /\ spoilt' = [spoilt EXCEPT ![r] = @ \/ outcome.spoils]
        /\ draft' = IF outcome.event = "none" THEN draft
                    ELSE [draft EXCEPT ![r].events = @ \cup {Event(r, outcome)}]
  BY DEF CallTool
<1>2. /\ pc[r] = "act" /\ Goto(r, "think") /\ UNCHANGED <<call, reply, db, lost>>
  BY DEF CallTool, At
<1>3. /\ DOMAIN pc = Requests /\ DOMAIN draft = Requests /\ DOMAIN records = Requests
      /\ DOMAIN draft[r] = {"session", "messages", "events"}
      /\ chosen[r] \in ToolCalls /\ records[r] \in Seq(ToolRecords)
  BY <1>2 DEF IInv, Shapes, RequestInv, Recorded
<1>4. DOMAIN spoilt = Requests /\ db[r] = Empty /\ draft[r].events = EventsOf(r)
  BY <1>2 DEF EventInv, Reporting
<1> DEFINE new == ToolCallRecord(r, outcome.success)
<1>5. /\ new \in ToolRecords /\ new.tool = chosen[r].tool /\ new.success = outcome.success
  BY <1>3, OutcomesAllowed DEF ToolCallRecord, ToolRecords, ToolCalls
<1>6. records' = [records EXCEPT ![r] = Append(records[r], new)]
  BY <1>1 DEF Record
<1> HIDE DEF new
<1>7. records'[r] = Append(records[r], new) /\ \A q \in Requests \ {r} : records'[q] = records[q]
  BY <1>3, <1>6
<1>8. /\ outcome.event # "none" <=>
           outcome.success /\ chosen[r].tool \in {"audit_log", "vision_analyze"}
      /\ outcome.event # "none" => outcome.event = EventOf(chosen[r].tool)
  BY <1>3, OutcomesReport
<1>9. EventsOf(r)' =
        EventsOf(r) \cup
          { e \in {[n |-> Len(records[r]) + 1, event |-> EventOf(new.tool)]} :
              new.success /\ new.tool \in {"audit_log", "vision_analyze"} }
  BY <1>3, <1>5, <1>7, EventsGrow
<1>10. draft'[r].events = EventsOf(r)'
  <2>1. CASE outcome.event = "none"
    BY <1>1, <1>4, <1>5, <1>8, <1>9, <2>1
  <2>2. CASE outcome.event # "none"
    <3>1. draft'[r].events = EventsOf(r) \cup {Event(r, outcome)}
      BY <1>1, <1>3, <1>4, <2>2
    <3>2. Event(r, outcome) = [n |-> Len(records[r]) + 1, event |-> EventOf(new.tool)]
      BY <1>5, <1>8, <2>2 DEF Event
    <3> QED
      BY <1>5, <1>8, <1>9, <2>2, <3>1, <3>2
  <2> QED
    BY <2>1, <2>2
<1>11. pc'[r] = "think" /\ db' = db
  BY <1>2, <1>3 DEF Goto
<1>12. Only(r)
  <2>1. \A q \in Requests \ {r} : draft'[q] = draft[q]
    BY <1>1, <1>3
  <2>2. DOMAIN spoilt' = Requests /\ \A q \in Requests \ {r} : spoilt'[q] = spoilt[q]
    BY <1>1, <1>4
  <2>3. \A q \in Requests \ {r} : pc'[q] = pc[q]
    BY <1>2, <1>3 DEF Goto
  <2> QED
    BY <1>2, <1>7, <2>1, <2>2, <2>3 DEF Only
<1>13. Reporting(r)'
  BY <1>4, <1>10, <1>11 DEF Reporting, Reported, Empty
<1> QED
  BY <1>12, <1>13, OnlyReports

LEMMA StepReports ==
  ASSUME IInv, EventInv, NEW r \in Requests, Step(r) \/ AgentFault(r),
         ~CallTool(r), ~Commit(r), ~CommitFails(r), ~Rollback(r), ~ProcessDies(r)
  PROVE  EventInv'
<1>1. /\ DOMAIN pc = Requests /\ DOMAIN reply = Requests /\ DOMAIN draft = Requests
      /\ DOMAIN draft[r] = {"session", "messages", "events"} /\ Placed(r)
  BY DEF IInv, Shapes, RequestInv
<1>2. ASSUME CreateSession(r) PROVE EventInv'
  <2>1. /\ pc[r] = "create" /\ UNCHANGED <<call, records, spoilt, db, lost>> /\ Goto(r, "commit")
        /\ call[r].op = "create" /\ draft'[r].events = draft[r].events
        /\ \A q \in Requests \ {r} : reply'[q] = reply[q] /\ draft'[q] = draft[q]
    BY <1>1, <1>2 DEF CreateSession, At, progress, Succeed, Tell, Placed
  <2> QED
    BY <2>1, MoveReports
<1>3. ASSUME GetSession(r) PROVE EventInv'
  <2>1. /\ pc[r] = "find" /\ UNCHANGED <<call, records, spoilt, db, lost>> /\ draft' = draft
    BY <1>3 DEF GetSession, At, progress
  <2>2. CASE Refuse(r, "404")
    <3>1. /\ Goto(r, "rollback") /\ reply'[r] = "404"
          /\ \A q \in Requests \ {r} : reply'[q] = reply[q]
      BY <1>1, <2>2 DEF Refuse, Tell
    <3> QED
      BY <2>1, <3>1, MoveReports
  <2>3. CASE Goto(r, "ask") /\ UNCHANGED reply
    BY <2>1, <2>3, MoveReports
  <2>4. CASE Goto(r, "read") /\ UNCHANGED reply
    BY <2>1, <2>4, MoveReports
  <2> QED
    BY <1>3, <2>2, <2>3, <2>4 DEF GetSession
<1>4. ASSUME ReadHistory(r) PROVE EventInv'
  <2>1. /\ pc[r] = "read" /\ call[r].op = "history" /\ Goto(r, "commit")
        /\ UNCHANGED <<call, records, spoilt, db, lost>> /\ draft' = draft
        /\ \A q \in Requests \ {r} : reply'[q] = reply[q]
    BY <1>1, <1>4 DEF ReadHistory, At, progress, stored, Succeed, Tell, Placed
  <2> QED
    BY <2>1, MoveReports
<1>5. ASSUME AddQuestion(r) PROVE EventInv'
  <2>1. /\ pc[r] = "ask" /\ Goto(r, "recall") /\ UNCHANGED <<call, records, spoilt, db, lost>>
        /\ reply' = reply /\ draft'[r].events = draft[r].events
        /\ \A q \in Requests \ {r} : draft'[q] = draft[q]
    BY <1>1, <1>5 DEF AddQuestion, AddMessage, At, progress
  <2> QED
    BY <2>1, MoveReports
<1>6. ASSUME Recall(r) PROVE EventInv'
  <2>1. /\ pc[r] = "recall" /\ Goto(r, "think") /\ UNCHANGED <<call, records, spoilt, db, lost>>
        /\ reply' = reply /\ draft' = draft
    BY <1>6 DEF Recall, At, progress, stored
  <2> QED
    BY <2>1, MoveReports
<1>7. ASSUME NEW words, Conclude(r, words), pc[r] = "think",
             UNCHANGED <<call, records, draft, spoilt, db, lost>>
      PROVE  EventInv'
  <2>1. CASE call[r].op = "chat"
    <3>1. Goto(r, "store") /\ reply' = reply
      BY <1>7, <2>1 DEF Conclude
    <3> QED
      BY <1>7, <3>1, MoveReports
  <2>2. CASE call[r].op # "chat"
    <3>1. Goto(r, "commit") /\ \A q \in Requests \ {r} : reply'[q] = reply[q]
      BY <1>1, <1>7, <2>2 DEF Conclude, Succeed, Tell
    <3> QED
      BY <1>7, <2>2, <3>1, MoveReports
  <2> QED
    BY <2>1, <2>2
<1>8. ASSUME Think(r) PROVE EventInv'
  <2>1. pc[r] = "think" /\ UNCHANGED <<call, records, draft, spoilt, db, lost>>
    BY <1>8 DEF Think, At, stored
  <2>2. PICK text \in Repertoire[call[r].model] :
          IF IsCall(text)
          THEN /\ chosen' = [chosen EXCEPT ![r] = text.call]
               /\ Goto(r, "act")
               /\ UNCHANGED <<reply, answer, iteration>>
          ELSE /\ iteration' = [iteration EXCEPT ![r] = @ + 1]
               /\ Conclude(r, FinalAnswer(text))
               /\ UNCHANGED chosen
    BY <1>8 DEF Think
  <2>3. CASE IsCall(text)
    BY <2>1, <2>2, <2>3, MoveReports
  <2>4. CASE ~IsCall(text)
    BY <1>7, <2>1, <2>2, <2>4
  <2> QED
    BY <2>3, <2>4
<1>9. ASSUME ForceAnswer(r) PROVE EventInv'
  BY <1>7, <1>9 DEF ForceAnswer, At, stored
<1>10. ASSUME ModelUnavailable(r) PROVE EventInv'
  BY <1>7, <1>10 DEF ModelUnavailable, At, stored
<1>11. ASSUME ModelBreaks(r) PROVE EventInv'
  BY <1>11, RefuseReports DEF ModelBreaks, At, progress
<1>12. ASSUME StatementFails(r) PROVE EventInv'
  BY <1>12, RefuseReports DEF StatementFails, progress
<1>13. ASSUME StoreRefused(r) PROVE EventInv'
  BY <1>13, RefuseReports DEF StoreRefused, At, progress
<1>14. ASSUME StoreTurn(r) PROVE EventInv'
  <2>1. /\ pc[r] = "store" /\ ~spoilt[r] /\ UNCHANGED <<call, records, spoilt, db, lost>>
    BY <1>14 DEF StoreTurn, At, progress
  <2>2. ASSUME NEW message, AddMessage(r, message)
        PROVE  /\ draft'[r].events = draft[r].events
               /\ \A q \in Requests \ {r} : draft'[q] = draft[q]
    BY <1>1, <2>2 DEF AddMessage
  <2>3. CASE Unstored(r) # <<>>
    <3>1. /\ pc' = pc /\ reply' = reply /\ AddMessage(r, ToolMessage(r, Head(Unstored(r))))
      BY <1>14, <2>3 DEF StoreTurn
    <3>2. draft'[r].events = draft[r].events /\ \A q \in Requests \ {r} : draft'[q] = draft[q]
      BY <2>2, <3>1
    <3>3. DOMAIN spoilt = Requests /\ Reporting(r) /\ EventsOf(r)' = EventsOf(r)
      BY <2>1, SameEvents DEF EventInv
    <3>4. Only(r)
      BY <2>1, <3>1, <3>2, <3>3 DEF Only
    <3>5. Reporting(r)'
      BY <2>1, <3>1, <3>2, <3>3 DEF Reporting, Reported, Empty
    <3> QED
      BY <3>4, <3>5, OnlyReports
  <2>4. CASE Unstored(r) = <<>>
    <3>1. AddMessage(r, Reply(r)) /\ Succeed(r, "200")
      BY <1>14, <2>4 DEF StoreTurn
    <3>2. Goto(r, "commit") /\ \A q \in Requests \ {r} : reply'[q] = reply[q]
      BY <1>1, <3>1 DEF Succeed, Tell
    <3> QED
      BY <2>1, <2>2, <3>1, <3>2, MoveReports
  <2> QED
    BY <2>3, <2>4
<1>15. ASSUME PathwayAnswers(r) PROVE EventInv'
  <2>1. /\ pc[r] = "pathway" /\ call[r].op = "route" /\ Goto(r, "done")
        /\ UNCHANGED <<call, records, draft, spoilt, db, lost>>
        /\ \A q \in Requests \ {r} : reply'[q] = reply[q]
    BY <1>1, <1>15 DEF PathwayAnswers, At, progress, stored, Tell, Placed
  <2> QED
    BY <2>1, OverReports
<1> QED
  BY <1>2, <1>3, <1>4, <1>5, <1>6, <1>8, <1>9, <1>10, <1>11, <1>12, <1>13, <1>14, <1>15
  DEF Step, AgentStep, AgentFault

\* COMMIT stores the draft of a sound transaction; of a spoilt one, nothing.
LEMMA EndReports ==
  ASSUME IInv, EventInv, NEW r \in Requests,
         Commit(r) \/ CommitFails(r) \/ Rollback(r) \/ ProcessDies(r)
  PROVE  EventInv'
<1>1. /\ pc[r] # "done" /\ Close(r) /\ Reporting(r) /\ DOMAIN spoilt = Requests
      /\ DOMAIN pc = Requests /\ DOMAIN draft = Requests
  BY DEF Commit, CommitFails, Rollback, ProcessDies, At, InFlight, Waiting, EventInv, IInv, Shapes
<1>2. /\ draft' = [draft EXCEPT ![r] = Empty] /\ Goto(r, "done")
      /\ call' = call /\ reply' = reply /\ records' = records /\ spoilt' = spoilt
  BY <1>1 DEF Close, progress
<1>3. DOMAIN db = Requests
  BY DEF IInv, Shapes
<1>4. \A q \in Requests \ {r} : db'[q] = db[q] /\ (q \in lost' <=> q \in lost)
  BY <1>3 DEF Commit, CommitFails, Rollback, ProcessDies
<1>5. Only(r)
  BY <1>1, <1>2, <1>4 DEF Only, Goto
<1>6. pc'[r] = "done" /\ EventsOf(r)' = EventsOf(r) /\ db[r] = Empty
  BY <1>1, <1>2, SameEvents DEF Goto, Reporting
<1>7. Reported(r)'
  <2>1. CASE Commit(r)
    <3>1. pc[r] = "commit" /\ draft[r].events = EventsOf(r)
      BY <1>1, <2>1 DEF Commit, At, Reporting
    <3>2. CASE spoilt[r]
      <4>1. call[r].op # "chat" /\ db' = db
        BY <1>1, <2>1, <3>1, <3>2 DEF Commit, Reporting
      <4> QED
        BY <1>2, <1>6, <3>2, <4>1 DEF Reported, Empty
    <3>3. CASE ~spoilt[r]
      <4>1. db'[r] = draft[r]
        BY <1>3, <2>1, <3>3 DEF Commit
      <4> QED
        BY <1>6, <3>1, <4>1 DEF Reported
    <3> QED
      BY <3>2, <3>3
  <2>2. CASE CommitFails(r) \/ ProcessDies(r)
    <3>1. r \in lost' /\ db' = db
      BY <2>2 DEF CommitFails, ProcessDies
    <3> QED
      BY <1>6, <3>1 DEF Reported, Empty
  <2>3. CASE Rollback(r)
    <3>1. reply'[r] # "200"
      BY <1>1, <1>2, <2>3 DEF Rollback, At, Reporting
    <3> QED
      BY <3>1 DEF Reported
  <2> QED
    BY <2>1, <2>2, <2>3
<1>8. Reporting(r)'
  BY <1>6, <1>7 DEF Reporting
<1> QED
  BY <1>5, <1>8, OnlyReports

LEMMA InitEvents == Init => EventInv
<1> SUFFICES ASSUME Init PROVE EventInv
  OBVIOUS
<1>1. DOMAIN spoilt = Requests
  BY DEF Init
<1>2. ASSUME NEW r \in Requests PROVE Reporting(r)
  <2>1. pc[r] = "idle" /\ records[r] = <<>> /\ draft[r] = Empty /\ db[r] = Empty
    BY <1>2 DEF Init
  <2>2. EventsOf(r) = {}
    BY <2>1 DEF EventsOf
  <2> QED
    BY <2>1, <2>2 DEF Reporting, Reported, Empty
<1> QED
  BY <1>1, <1>2 DEF EventInv

LEMMA NextEvents == IInv /\ EventInv /\ [Next]_vars => EventInv'
<1> SUFFICES ASSUME IInv, EventInv, [Next]_vars PROVE EventInv'
  OBVIOUS
<1>1. ASSUME NEW r \in Requests, Start(r) \/ Step(r) \/ AgentFault(r) PROVE EventInv'
  BY <1>1, StartReports, CallToolReports, EndReports, StepReports
<1>2. CASE UNCHANGED vars
  <2>1. /\ call' = call /\ pc' = pc /\ reply' = reply /\ records' = records
        /\ draft' = draft /\ db' = db /\ lost' = lost /\ spoilt' = spoilt
    BY <1>2 DEF vars, agentVars
  <2>2. ASSUME NEW r \in Requests PROVE Reporting(r)'
    <3>1. EventsOf(r)' = EventsOf(r) /\ Reporting(r)
      BY <2>1, <2>2, SameEvents DEF EventInv
    <3>2. Reported(r)'
      BY <2>1, <3>1 DEF Reporting, Reported, Empty
    <3> QED
      BY <2>1, <3>1, <3>2 DEF Reporting, Empty
  <2> QED
    BY <2>1, <2>2 DEF EventInv
<1> QED
  BY <1>1, <1>2 DEF Next

\* Whatever the tools come to and wherever a request fails: an answered turn has stored
\* exactly the events that its tools have reported, or none, if its commit did not happen
\* or, outside a session, a later tool has spoilt its transaction.
THEOREM EventsReported == Spec => []EventsAsReported
<1>1. EventInv => EventsAsReported
  BY DEF EventInv, Reporting, Reported, EventsAsReported, At
<1>2. Spec => []EventInv
  BY InitEvents, NextEvents, Invariance, PTL DEF Spec
<1> QED
  BY <1>1, <1>2, PTL

-----------------------------------------------------------------------------
(* Lists of blocks *)

\* Induction over the natural numbers, for a set instead of a predicate.
LEMMA SetInduction ==
  ASSUME NEW T, T \subseteq Nat, 0 \in T, \A n \in T : n + 1 \in T
  PROVE  T = Nat
<1> DEFINE R == { p \in Nat \X Nat : p[1] < p[2] }
           U == Nat \ T
<1>1. IsWellFoundedOn(R, Nat)
  BY NatLessThanWellFounded DEF OpToRel
<1>2. ASSUME U # {} PROVE FALSE
  <2>1. U \subseteq Nat
    OBVIOUS
  <2> HIDE DEF R, U
  <2>2. PICK x \in U : \A y \in U : ~(<<y, x>> \in R)
    BY <1>1, <1>2, <2>1, WFMin
  <2> USE DEF R, U
  <2>3. x # 0 /\ x \in Nat
    OBVIOUS
  <2>4. x - 1 \in Nat /\ x - 1 < x
    BY <2>3
  <2>5. x - 1 \in T
    BY <2>2, <2>3, <2>4
  <2>6. (x - 1) + 1 \in T
    BY <2>5
  <2> QED
    BY <2>3, <2>6
<1> QED
  BY <1>2

\* The lists of the first k blocks, for each k up to n.
IsLists(f, blocks, n) ==
  f = [k \in 0 .. n |-> IF k = 0 THEN {<<>>} ELSE Extend(f[k - 1], blocks[k])]

LEMMA ListsExist ==
  ASSUME NEW blocks, NEW n \in Nat
  PROVE  \E f : IsLists(f, blocks, n)
<1> DEFINE T == { m \in Nat : \E f : IsLists(f, blocks, m) }
<1>1. 0 \in T
  <2>1. IsLists([k \in 0 .. 0 |-> {<<>>}], blocks, 0)
    BY DEF IsLists
  <2> QED
    BY <2>1
<1>2. ASSUME NEW m \in T PROVE m + 1 \in T
  <2>1. PICK f : IsLists(f, blocks, m)
    OBVIOUS
  <2> DEFINE g == [k \in 0 .. m + 1 |-> IF k <= m THEN f[k] ELSE Extend(f[m], blocks[m + 1])]
  <2>2. m \in Nat /\ m + 1 \in Nat
    OBVIOUS
  <2>3. g = [k \in 0 .. m + 1 |-> IF k = 0 THEN {<<>>} ELSE Extend(g[k - 1], blocks[k])]
    <3> SUFFICES ASSUME NEW k \in 0 .. m + 1
                 PROVE  g[k] = IF k = 0 THEN {<<>>} ELSE Extend(g[k - 1], blocks[k])
      OBVIOUS
    <3>1. CASE k \in 0 .. m
      <4>1. g[k] = f[k] /\ (k # 0 => g[k - 1] = f[k - 1])
        BY <2>2, <3>1
      <4>2. f[k] = IF k = 0 THEN {<<>>} ELSE Extend(f[k - 1], blocks[k])
        BY <2>1, <3>1 DEF IsLists
      <4> QED
        BY <4>1, <4>2
    <3>2. CASE k = m + 1
      <4>1. g[k] = Extend(f[m], blocks[m + 1]) /\ g[k - 1] = f[m]
        BY <2>2, <3>2
      <4> QED
        BY <2>2, <3>2, <4>1
    <3> QED
      BY <2>2, <3>1, <3>2
  <2>4. IsLists(g, blocks, m + 1)
    BY <2>3 DEF IsLists
  <2> QED
    BY <2>2, <2>4
<1>3. T = Nat
  <2>1. T \subseteq Nat
    OBVIOUS
  <2> HIDE DEF T
  <2> QED
    BY <1>1, <1>2, <2>1, SetInduction
<1> QED
  BY <1>3

LEMMA ConcatenationsAre ==
  ASSUME NEW blocks, Len(blocks) \in Nat
  PROVE  \E f : IsLists(f, blocks, Len(blocks)) /\ Concatenations(blocks) = f[Len(blocks)]
<1> DEFINE f == CHOOSE g :
             g = [k \in 0 .. Len(blocks) |-> IF k = 0 THEN {<<>>} ELSE Extend(g[k - 1], blocks[k])]
<1>1. Concatenations(blocks) = f[Len(blocks)]
  BY DEF Concatenations
<1>2. \E g : g = [k \in 0 .. Len(blocks) |-> IF k = 0 THEN {<<>>} ELSE Extend(g[k - 1], blocks[k])]
  BY ListsExist DEF IsLists
<1>3. IsLists(f, blocks, Len(blocks))
  BY <1>2 DEF IsLists
<1> HIDE DEF f
<1> QED
  BY <1>1, <1>3

LEMMA Extended ==
  ASSUME NEW lists, NEW block, NEW s \in Extend(lists, block)
  PROVE  \E l \in lists : \E o \in block : s = l \o o
  BY DEF Extend

LEMMA Appended ==
  ASSUME NEW M, NEW l \in Seq(M), NEW o \in Seq(M)
  PROVE  /\ l \o o \in Seq(M) /\ Len(l) \in Nat /\ Len(o) \in Nat /\ Len(l \o o) = Len(l) + Len(o)
         /\ \A i \in 1 .. Len(l) : (l \o o)[i] = l[i]
         /\ \A i \in 1 .. Len(o) : (l \o o)[Len(l) + i] = o[i]
  OBVIOUS

Among(m, s) == \E j \in 1 .. Len(s) : m = s[j]

\* An order of s has its length and its members.
LEMMA OrderIs ==
  ASSUME NEW M, NEW s \in Seq(M), NEW o \in Orders(s)
  PROVE  o \in Seq(M) /\ Len(o) = Len(s) /\ \A i \in 1 .. Len(o) : Among(o[i], s)
<1>1. DOMAIN s = 1 .. Len(s) /\ Len(s) \in Nat
  OBVIOUS
<1>2. PICK p \in Bijection(DOMAIN s, DOMAIN s) : o = [i \in DOMAIN s |-> s[p[i]]]
  BY DEF Orders
<1>3. p \in [1 .. Len(s) -> 1 .. Len(s)]
  BY <1>1 DEF Bijection, Injection
<1>4. o = [i \in 1 .. Len(s) |-> s[p[i]]] /\ \A i \in 1 .. Len(s) : p[i] \in 1 .. Len(s) /\ s[p[i]] \in M
  BY <1>1, <1>2, <1>3
<1>5. o \in Seq(M) /\ Len(o) = Len(s)
  BY <1>1, <1>4
<1> QED
  BY <1>4, <1>5 DEF Among

\* What is so of every list of the first k blocks: its messages come block by block, and
\* each block side by side.
Ordered(l, parts, k) ==
  /\ \A i \in 1 .. Len(l) : \E a \in 1 .. k : Among(l[i], parts[a])
  /\ \A i, j \in 1 .. Len(l), a, b \in 1 .. k :
       i <= j /\ Among(l[i], parts[a]) /\ Among(l[j], parts[b]) => a <= b
  /\ \A a \in 1 .. k : \E o \in Nat :
       /\ o + Len(parts[a]) <= Len(l)
       /\ SubSeq(l, o + 1, o + Len(parts[a])) \in Orders(parts[a])
       /\ \A i \in 1 .. Len(l) : Among(l[i], parts[a]) => i \in o + 1 .. o + Len(parts[a])

LEMMA ExtendOrdered ==
  ASSUME NEW M, NEW N \in Nat, NEW parts \in [1 .. N -> Seq(M)],
         \A a, b \in 1 .. N : \A m : Among(m, parts[a]) /\ Among(m, parts[b]) => a = b,
         NEW k \in Nat, k + 1 \in 1 .. N,
         NEW l \in Seq(M), Ordered(l, parts, k), NEW o \in Orders(parts[k + 1])
  PROVE  l \o o \in Seq(M) /\ Ordered(l \o o, parts, k + 1)
<1> DEFINE s == l \o o
           L == Len(l)
           K == Len(o)
<1>1. /\ parts[k + 1] \in Seq(M) /\ o \in Seq(M) /\ K = Len(parts[k + 1])
      /\ \A i \in 1 .. K : Among(o[i], parts[k + 1])
  BY OrderIs
<1>2. /\ s \in Seq(M) /\ L \in Nat /\ K \in Nat /\ Len(s) = L + K
      /\ \A i \in 1 .. L : s[i] = l[i]
      /\ \A i \in 1 .. K : s[L + i] = o[i]
  <2>1. l \in Seq(M) /\ o \in Seq(M)
    BY <1>1
  <2> HIDE DEF s, L, K
  <2>2. /\ l \o o \in Seq(M) /\ Len(l) \in Nat /\ Len(o) \in Nat /\ Len(l \o o) = Len(l) + Len(o)
        /\ \A i \in 1 .. Len(l) : (l \o o)[i] = l[i]
        /\ \A i \in 1 .. Len(o) : (l \o o)[Len(l) + i] = o[i]
    BY ONLY <2>1, Appended
  <2> QED
    BY <2>2 DEF s, L, K
<1> HIDE DEF s, L, K
<1>3. \A i \in 1 .. L + K : i \in 1 .. L \/ (i > L /\ i - L \in 1 .. K /\ i = L + (i - L))
  <2>1. L \in Nat /\ K \in Nat
    BY <1>2
  <2> QED
    BY <2>1
\* What stands before the end of l is of an earlier block, what comes after it is not.
<1>4. ASSUME NEW i \in 1 .. L + K, NEW a \in 1 .. k + 1, Among(s[i], parts[a])
      PROVE  (i \in 1 .. L <=> a \in 1 .. k) /\ (i > L <=> a = k + 1)
  <2>1. CASE i \in 1 .. L
    <3>1. PICK b \in 1 .. k : Among(l[i], parts[b])
      BY <2>1 DEF Ordered, L
    <3>2. a \in 1 .. N /\ b \in 1 .. N
      OBVIOUS
    <3>3. a = b
      BY <1>2, <1>4, <2>1, <3>1, <3>2
    <3> QED
      BY <1>2, <2>1, <3>1, <3>3
  <2>2. CASE i > L
    <3>0. i \in 1 .. L + K /\ ~(i \in 1 .. L)
      BY <1>2, <2>2
    <3>1. i - L \in 1 .. K /\ s[i] = o[i - L]
      BY <1>2, <1>3, <3>0
    <3>2. Among(s[i], parts[k + 1])
      BY <1>1, <3>1 DEF K
    <3>3. a = k + 1
      BY <1>4, <3>2
    <3> QED
      BY <1>2, <2>2, <3>3
  <2> QED
    BY <1>2, <2>1, <2>2
<1>5. ASSUME NEW i \in 1 .. Len(s) PROVE \E a \in 1 .. k + 1 : Among(s[i], parts[a])
  <2>1. CASE i \in 1 .. L
    <3>1. PICK b \in 1 .. k : Among(l[i], parts[b])
      BY <2>1 DEF Ordered, L
    <3> QED
      BY <1>2, <2>1, <3>1
  <2>2. CASE i > L
    <3>0. i \in 1 .. L + K /\ ~(i \in 1 .. L)
      BY <1>2, <2>2
    <3>1. i - L \in 1 .. K /\ s[i] = o[i - L]
      BY <1>2, <1>3, <3>0
    <3>2. Among(s[i], parts[k + 1])
      BY <1>1, <3>1 DEF K
    <3> QED
      BY <3>2
  <2> QED
    BY <1>2, <1>3, <2>1, <2>2
<1>6. ASSUME NEW i \in 1 .. Len(s), NEW j \in 1 .. Len(s), NEW a \in 1 .. k + 1, NEW b \in 1 .. k + 1,
             i <= j, Among(s[i], parts[a]), Among(s[j], parts[b])
      PROVE  a <= b
  <2>1. i \in 1 .. L + K /\ j \in 1 .. L + K
    BY <1>2
  <2>2. CASE b = k + 1
    BY <2>2
  <2>3. CASE b \in 1 .. k
    <3>1. j \in 1 .. L
      BY <1>4, <1>6, <2>1, <2>3
    <3>2. i \in 1 .. L
      BY <1>2, <1>6, <3>1
    <3>3. a \in 1 .. k
      BY <1>4, <1>6, <2>1, <3>2
    <3>4. Among(l[i], parts[a]) /\ Among(l[j], parts[b])
      BY <1>2, <1>6, <3>1, <3>2
    <3> QED
      BY <1>6, <2>3, <3>1, <3>2, <3>3, <3>4 DEF Ordered, L
  <2> QED
    BY <2>2, <2>3
<1>7. ASSUME NEW a \in 1 .. k + 1
      PROVE  \E p \in Nat :
               /\ p + Len(parts[a]) <= Len(s)
               /\ SubSeq(s, p + 1, p + Len(parts[a])) \in Orders(parts[a])
               /\ \A i \in 1 .. Len(s) : Among(s[i], parts[a]) => i \in p + 1 .. p + Len(parts[a])
  <2>1. CASE a \in 1 .. k
    <3>1. PICK p \in Nat :
            /\ p + Len(parts[a]) <= L
            /\ SubSeq(l, p + 1, p + Len(parts[a])) \in Orders(parts[a])
            /\ \A i \in 1 .. L : Among(l[i], parts[a]) => i \in p + 1 .. p + Len(parts[a])
      BY <2>1 DEF Ordered, L
    <3>2. parts[a] \in Seq(M) /\ Len(parts[a]) \in Nat
      BY <2>1
    <3>3. SubSeq(s, p + 1, p + Len(parts[a])) = SubSeq(l, p + 1, p + Len(parts[a]))
      BY <1>2, <3>1, <3>2
    <3>4. p + Len(parts[a]) <= Len(s)
      BY <1>2, <3>1, <3>2
    <3>5. ASSUME NEW i \in 1 .. Len(s), Among(s[i], parts[a])
          PROVE  i \in p + 1 .. p + Len(parts[a])
      <4>1. i \in 1 .. L
        BY <1>2, <1>4, <2>1, <3>5
      <4> QED
        BY <1>2, <3>1, <3>5, <4>1
    <3> QED
      BY <3>1, <3>3, <3>4, <3>5
  <2>2. CASE a = k + 1
    <3>1. L + Len(parts[a]) <= Len(s)
      BY <1>1, <1>2, <2>2 DEF K
    <3>2. SubSeq(s, L + 1, L + Len(parts[a])) = o
      BY <1>1, <1>2, <2>2 DEF K
    <3>3. ASSUME NEW i \in 1 .. Len(s), Among(s[i], parts[a])
          PROVE  i \in L + 1 .. L + Len(parts[a])
      <4>1. i > L
        BY <1>2, <1>4, <2>2, <3>3
      <4> QED
        BY <1>1, <1>2, <2>2, <4>1 DEF K
    <3> QED
      BY <1>2, <2>2, <3>1, <3>2, <3>3
  <2> QED
    BY <2>1, <2>2
<1>8. Ordered(s, parts, k + 1)
  BY <1>5, <1>6, <1>7 DEF Ordered
<1> QED
  BY <1>2, <1>8 DEF s

LEMMA AllExtendOrdered ==
  ASSUME NEW M, NEW N \in Nat, NEW parts \in [1 .. N -> Seq(M)],
         \A a, b \in 1 .. N : \A m : Among(m, parts[a]) /\ Among(m, parts[b]) => a = b,
         NEW k \in Nat, k + 1 \in 1 .. N,
         NEW lists, \A l \in lists : l \in Seq(M) /\ Ordered(l, parts, k),
         NEW block, block = Orders(parts[k + 1]), NEW s \in Extend(lists, block)
  PROVE  s \in Seq(M) /\ Ordered(s, parts, k + 1)
<1>1. PICK l \in lists, o \in block : s = l \o o
  BY ONLY s \in Extend(lists, block), Extended
<1> QED
  BY <1>1, ExtendOrdered

LEMMA ConcatenationsOrdered ==
  ASSUME NEW M, NEW N \in Nat, NEW parts \in [1 .. N -> Seq(M)],
         \A a, b \in 1 .. N : \A m : Among(m, parts[a]) /\ Among(m, parts[b]) => a = b,
         NEW l \in Concatenations([a \in 1 .. N |-> Orders(parts[a])])
  PROVE  l \in Seq(M) /\ Ordered(l, parts, N)
<1> DEFINE blocks == [a \in 1 .. N |-> Orders(parts[a])]
<1>1. Len(blocks) = N
  OBVIOUS
<1>2. \A a \in 1 .. N : blocks[a] = Orders(parts[a])
  OBVIOUS
<1>3. l \in Concatenations(blocks)
  OBVIOUS
<1> HIDE DEF blocks
<1>4. PICK f : IsLists(f, blocks, N) /\ Concatenations(blocks) = f[N]
  BY <1>1, ConcatenationsAre
<1>5. f[0] = {<<>>} /\ \A k \in 1 .. N : f[k] = Extend(f[k - 1], blocks[k])
  <2>1. f = [k \in 0 .. N |-> IF k = 0 THEN {<<>>} ELSE Extend(f[k - 1], blocks[k])]
    BY <1>4 DEF IsLists
  <2>2. \A k \in 0 .. N : f[k] = IF k = 0 THEN {<<>>} ELSE Extend(f[k - 1], blocks[k])
    BY <2>1
  <2>3. 0 \in 0 .. N /\ \A k \in 1 .. N : k \in 0 .. N /\ k # 0
    OBVIOUS
  <2> QED
    BY <2>2, <2>3
<1> DEFINE T == { k \in Nat : k <= N => \A s \in f[k] : s \in Seq(M) /\ Ordered(s, parts, k) }
<1>6. 0 \in T
  <2>1. <<>> \in Seq(M) /\ Len(<<>>) = 0
    OBVIOUS
  <2>2. Ordered(<<>>, parts, 0)
    BY <2>1 DEF Ordered
  <2> QED
    BY <1>5, <2>1, <2>2
<1>7. ASSUME NEW k \in T PROVE k + 1 \in T
  <2>1. k \in Nat /\ k + 1 \in Nat
    OBVIOUS
  <2>2. ASSUME k + 1 <= N, NEW s \in f[k + 1]
        PROVE  s \in Seq(M) /\ Ordered(s, parts, k + 1)
    <3>1. k + 1 \in 1 .. N /\ k <= N /\ (k + 1) - 1 = k
      BY <2>1, <2>2
    <3>2. s \in Extend(f[k], Orders(parts[k + 1]))
      <4>1. f[k + 1] = Extend(f[(k + 1) - 1], blocks[k + 1])
        BY <1>5, <3>1
      <4> QED
        BY <1>2, <2>2, <3>1, <4>1
    <3>3. \A t \in f[k] : t \in Seq(M) /\ Ordered(t, parts, k)
      BY <1>7, <2>1, <3>1
    <3> HIDE DEF T
    <3> QED
      BY <2>1, <3>1, <3>2, <3>3, AllExtendOrdered
  <2> QED
    BY <2>1, <2>2
<1>8. T = Nat
  <2>1. T \subseteq Nat
    OBVIOUS
  <2> HIDE DEF T
  <2> QED
    BY <1>6, <1>7, <2>1, SetInduction
<1> QED
  BY <1>3, <1>4, <1>8


-----------------------------------------------------------------------------
(* What is shown of a session *)

\* What a turn may have stored.
Written(q) ==
  {Question(q), Reply(q)} \cup { ToolMessage(q, records[q][i]) : i \in DOMAIN records[q] }

\* No turn begins twice.
Turns ==
  /\ began \in Seq(Requests)
  /\ \A i, j \in DOMAIN began : began[i] = began[j] => i = j
  /\ \A i \in DOMAIN began : pc[began[i]] \notin {"idle", "find"}

InTurn == {"ask", "recall", "think", "act", "store", "commit"}
Taking(r) == call[r].op = "chat" /\ (pc[r] \in InTurn \/ db[r].messages # <<>>)

\* A turn that is taken has begun, and who takes it or reads has found the session.
Begun(r) == Taking(r) => \E i \in DOMAIN began : began[i] = r
Found(r) ==
  Taking(r) \/ pc[r] = "read" => Finds(db[call[r].session].session, call[r].tenant)

SessionInv ==
  DOMAIN seen = Requests /\ Turns /\ \A r \in Requests : Begun(r) /\ Found(r)

LEMMA Least ==
  ASSUME NEW T, T \subseteq Nat, T # {}
  PROVE  \E x \in T : \A y \in T : x <= y
<1> DEFINE R == { p \in Nat \X Nat : p[1] < p[2] }
<1>1. IsWellFoundedOn(R, Nat)
  BY NatLessThanWellFounded DEF OpToRel
<1> HIDE DEF R
<1>2. PICK x \in T : \A y \in T : ~(<<y, x>> \in R)
  BY <1>1, WFMin
<1>3. \A y \in T : x \in Nat /\ y \in Nat /\ ~(y < x)
  BY <1>2 DEF R
<1> QED
  BY <1>3

\* What is kept is the end of what was listed, and not nothing if the last message fits.
LEMMA KeptIsEnd ==
  ASSUME NEW M, NEW l \in Seq(M)
  PROVE  \E n \in 1 .. Len(l) + 1 :
           /\ Kept(l) = SubSeq(l, n, Len(l))
           /\ l # <<>> /\ Fits(SubSeq(l, Len(l), Len(l))) => n <= Len(l)
<1> DEFINE L == Len(l)
           P(n) == n <= L => Fits(SubSeq(l, n, L))
           T == { n \in 1 .. L + 1 : P(n) }
           Q(n) == /\ n <= L => Fits(SubSeq(l, n, L))
                   /\ \A k \in 1 .. n - 1 : ~Fits(SubSeq(l, k, L))
           kept == CHOOSE m \in 1 .. L + 1 : Q(m)
<1>1. L \in Nat /\ (l # <<>> => L # 0)
  OBVIOUS
<1> HIDE DEF L
<1>2. L + 1 \in T /\ T \subseteq Nat
  BY <1>1
<1>3. PICK n \in T : \A k \in T : n <= k
  BY <1>2, Least
<1>4. n \in 1 .. L + 1 /\ Q(n)
  <2>1. ASSUME NEW k \in 1 .. n - 1 PROVE ~Fits(SubSeq(l, k, L))
    <3>1. k \in 1 .. L + 1 /\ k <= L /\ ~(n <= k)
      BY <1>1
    <3>2. k \notin T
      BY <1>3, <3>1
    <3> QED
      BY <3>1, <3>2
  <2> QED
    BY <2>1
<1> HIDE DEF Q, T, P
<1>5. kept \in 1 .. L + 1 /\ Q(kept)
  BY <1>4
<1>6. Kept(l) = SubSeq(l, kept, L)
  BY DEF Kept, Q, L
<1> HIDE DEF kept
<1>7. ASSUME l # <<>>, Fits(SubSeq(l, L, L)) PROVE kept <= L
  <2>1. ASSUME kept = L + 1 PROVE FALSE
    <3>1. L \in 1 .. kept - 1
      BY <1>1, <1>7, <2>1
    <3> QED
      BY <1>5, <1>7, <3>1 DEF Q
  <2> QED
    BY <1>1, <1>5, <2>1
<1> QED
  BY <1>5, <1>6, <1>7 DEF L

LEMMA WrittenTurn ==
  ASSUME NEW q, NEW m \in Written(q)
  PROVE  m.turn = q
  BY DEF Written, Question, ToolMessage, Reply, Message

LEMMA TurnWritten ==
  ASSUME NEW q \in Requests, records[q] \in Seq(ToolRecords)
  PROVE  TurnOf(q) \in Seq(Written(q)) /\ <<Question(q)>> \in Seq(Written(q))
<1> DEFINE tools == [i \in DOMAIN records[q] |-> ToolMessage(q, records[q][i])]
<1>1. DOMAIN records[q] = 1 .. Len(records[q]) /\ Len(records[q]) \in Nat
  OBVIOUS
<1>2. \A i \in DOMAIN records[q] : ToolMessage(q, records[q][i]) \in Written(q)
  BY DEF Written
<1>3. Question(q) \in Written(q) /\ Reply(q) \in Written(q)
  BY DEF Written
<1>4. tools \in Seq(Written(q))
  BY <1>1, <1>2
<1>5. TurnOf(q) = <<Question(q)>> \o tools \o <<Reply(q)>>
  BY DEF TurnOf
<1> HIDE DEF tools
<1> QED
  BY <1>3, <1>4, <1>5

LEMMA CharsOfOne ==
  ASSUME NEW m
  PROVE  Chars(<<m>>) = 0 + m.size
<1> DEFINE s == <<m>>
           size == [n \in 0 .. 1 |-> IF n = 0 THEN 0 ELSE 0 + m.size]
           Total(f) == f = [n \in 0 .. Len(s) |-> IF n = 0 THEN 0 ELSE f[n - 1] + s[n].size]
           total == CHOOSE f : Total(f)
<1>1. Len(s) = 1 /\ s[1] = m
  OBVIOUS
<1>2. Chars(s) = total[1]
  BY <1>1 DEF Chars
<1>3. Total(size)
  <2> SUFFICES ASSUME NEW n \in 0 .. 1
               PROVE  size[n] = IF n = 0 THEN 0 ELSE size[n - 1] + s[n].size
    BY <1>1
  <2>1. CASE n = 0
    BY <2>1
  <2>2. CASE n = 1
    BY <1>1, <2>2
  <2> QED
    BY <2>1, <2>2
<1> HIDE DEF size
<1>4. Total(total)
  BY <1>3
<1> HIDE DEF total, s
<1>5. total[0] = 0
  BY <1>1, <1>4
<1>6. total[1] = total[0] + s[1].size
  BY <1>1, <1>4
<1> QED
  BY <1>1, <1>2, <1>5, <1>6 DEF s

\* A question fits.
LEMMA QuestionFits ==
  ASSUME IInv, NEW r \in Requests, call[r].op = "chat"
  PROVE  Fits(<<Question(r)>>)
<1>1. call[r] \in AgentRequest
  BY DEF IInv, Shapes, RouteRequest
<1>2. call[r].size \in 1 .. MaxChars
  BY <1>1, BudgetAssumption DEF AgentRequest
<1>3. Question(r).size = call[r].size
  BY DEF Question, Message
<1> QED
  BY <1>2, <1>3, CharsOfOne, BudgetAssumption DEF Fits

\* Who reads, or recalls.
Reads(r) ==
  \/ pc[r] = "read" /\ call[r].op = "history"
  \/ pc[r] = "recall" /\ call[r].op = "chat"

LEMMA InSessionIs ==
  ASSUME IInv, NEW r \in Requests, Reads(r), NEW q \in Requests
  PROVE  /\ InSessionOf(r, q) \in Seq(Written(q))
         /\ InSessionOf(r, q) # <<>> =>
              call[q].session = call[r].session /\ call[q].tenant = call[r].tenant
         /\ InSessionOf(r, q) # <<>> /\ q # r => InSessionOf(r, q) = db[q].messages
         /\ q = r /\ call[r].op = "chat" => InSessionOf(r, q) = <<Question(r)>>
<1>1. records[q] \in Seq(ToolRecords) /\ (db[q].messages # <<>> => db[q].messages = TurnOf(q))
  BY DEF IInv, RequestInv, Recorded, Stored
<1>2. TurnOf(q) \in Seq(Written(q)) /\ <<Question(q)>> \in Seq(Written(q)) /\ <<>> \in Seq(Written(q))
  BY <1>1, TurnWritten
<1>3. call[r].op = "chat" => draft[r].messages = <<Question(r)>>
  <2>1. call[r].op = "chat" => draft[r].messages = Opening(r, 1)
    BY Asked DEF Reads
  <2>2. Append(<<>>, Question(r)) = <<Question(r)>>
    OBVIOUS
  <2> QED
    BY <2>1, <2>2, OpeningFirst
<1> QED
  BY <1>1, <1>2, <1>3 DEF InSessionOf, MessagesOf, Reads

\* A committed turn of the session is listed.
LEMMA CommittedIs ==
  ASSUME IInv, SessionInv, NEW r \in Requests, Reads(r), NEW q \in Requests,
         call[q].op = "chat", call[q].session = call[r].session, db[q].messages # <<>>
  PROVE  InSessionOf(r, q) = db[q].messages
<1>1. q # r
  BY DEF Reads, IInv, RequestInv, Stored
<1>2. Taking(q) /\ (Taking(r) \/ pc[r] = "read")
  BY DEF Taking, Reads, InTurn
<1>3. call[q].tenant = call[r].tenant
  BY <1>2 DEF SessionInv, Found, Finds
<1> QED
  BY <1>1, <1>3 DEF InSessionOf, MessagesOf

\* The blocks of a listing, one for each turn that has begun.
LEMMA ListingIs ==
  ASSUME IInv, SessionInv, NEW r \in Requests, Reads(r), NEW l \in Listings(r)
  PROVE  LET parts == [i \in 1 .. Len(began) |-> InSessionOf(r, began[i])]
             M == UNION { Written(q) : q \in Requests }
         IN  /\ l \in Seq(M) /\ Ordered(l, parts, Len(began)) /\ Len(began) \in Nat
             /\ \A i \in 1 .. Len(began) :
                  /\ began[i] \in Requests /\ parts[i] = InSessionOf(r, began[i])
                  /\ parts[i] \in Seq(Written(began[i]))
                  /\ \A m : Among(m, parts[i]) => m.turn = began[i]
<1> DEFINE parts == [i \in 1 .. Len(began) |-> InSessionOf(r, began[i])]
           M == UNION { Written(q) : q \in Requests }
           N == Len(began)
<1>1. /\ N \in Nat /\ DOMAIN began = 1 .. N /\ \A i \in 1 .. N : began[i] \in Requests
      /\ \A i, j \in 1 .. N : began[i] = began[j] => i = j
  BY DEF SessionInv, Turns
<1>2. ASSUME NEW i \in 1 .. N
      PROVE  /\ parts[i] = InSessionOf(r, began[i]) /\ parts[i] \in Seq(Written(began[i]))
             /\ parts[i] \in Seq(M)
             /\ \A m : Among(m, parts[i]) => m.turn = began[i]
  <2>1. parts[i] = InSessionOf(r, began[i]) /\ began[i] \in Requests
    BY <1>1, <1>2
  <2>2. parts[i] \in Seq(Written(began[i]))
    BY <2>1, InSessionIs
  <2>3. Written(began[i]) \subseteq M
    BY <2>1
  <2> HIDE DEF parts, M
  <2>4. parts[i] \in Seq(M)
    BY <2>2, <2>3
  <2>5. ASSUME NEW m, Among(m, parts[i]) PROVE m.turn = began[i]
    <3>1. m \in Written(began[i])
      BY <2>2, <2>5 DEF Among
    <3> QED
      BY <3>1, WrittenTurn
  <2> QED
    BY <2>1, <2>2, <2>4, <2>5
<1>3. parts \in [1 .. N -> Seq(M)]
  <2>1. \A i \in 1 .. N : parts[i] \in Seq(M)
    BY <1>2
  <2>2. parts = [i \in 1 .. N |-> parts[i]]
    OBVIOUS
  <2> HIDE DEF parts, M, N
  <2> QED
    BY <2>1, <2>2
<1>4. \A a, b \in 1 .. N : \A m : Among(m, parts[a]) /\ Among(m, parts[b]) => a = b
  <2>1. \A a \in 1 .. N : \A m : Among(m, parts[a]) => m.turn = began[a]
    BY <1>2
  <2> HIDE DEF parts, M, N
  <2> QED
    BY <1>1, <2>1
<1>5. l \in Concatenations([a \in 1 .. N |-> Orders(parts[a])])
  <2>1. [a \in 1 .. N |-> Orders(parts[a])] = [i \in DOMAIN began |-> Orders(InSessionOf(r, began[i]))]
    BY <1>1
  <2> QED
    BY <2>1 DEF Listings
<1> HIDE DEF parts, M, N
<1>6. l \in Seq(M) /\ Ordered(l, parts, N)
  BY <1>1, <1>3, <1>4, <1>5, ConcatenationsOrdered
<1>7. /\ l \in Seq(M) /\ Ordered(l, parts, N) /\ N \in Nat
      /\ \A i \in 1 .. N :
           /\ began[i] \in Requests /\ parts[i] = InSessionOf(r, began[i])
           /\ parts[i] \in Seq(Written(began[i]))
           /\ \A m : Among(m, parts[i]) => m.turn = began[i]
  BY <1>1, <1>2, <1>6
<1> QED
  BY <1>7 DEF parts, M, N

\* The end of a sequence.
LEMMA TailIs ==
  ASSUME NEW M, NEW l \in Seq(M), NEW n \in 1 .. Len(l) + 1
  PROVE  LET s == SubSeq(l, n, Len(l))
         IN  /\ s \in Seq(M) /\ Len(s) = Len(l) - n + 1 /\ DOMAIN s = 1 .. Len(s)
             /\ Len(s) \in Nat /\ Len(l) \in Nat /\ n \in Nat /\ n >= 1
             /\ \A i \in 1 .. Len(s) : i + n - 1 \in 1 .. Len(l) /\ s[i] = l[i + n - 1]
<1> DEFINE s == SubSeq(l, n, Len(l))
<1>1. Len(l) \in Nat /\ n \in Nat /\ n >= 1 /\ n <= Len(l) + 1
  OBVIOUS
<1>2. s \in Seq(M) /\ Len(s) = Len(l) - n + 1
  BY <1>1
<1>3. DOMAIN s = 1 .. Len(s) /\ Len(s) \in Nat
  BY <1>2
<1>4. ASSUME NEW i \in 1 .. Len(s) PROVE i + n - 1 \in 1 .. Len(l)
  BY <1>1, <1>2
<1>5. ASSUME NEW i \in 1 .. Len(s) PROVE s[i] = l[i + n - 1]
  <2>1. i \in 1 .. Len(l) - n + 1
    BY <1>2
  <2> QED
    BY <1>1, <2>1
<1> QED
  BY <1>1, <1>2, <1>3, <1>4, <1>5

\* Where the places o + 1 .. o + K of a sequence of length L stand in its end.
LEMMA InTail ==
  ASSUME NEW o \in Nat, NEW K \in Nat, NEW L \in Nat, NEW n \in Nat, NEW p,
         n >= 1, o + K <= L, o + 1 >= n, p = o + 1 - n
  PROVE  /\ p \in Nat /\ p + K <= L - n + 1 /\ p \in 0 .. (L - n + 1) - K
         /\ \A j \in Nat : j + n - 1 \in o + 1 .. o + K => j \in p + 1 .. p + K
         /\ \A j \in 1 .. K : p + j \in 1 .. L - n + 1 /\ (p + j) + n - 1 = o + j
  OBVIOUS

LEMMA BlockIs ==
  ASSUME NEW s, NEW p \in Nat, NEW K \in Nat, NEW from, NEW to, from = p + 1, to = p + K
  PROVE  SubSeq(s, from, to) = [j \in 1 .. K |-> s[p + j]]
<1>1. to - from + 1 = K /\ from \in Int /\ to \in Int
  OBVIOUS
<1>2. \A j \in 1 .. K : from + j - 1 = p + j
  OBVIOUS
<1> QED
  BY <1>1, <1>2

\* Where a turn stands among those that have begun.
LEMMA PositionIs ==
  ASSUME SessionInv, NEW a \in 1 .. Len(began)
  PROVE  /\ Position(began[a]) = a /\ Len(began) \in Nat
         /\ \A b \in 1 .. Len(began) : a <= b => began[b] \in {began[a]} \cup After(began[a])
<1>1. /\ DOMAIN began = 1 .. Len(began) /\ Len(began) \in Nat
      /\ \A i, j \in DOMAIN began : began[i] = began[j] => i = j
  BY DEF SessionInv, Turns
<1>2. Position(began[a]) = a
  BY <1>1 DEF Position
<1>3. ASSUME NEW b \in 1 .. Len(began), a <= b PROVE began[b] \in {began[a]} \cup After(began[a])
  <2>1. CASE a = b
    BY <2>1
  <2>2. CASE a # b
    <3>1. b \in a + 1 .. Len(began)
      BY <1>1, <1>3, <2>2
    <3> QED
      BY <1>2, <3>1 DEF After
  <2> QED
    BY <2>1, <2>2
<1> QED
  BY <1>1, <1>2, <1>3

\* What stands in the end of a listing is of the session, and in the order of the turns.
LEMMA EndIsOwn ==
  ASSUME IInv, SessionInv, NEW r \in Requests, Reads(r), NEW l \in Listings(r),
         NEW n \in 1 .. Len(l) + 1, NEW i \in DOMAIN SubSeq(l, n, Len(l))
  PROVE  LET s == SubSeq(l, n, Len(l))
             q == s[i].turn
         IN  /\ call[q].session = call[r].session /\ call[q].tenant = call[r].tenant
             /\ q = r \/ s[i] \in ToSet(db[q].messages)
             /\ \A j \in i .. Len(s) : s[j].turn \in {q} \cup After(q)
<1> DEFINE parts == [x \in 1 .. Len(began) |-> InSessionOf(r, began[x])]
           M == UNION { Written(q) : q \in Requests }
           N == Len(began)
           L == Len(l)
           s == SubSeq(l, n, Len(l))
<1>1. /\ l \in Seq(M) /\ Ordered(l, parts, N) /\ N \in Nat
      /\ \A x \in 1 .. N :
           /\ began[x] \in Requests /\ parts[x] = InSessionOf(r, began[x])
           /\ parts[x] \in Seq(Written(began[x]))
           /\ \A m : Among(m, parts[x]) => m.turn = began[x]
  BY ListingIs
<1> HIDE DEF parts, M, N
<1>2. /\ s \in Seq(M) /\ Len(s) = L - n + 1 /\ DOMAIN s = 1 .. Len(s)
      /\ Len(s) \in Nat /\ L \in Nat /\ n \in Nat /\ n >= 1
      /\ \A x \in 1 .. Len(s) : x + n - 1 \in 1 .. L /\ s[x] = l[x + n - 1]
  BY <1>1, TailIs
<1> HIDE DEF s, L
<1>3. i \in 1 .. Len(s) /\ i + n - 1 \in 1 .. L /\ s[i] = l[i + n - 1]
  BY <1>2 DEF s
<1>4. PICK a \in 1 .. N : Among(l[i + n - 1], parts[a])
  BY <1>1, <1>3 DEF Ordered, L
<1> DEFINE q == began[a]
<1>5. s[i].turn = q /\ q \in Requests /\ parts[a] = InSessionOf(r, q)
  BY <1>1, <1>3, <1>4
<1>6. parts[a] # <<>>
  BY <1>4 DEF Among
<1>7. call[q].session = call[r].session /\ call[q].tenant = call[r].tenant
  BY <1>5, <1>6, InSessionIs
<1>8. ASSUME q # r PROVE s[i] \in ToSet(db[q].messages)
  <2>1. parts[a] = db[q].messages
    BY <1>5, <1>6, <1>8, InSessionIs
  <2>2. DOMAIN parts[a] = 1 .. Len(parts[a])
    BY <1>1
  <2>3. PICK j \in 1 .. Len(parts[a]) : s[i] = parts[a][j]
    BY <1>3, <1>4 DEF Among
  <2> QED
    BY <2>1, <2>2, <2>3 DEF ToSet
<1>9. ASSUME NEW j \in i .. Len(s) PROVE s[j].turn \in {q} \cup After(q)
  <2>1. j \in 1 .. Len(s) /\ i + n - 1 <= j + n - 1
    BY <1>2, <1>3
  <2>2. j + n - 1 \in 1 .. L /\ s[j] = l[j + n - 1]
    BY <1>2, <2>1
  <2>3. PICK b \in 1 .. N : Among(l[j + n - 1], parts[b])
    BY <1>1, <2>2 DEF Ordered, L
  <2>4. s[j].turn = began[b]
    BY <1>1, <2>2, <2>3
  <2>5. a <= b
    <3>1. \A x, y \in 1 .. L, e, f \in 1 .. N :
            x <= y /\ Among(l[x], parts[e]) /\ Among(l[y], parts[f]) => e <= f
      BY <1>1 DEF Ordered, L
    <3> QED
      BY <1>3, <1>4, <2>1, <2>2, <2>3, <3>1
  <2> QED
    BY <2>4, <2>5, PositionIs DEF N
<1> QED
  BY <1>5, <1>7, <1>8, <1>9 DEF s

\* A turn that was committed is whole in the end of a listing, unless the cut is within
\* the turn or after it.
LEMMA EndIsWhole ==
  ASSUME IInv, SessionInv, NEW r \in Requests, Reads(r), NEW l \in Listings(r),
         NEW n \in 1 .. Len(l) + 1, NEW q \in Requests,
         call[q].op = "chat", call[q].session = call[r].session, db[q].messages # <<>>
  PROVE  LET s == SubSeq(l, n, Len(l))
         IN  \/ WholeIn(s, q)
             \/ n # 1 /\ \A i \in DOMAIN s : s[i].turn \in {q} \cup After(q)
<1> DEFINE parts == [i \in 1 .. Len(began) |-> InSessionOf(r, began[i])]
           M == UNION { Written(x) : x \in Requests }
           N == Len(began)
           L == Len(l)
           s == SubSeq(l, n, Len(l))
<1>1. /\ l \in Seq(M) /\ Ordered(l, parts, N) /\ N \in Nat
      /\ \A i \in 1 .. N :
           /\ began[i] \in Requests /\ parts[i] = InSessionOf(r, began[i])
           /\ parts[i] \in Seq(Written(began[i]))
           /\ \A m : Among(m, parts[i]) => m.turn = began[i]
  BY ListingIs
<1> HIDE DEF parts, M, N
<1>2. /\ s \in Seq(M) /\ Len(s) = L - n + 1 /\ DOMAIN s = 1 .. Len(s)
      /\ Len(s) \in Nat /\ L \in Nat /\ n \in Nat /\ n >= 1
      /\ \A i \in 1 .. Len(s) : i + n - 1 \in 1 .. L /\ s[i] = l[i + n - 1]
  BY <1>1, TailIs
<1> HIDE DEF s, L
<1>3. PICK a \in 1 .. N : began[a] = q
  <2>1. Taking(q)
    BY DEF Taking
  <2> QED
    BY <2>1 DEF SessionInv, Begun, Turns, N
<1> DEFINE K == Len(parts[a])
<1>4. parts[a] = db[q].messages /\ K \in Nat /\ K # 0
  <2>1. parts[a] = db[q].messages
    BY <1>1, <1>3, CommittedIs
  <2> QED
    BY <1>1, <2>1
<1>5. PICK o \in Nat :
        /\ o + K <= L
        /\ SubSeq(l, o + 1, o + K) \in Orders(parts[a])
        /\ \A j \in 1 .. L : Among(l[j], parts[a]) => j \in o + 1 .. o + K
  BY <1>1 DEF Ordered, L
\* Every message between o and o + K is of q, and no other is.
<1>6. ASSUME NEW j \in 1 .. L
      PROVE  /\ j \in o + 1 .. o + K => Among(l[j], parts[a])
             /\ j \in o + 1 .. o + K <=> l[j].turn = q
  <2>1. ASSUME j \in o + 1 .. o + K PROVE Among(l[j], parts[a])
    <3> DEFINE b == SubSeq(l, o + 1, o + K)
    <3>1. Len(b) = K /\ j - o \in 1 .. K /\ b[j - o] = l[j]
      BY <1>1, <1>4, <1>5, <2>1 DEF L
    <3>2. \A x \in 1 .. Len(b) : Among(b[x], parts[a])
      <4>1. parts[a] \in Seq(Written(q)) /\ b \in Orders(parts[a])
        BY <1>1, <1>3, <1>5
      <4> HIDE DEF b
      <4> QED
        BY <4>1, OrderIs
    <3> HIDE DEF b
    <3> QED
      BY <3>1, <3>2
  <2>2. ASSUME l[j].turn = q PROVE j \in o + 1 .. o + K
    <3>1. PICK c \in 1 .. N : Among(l[j], parts[c])
      BY <1>1 DEF Ordered, L
    <3>2. l[j].turn = began[c]
      BY <1>1, <3>1
    <3>3. c = a
      <4>1. \A x, y \in 1 .. N : began[x] = began[y] => x = y
        BY DEF SessionInv, Turns, N
      <4> QED
        BY <1>3, <2>2, <3>2, <4>1
    <3> QED
      BY <1>5, <3>1, <3>3
  <2> QED
    BY <1>1, <1>3, <2>1, <2>2
<1>7. CASE o + 1 >= n
  <2> DEFINE p == o + 1 - n
  <2>1. /\ p \in Nat /\ p + K <= L - n + 1 /\ p \in 0 .. (L - n + 1) - K
        /\ \A j \in Nat : j + n - 1 \in o + 1 .. o + K => j \in p + 1 .. p + K
        /\ \A j \in 1 .. K : p + j \in 1 .. L - n + 1 /\ (p + j) + n - 1 = o + j
    <3> HIDE DEF K
    <3> QED
      BY ONLY <1>2, <1>4, <1>5, <1>7, InTail, o \in Nat DEF p
  <2> HIDE DEF p, K
  <2>2. \A j \in DOMAIN s : s[j].turn = q => j \in p + 1 .. p + K
    <3> SUFFICES ASSUME NEW j \in DOMAIN s, s[j].turn = q PROVE j \in p + 1 .. p + K
      OBVIOUS
    <3>1. j \in Nat /\ j + n - 1 \in 1 .. L /\ s[j] = l[j + n - 1]
      <4>1. j \in 1 .. Len(s) /\ Len(s) \in Nat
        BY <1>2
      <4>2. j + n - 1 \in 1 .. L /\ s[j] = l[j + n - 1]
        BY ONLY <1>2, <4>1
      <4> QED
        BY ONLY <4>1, <4>2
    <3>2. j + n - 1 \in o + 1 .. o + K
      BY <1>6, <3>1
    <3> QED
      BY <2>1, <3>1, <3>2
  <2>3. SubSeq(s, p + 1, p + K) = SubSeq(l, o + 1, o + K)
    <3>1. \A j \in 1 .. K : s[p + j] = l[o + j]
      <4> SUFFICES ASSUME NEW j \in 1 .. K PROVE s[p + j] = l[o + j]
        OBVIOUS
      <4>1. p + j \in 1 .. Len(s) /\ (p + j) + n - 1 = o + j
        BY <1>2, <2>1
      <4> QED
        BY <1>2, <4>1
    <3>2. p \in Nat /\ o \in Nat /\ K \in Nat
      BY <1>4, <2>1
    <3>3. SubSeq(s, p + 1, p + K) = [j \in 1 .. K |-> s[p + j]]
      BY ONLY <3>2, BlockIs
    <3>4. SubSeq(l, o + 1, o + K) = [j \in 1 .. K |-> l[o + j]]
      BY ONLY <3>2, BlockIs
    <3> QED
      BY ONLY <3>1, <3>3, <3>4
  <2>4. SubSeq(s, p + 1, p + K) \in Orders(parts[a])
    BY <1>5, <2>3
  <2>5. K = Len(db[q].messages) /\ p \in 0 .. Len(s) - K
    BY <1>2, <1>4, <2>1 DEF K
  <2>6. WholeIn(s, q)
    BY <1>4, <2>2, <2>4, <2>5 DEF WholeIn
  <2> QED
    BY <2>6 DEF s
<1>8. CASE ~(o + 1 >= n)
  <2>1. n # 1 /\ o + 1 \in 1 .. L /\ o + 1 \in o + 1 .. o + K
    BY <1>2, <1>4, <1>5, <1>8
  <2>2. Among(l[o + 1], parts[a])
    BY <1>6, <2>1
  <2>3. ASSUME NEW i \in DOMAIN s PROVE s[i].turn \in {q} \cup After(q)
    <3>1. i + n - 1 \in 1 .. L /\ s[i] = l[i + n - 1] /\ o + 1 <= i + n - 1
      <4>1. i \in 1 .. Len(s) /\ i + n - 1 \in 1 .. L /\ s[i] = l[i + n - 1]
        BY <1>2
      <4>2. i >= 1 /\ i \in Int /\ o + 1 < n
        BY <1>2, <1>8, <4>1
      <4> QED
        BY <1>2, <4>1, <4>2
    <3>2. PICK b \in 1 .. N : Among(l[i + n - 1], parts[b])
      BY <1>1, <3>1 DEF Ordered, L
    <3>3. s[i].turn = began[b]
      BY <1>1, <3>1, <3>2
    <3>4. a <= b
      <4>1. \A x, y \in 1 .. L, e, f \in 1 .. N :
              x <= y /\ Among(l[x], parts[e]) /\ Among(l[y], parts[f]) => e <= f
        BY <1>1 DEF Ordered, L
      <4> QED
        BY <2>1, <2>2, <3>1, <3>2, <4>1
    <3> QED
      BY <1>3, <3>3, <3>4, PositionIs DEF N
  <2> QED
    BY <2>1, <2>3 DEF s
<1> QED
  BY <1>2, <1>5, <1>7, <1>8

LEMMA LastAlone ==
  ASSUME NEW l, NEW k \in Nat, NEW m, l[k] = m
  PROVE  SubSeq(l, k, k) = <<m>>
<1>1. k - k + 1 = 1 /\ \A x \in 1 .. 1 : k + x - 1 = k
  OBVIOUS
<1>2. SubSeq(l, k, k) = [x \in 1 .. k - k + 1 |-> l[k + x - 1]]
  OBVIOUS
<1>3. SubSeq(l, k, k) = [x \in 1 .. 1 |-> m]
  BY <1>1, <1>2
<1>4. <<m>> = [x \in 1 .. 1 |-> m]
  OBVIOUS
<1> QED
  BY <1>3, <1>4

\* What is recalled ends with the question, unless a later turn was committed earlier.
LEMMA EndAsks ==
  ASSUME IInv, SessionInv, NEW r \in Requests, Reads(r), call[r].op = "chat",
         NEW l \in Listings(r), NEW n \in 1 .. Len(l) + 1
  PROVE  LET s == SubSeq(l, n, Len(l))
         IN  \/ l # <<>> /\ SubSeq(l, Len(l), Len(l)) = <<Question(r)>>
                /\ (n <= Len(l) => s # <<>> /\ Last(s) = Question(r))
             \/ \E q \in After(r) : db[q].messages # <<>>
<1> DEFINE parts == [i \in 1 .. Len(began) |-> InSessionOf(r, began[i])]
           M == UNION { Written(q) : q \in Requests }
           N == Len(began)
           L == Len(l)
           s == SubSeq(l, n, Len(l))
<1>1. /\ l \in Seq(M) /\ Ordered(l, parts, N) /\ N \in Nat
      /\ \A i \in 1 .. N :
           /\ began[i] \in Requests /\ parts[i] = InSessionOf(r, began[i])
           /\ parts[i] \in Seq(Written(began[i]))
           /\ \A m : Among(m, parts[i]) => m.turn = began[i]
  BY ListingIs
<1> HIDE DEF parts, M, N
<1>2. /\ s \in Seq(M) /\ Len(s) = L - n + 1 /\ DOMAIN s = 1 .. Len(s)
      /\ Len(s) \in Nat /\ L \in Nat /\ n \in Nat /\ n >= 1
      /\ \A i \in 1 .. Len(s) : i + n - 1 \in 1 .. L /\ s[i] = l[i + n - 1]
  BY <1>1, TailIs
<1> HIDE DEF s, L
<1>3. PICK c \in 1 .. N : began[c] = r
  BY DEF SessionInv, Begun, Taking, InTurn, Reads, Turns, N
<1>4. parts[c] = <<Question(r)>>
  BY <1>1, <1>3, InSessionIs
<1>5. PICK i \in 1 .. L : l[i] = Question(r)
  <2>1. PICK o \in Nat :
          /\ o + Len(parts[c]) <= L
          /\ SubSeq(l, o + 1, o + Len(parts[c])) \in Orders(parts[c])
    BY <1>1 DEF Ordered, L
  <2>2. Len(parts[c]) = 1
    BY <1>4
  <2> DEFINE b == SubSeq(l, o + 1, o + 1)
  <2>3. Len(b) = 1 /\ b[1] = l[o + 1] /\ o + 1 \in 1 .. L
    BY <1>1, <2>1, <2>2 DEF L
  <2>4. \A x \in 1 .. Len(b) : Among(b[x], parts[c])
    <3>1. parts[c] \in Seq(Written(r)) /\ b \in Orders(parts[c])
      BY <1>1, <1>3, <2>1, <2>2
    <3> HIDE DEF b
    <3> QED
      BY <3>1, OrderIs
  <2> HIDE DEF b
  <2>5. Among(l[o + 1], parts[c])
    BY <2>3, <2>4
  <2>6. l[o + 1] = Question(r)
    BY <1>4, <2>5 DEF Among
  <2> QED
    BY <2>3, <2>6
<1>6. Among(l[i], parts[c])
  BY <1>4, <1>5 DEF Among
<1>7. PICK a \in 1 .. N : Among(l[L], parts[a])
  <2>1. L \in 1 .. L
    BY <1>2, <1>5
  <2> QED
    BY <1>1, <2>1 DEF Ordered, L
<1>8. c <= a
  <2>1. \A x, y \in 1 .. L, e, f \in 1 .. N :
          x <= y /\ Among(l[x], parts[e]) /\ Among(l[y], parts[f]) => e <= f
    BY <1>1 DEF Ordered, L
  <2>2. i <= L /\ L \in 1 .. L
    BY <1>2, <1>5
  <2> QED
    BY <1>6, <1>7, <2>1, <2>2
<1>9. CASE a = c
  <2>1. l[L] = Question(r) /\ L # 0
    BY <1>2, <1>4, <1>5, <1>7, <1>9 DEF Among
  <2>2. l # <<>>
    BY <1>1, <2>1 DEF L
  <2>3. SubSeq(l, L, L) = <<Question(r)>>
    BY <1>2, <2>1, LastAlone
  <2>4. ASSUME n <= L PROVE s # <<>> /\ Last(s) = Question(r)
    <3>1. Len(s) \in 1 .. Len(s) /\ Len(s) + n - 1 = L
      BY <1>2, <2>4
    <3>2. s[Len(s)] = l[L] /\ Len(s) # 0
      BY <1>2, <3>1
    <3>3. s # <<>>
      BY <3>2
    <3> QED
      BY <2>1, <3>2, <3>3 DEF Last
  <2> QED
    BY <2>2, <2>3, <2>4 DEF s, L
<1>10. CASE a # c
  <2>1. parts[a] # <<>>
    BY <1>7 DEF Among
  <2>2. began[a] # r /\ began[a] \in Requests
    BY <1>1, <1>3, <1>10 DEF SessionInv, Turns, N
  <2>3. db[began[a]].messages # <<>>
    BY <1>1, <2>1, <2>2, InSessionIs
  <2>4. began[a] \in {r} \cup After(r)
    BY <1>3, <1>8, PositionIs DEF N
  <2> QED
    BY <2>2, <2>3, <2>4
<1> QED
  BY <1>9, <1>10

-----------------------------------------------------------------------------
(* Who takes a turn or reads *)

\* A committed row stays, and turns are only appended.
Onwards ==
  /\ call' = call /\ DOMAIN seen' = Requests /\ Turns'
  /\ began' = began \/ \E x \in Requests : began' = Append(began, x)
  /\ \A q \in Requests : db[q] # Empty => db'[q] = db[q]

LEMMA OneInSession ==
  ASSUME IInv, SessionInv, Onwards, NEW r \in Requests,
         Taking(r)' => Taking(r), Taking(r)' \/ pc'[r] = "read" => Taking(r) \/ pc[r] = "read"
  PROVE  Begun(r)' /\ Found(r)'
<1>1. Begun(r) /\ Found(r) /\ Turns /\ call' = call
  BY DEF SessionInv, Onwards
<1>2. \A i \in DOMAIN began : i \in DOMAIN began' /\ began'[i] = began[i]
  BY <1>1 DEF Turns, Onwards
<1>3. Begun(r)'
  BY <1>1, <1>2 DEF Begun
<1>4. ASSUME Taking(r)' \/ pc'[r] = "read"
      PROVE  Finds(db'[call[r].session].session, call[r].tenant)
  <2>1. Taking(r) \/ pc[r] = "read"
    BY <1>4
  <2>2. Finds(db[call[r].session].session, call[r].tenant)
    BY <1>1, <2>1 DEF Found
  <2>3. call[r].op # "route"
    BY <2>1 DEF Taking, IInv, RequestInv, Placed
  <2>4. call[r] \in AgentRequest
    BY <2>3 DEF IInv, Shapes, RouteRequest
  <2>5. call[r].session \in Requests
    BY <2>4 DEF AgentRequest
  <2>6. db[call[r].session] # Empty
    BY <2>2 DEF Empty, Finds
  <2> QED
    BY <2>2, <2>5, <2>6 DEF Onwards
<1>5. Found(r)'
  BY <1>1, <1>4 DEF Found, Finds
<1> QED
  BY <1>3, <1>5

\* A request that moves on, and neither finds its session nor commits.
LEMMA MoveInSession ==
  ASSUME IInv, SessionInv, NEW r \in Requests, NEW l, pc' = pc \/ Goto(r, l),
         UNCHANGED <<call, began, db>>, DOMAIN seen' = Requests,
         l \in InTurn => pc[r] \in InTurn \/ call[r].op # "chat",
         l # "read", l \in {"idle", "find"} => pc[r] \in {"idle", "find"}
  PROVE  SessionInv'
<1>1. DOMAIN pc = Requests /\ Turns
  BY DEF IInv, Shapes, SessionInv
<1>2. \A q \in Requests : pc'[q] = pc[q] \/ (q = r /\ pc'[q] = l)
  BY <1>1 DEF Goto
<1>3. Turns'
  BY <1>1, <1>2 DEF Turns
<1>4. Onwards
  BY <1>3 DEF Onwards
<1>5. ASSUME NEW q \in Requests PROVE Begun(q)' /\ Found(q)'
  <2>1. Taking(q)' => Taking(q)
    BY <1>2 DEF Taking
  <2>2. pc'[q] = "read" => pc[q] = "read"
    BY <1>2
  <2> QED
    BY <1>4, <2>1, <2>2, OneInSession
<1> QED
  BY <1>3, <1>5 DEF SessionInv

LEMMA RefuseInSession ==
  ASSUME IInv, SessionInv, NEW r \in Requests, NEW status, Refuse(r, status),
         UNCHANGED <<call, seen, began, db>>
  PROVE  SessionInv'
  BY MoveInSession DEF Refuse, InTurn, SessionInv

LEMMA StartInSession ==
  ASSUME IInv, SessionInv, NEW r \in Requests, Start(r)
  PROVE  SessionInv'
<1>1. DOMAIN seen = Requests
  BY DEF SessionInv
<1>2. ASSUME NEW op, NEW permissions, NEW l, Route(r, op, permissions, l),
             \/ op = "create" /\ l = "create"
             \/ op \in {"chat", "history"} /\ l = "find"
             \/ op = "run" /\ l = "think"
      PROVE  SessionInv'
  <2>1. pc[r] = "idle" /\ call[r].op = op /\ UNCHANGED <<call, seen, began, db>>
    BY <1>2 DEF Route, At, stored
  <2>2. Goto(r, l) \/ Goto(r, "done")
    BY <1>2 DEF Route
  <2>3. CASE Goto(r, "done")
    BY <1>1, <2>1, <2>3, MoveInSession DEF InTurn
  <2>4. CASE Goto(r, l)
    BY <1>1, <1>2, <2>1, <2>4, MoveInSession DEF InTurn
  <2> QED
    BY <2>2, <2>3, <2>4
<1>3. ASSUME ListTools(r) PROVE SessionInv'
  <2>1. Goto(r, "done") /\ UNCHANGED <<call, seen, began, db>>
    BY <1>3 DEF ListTools, stored
  <2> QED
    BY <1>1, <2>1, MoveInSession DEF InTurn
<1>4. ASSUME RouteMessage(r) PROVE SessionInv'
  <2>1. UNCHANGED <<call, seen, began, db>> /\ (Goto(r, "done") \/ Goto(r, "pathway"))
    BY <1>4 DEF RouteMessage, stored
  <2> QED
    BY <1>1, <2>1, MoveInSession DEF InTurn
<1> QED
  BY <1>2, <1>3, <1>4
  DEF Start, AgentStart, CreateRoute, ChatRoute, HistoryRoute, RunRoute

LEMMA StepInSession ==
  ASSUME IInv, SessionInv, NEW r \in Requests, Step(r) \/ AgentFault(r),
         ~GetSession(r), ~Commit(r)
  PROVE  SessionInv'
<1>1. Placed(r) /\ DOMAIN seen = Requests
  BY DEF IInv, RequestInv, SessionInv
<1>2. ASSUME CreateSession(r) PROVE SessionInv'
  <2>1. pc[r] = "create" /\ Goto(r, "commit") /\ UNCHANGED <<call, seen, began, db>>
    BY <1>2 DEF CreateSession, At, Succeed
  <2> QED
    BY <1>1, <2>1, MoveInSession DEF Placed, InTurn
<1>3. ASSUME AddQuestion(r) PROVE SessionInv'
  BY <1>1, <1>3, MoveInSession DEF AddQuestion, At, InTurn
<1>4. ASSUME NEW words, Conclude(r, words), pc[r] = "think", UNCHANGED <<call, seen, began, db>>
      PROVE  SessionInv'
  <2>1. Goto(r, "store") \/ Goto(r, "commit")
    BY <1>4 DEF Conclude, Succeed
  <2> QED
    BY <1>1, <1>4, <2>1, MoveInSession DEF InTurn
<1>5. ASSUME Think(r) PROVE SessionInv'
  <2>1. pc[r] = "think" /\ UNCHANGED <<call, seen, began, db>>
    BY <1>5 DEF Think, At, stored
  <2>2. PICK text \in Repertoire[call[r].model] :
          IF IsCall(text)
          THEN /\ chosen' = [chosen EXCEPT ![r] = text.call]
               /\ Goto(r, "act")
               /\ UNCHANGED <<reply, answer, iteration>>
          ELSE /\ iteration' = [iteration EXCEPT ![r] = @ + 1]
               /\ Conclude(r, FinalAnswer(text))
               /\ UNCHANGED chosen
    BY <1>5 DEF Think
  <2>3. CASE IsCall(text)
    BY <1>1, <2>1, <2>2, <2>3, MoveInSession DEF InTurn
  <2>4. CASE ~IsCall(text)
    BY <1>4, <2>1, <2>2, <2>4
  <2> QED
    BY <2>3, <2>4
<1>6. ASSUME ForceAnswer(r) PROVE SessionInv'
  BY <1>4, <1>6 DEF ForceAnswer, At, stored
<1>7. ASSUME ModelUnavailable(r) PROVE SessionInv'
  BY <1>4, <1>7 DEF ModelUnavailable, At, stored
<1>8. ASSUME ModelBreaks(r) PROVE SessionInv'
  BY <1>8, RefuseInSession DEF ModelBreaks, stored
<1>9. ASSUME StatementFails(r) PROVE SessionInv'
  BY <1>9, RefuseInSession DEF StatementFails, stored
<1>10. ASSUME StoreRefused(r) PROVE SessionInv'
  BY <1>10, RefuseInSession DEF StoreRefused, stored
<1>11. ASSUME CallTool(r) PROVE SessionInv'
  BY <1>1, <1>11, MoveInSession DEF CallTool, At, InTurn
<1>12. ASSUME StoreTurn(r) PROVE SessionInv'
  <2>1. pc[r] = "store" /\ UNCHANGED <<call, seen, began, db>> /\ (pc' = pc \/ Goto(r, "commit"))
    BY <1>12 DEF StoreTurn, At, Succeed
  <2> QED
    BY <1>1, <2>1, MoveInSession DEF InTurn
<1>13. ASSUME PathwayAnswers(r) PROVE SessionInv'
  BY <1>1, <1>13, MoveInSession DEF PathwayAnswers, stored, InTurn
<1>14. ASSUME CommitFails(r) \/ Rollback(r) \/ ProcessDies(r) PROVE SessionInv'
  BY <1>1, <1>14, MoveInSession DEF CommitFails, Rollback, ProcessDies, Close, InTurn
<1>15. ASSUME ReadHistory(r) PROVE SessionInv'
  <2>1. /\ pc[r] = "read" /\ Goto(r, "commit") /\ UNCHANGED <<call, began, db>>
        /\ DOMAIN seen' = Requests
    BY <1>1, <1>15 DEF ReadHistory, At, stored, Succeed
  <2> QED
    BY <1>1, <2>1, MoveInSession DEF Placed
<1>16. ASSUME Recall(r) PROVE SessionInv'
  <2>1. /\ pc[r] = "recall" /\ Goto(r, "think") /\ UNCHANGED <<call, began, db>>
        /\ DOMAIN seen' = Requests
    BY <1>1, <1>16 DEF Recall, At, stored
  <2> QED
    BY <2>1, MoveInSession DEF InTurn
<1> QED
  BY <1>2, <1>3, <1>5, <1>6, <1>7, <1>8, <1>9, <1>10, <1>11, <1>12, <1>13, <1>14, <1>15, <1>16
  DEF Step, AgentStep, AgentFault

\* The session is there, and no turn of r has begun before.
LEMMA GetSessionInSession ==
  ASSUME IInv, SessionInv, NEW r \in Requests, GetSession(r)
  PROVE  SessionInv'
<1>1. /\ pc[r] = "find" /\ UNCHANGED <<call, seen, db>>
      /\ began' = IF call[r].op = "chat" THEN Append(began, r) ELSE began
  BY DEF GetSession, At
<1>2. DOMAIN pc = Requests /\ DOMAIN seen = Requests /\ Turns /\ Stored(r)
  BY DEF IInv, Shapes, RequestInv, SessionInv
<1>3. PICK l \in {"ask", "read", "rollback"} :
        /\ Goto(r, l)
        /\ l # "rollback" => Finds(db[call[r].session].session, call[r].tenant)
  BY DEF GetSession, Refuse
<1>4. pc'[r] = l /\ \A q \in Requests \ {r} : pc'[q] = pc[q]
  BY <1>2, <1>3 DEF Goto
<1>5. /\ \A i \in DOMAIN began : began[i] \in Requests /\ began[i] # r
      /\ DOMAIN began = 1 .. Len(began) /\ Len(began) \in Nat
  BY <1>1, <1>2 DEF Turns
<1>6. Turns'
  <2>1. CASE began' = began
    BY <1>2, <1>4, <1>5, <2>1 DEF Turns
  <2>2. CASE began' = Append(began, r)
    <3>1. /\ began' \in Seq(Requests) /\ DOMAIN began' = 1 .. Len(began) + 1
          /\ began'[Len(began) + 1] = r
          /\ \A i \in DOMAIN began : began'[i] = began[i]
      BY <1>2, <1>5, <2>2 DEF Turns
    <3>2. \A i \in DOMAIN began' : i \in DOMAIN began \/ i = Len(began) + 1
      BY <1>5, <3>1
    <3>3. \A i, j \in DOMAIN began' : began'[i] = began'[j] => i = j
      BY <1>2, <1>5, <3>1, <3>2 DEF Turns
    <3>4. \A i \in DOMAIN began' : pc'[began'[i]] \notin {"idle", "find"}
      BY <1>2, <1>3, <1>4, <1>5, <3>1, <3>2 DEF Turns
    <3> QED
      BY <3>1, <3>3, <3>4 DEF Turns
  <2> QED
    BY <1>1, <2>1, <2>2
<1>7. Onwards
  BY <1>1, <1>2, <1>6 DEF Onwards
<1>8. ASSUME NEW q \in Requests \ {r} PROVE Begun(q)' /\ Found(q)'
  <2>1. Taking(q)' => Taking(q)
    BY <1>1, <1>4 DEF Taking
  <2> QED
    BY <1>4, <1>7, <2>1, OneInSession
<1>9. Begun(r)'
  <2>1. CASE call[r].op = "chat"
    <3>1. Len(began) + 1 \in DOMAIN began' /\ began'[Len(began) + 1] = r
      BY <1>1, <1>2, <2>1 DEF Turns
    <3> QED
      BY <3>1 DEF Begun
  <2>2. CASE call[r].op # "chat"
    BY <1>1, <2>2 DEF Begun, Taking
  <2> QED
    BY <2>1, <2>2
<1>10. Found(r)'
  <2>1. Taking(r)' \/ pc'[r] = "read" => l # "rollback"
    <3>1. db[r].messages = <<>>
      BY <1>1, <1>2 DEF Stored
    <3> QED
      BY <1>1, <1>4, <3>1 DEF Taking, InTurn
  <2> QED
    BY <1>1, <1>3, <2>1 DEF Found, Finds
<1> QED
  BY <1>1, <1>2, <1>6, <1>8, <1>9, <1>10 DEF SessionInv

LEMMA CommitInSession ==
  ASSUME IInv, EventInv, SessionInv, NEW r \in Requests, Commit(r)
  PROVE  SessionInv'
<1>1. /\ pc[r] = "commit" /\ Goto(r, "done") /\ UNCHANGED <<call, seen, began>>
      /\ db' = IF spoilt[r] THEN db ELSE [db EXCEPT ![r] = draft[r]]
  BY DEF Commit, At, Close
<1>2. DOMAIN pc = Requests /\ DOMAIN seen = Requests /\ DOMAIN db = Requests /\ Turns
  BY DEF IInv, Shapes, SessionInv
<1>3. pc'[r] = "done" /\ \A q \in Requests \ {r} : pc'[q] = pc[q] /\ db'[q] = db[q]
  BY <1>1, <1>2 DEF Goto
<1>4. db[r] = Empty
  BY <1>1 DEF EventInv, Reporting
<1>5. Turns'
  BY <1>1, <1>2, <1>3 DEF Turns
<1>6. Onwards
  BY <1>1, <1>2, <1>3, <1>4, <1>5 DEF Onwards
<1>7. ASSUME NEW q \in Requests PROVE Begun(q)' /\ Found(q)'
  <2>1. Taking(q)' => Taking(q)
    <3>1. CASE q = r
      BY <1>1, <3>1 DEF Taking, InTurn
    <3>2. CASE q # r
      BY <1>1, <1>3, <3>2 DEF Taking
    <3> QED
      BY <3>1, <3>2
  <2>2. pc'[q] = "read" => pc[q] = "read"
    BY <1>3
  <2> QED
    BY <1>6, <2>1, <2>2, OneInSession
<1> QED
  BY <1>1, <1>2, <1>5, <1>7 DEF SessionInv

LEMMA InitSessions == Init => SessionInv
<1> SUFFICES ASSUME Init PROVE SessionInv
  OBVIOUS
<1>1. DOMAIN seen = Requests /\ Turns
  BY DEF Init, Turns
<1>2. ASSUME NEW r \in Requests PROVE Begun(r) /\ Found(r)
  <2>1. pc[r] = "idle" /\ db[r].messages = <<>>
    BY <1>2 DEF Init, Empty
  <2> QED
    BY <2>1 DEF Begun, Found, Taking, InTurn
<1> QED
  BY <1>1, <1>2 DEF SessionInv

LEMMA NextSessions == IInv /\ EventInv /\ SessionInv /\ [Next]_vars => SessionInv'
<1> SUFFICES ASSUME IInv, EventInv, SessionInv, [Next]_vars PROVE SessionInv'
  OBVIOUS
<1>1. ASSUME NEW r \in Requests, Start(r) \/ Step(r) \/ AgentFault(r) PROVE SessionInv'
  BY <1>1, StartInSession, StepInSession, GetSessionInSession, CommitInSession
<1>2. CASE UNCHANGED vars
  <2>1. UNCHANGED <<call, pc, seen, began, db>>
    BY <1>2 DEF vars, agentVars
  <2>2. DOMAIN seen = Requests /\ Turns
    BY DEF SessionInv
  <2>3. Turns' /\ Onwards
    BY <2>1, <2>2 DEF Turns, Onwards
  <2>4. ASSUME NEW q \in Requests PROVE Begun(q)' /\ Found(q)'
    <3>1. Taking(q)' => Taking(q)
      BY <2>1 DEF Taking
    <3> QED
      BY <2>1, <2>3, <3>1, OneInSession
  <2> QED
    BY <2>1, <2>2, <2>3, <2>4 DEF SessionInv
<1> QED
  BY <1>1, <1>2 DEF Next

-----------------------------------------------------------------------------
(* What is read *)

LEMMA RecallShows ==
  ASSUME IInv, SessionInv, NEW r \in Requests, Recall(r)
  PROVE  ShownTo(r, seen'[r])
<1>1. pc[r] = "recall" /\ call[r].op = "chat"
  BY DEF Recall, At, IInv, RequestInv, Placed
<1>2. PICK l \in Listings(r) : seen' = [seen EXCEPT ![r] = Kept(l)]
  BY DEF Recall
<1>3. Reads(r)
  BY <1>1 DEF Reads
<1> DEFINE M == UNION { Written(q) : q \in Requests }
<1>4. l \in Seq(M)
  BY <1>3, ListingIs
<1> HIDE DEF M
<1>5. PICK n \in 1 .. Len(l) + 1 :
        /\ Kept(l) = SubSeq(l, n, Len(l))
        /\ l # <<>> /\ Fits(SubSeq(l, Len(l), Len(l))) => n <= Len(l)
  BY <1>4, KeptIsEnd
<1> DEFINE s == SubSeq(l, n, Len(l))
<1>6. seen'[r] = s
  BY <1>2, <1>5 DEF SessionInv
<1>7. \A i \in DOMAIN s :
        LET q == s[i].turn
        IN  /\ call[q].session = call[r].session /\ call[q].tenant = call[r].tenant
            /\ q = r \/ s[i] \in ToSet(db[q].messages)
            /\ \A j \in i .. Len(s) : s[j].turn \in {q} \cup After(q)
  BY <1>3, EndIsOwn
<1>8. \A q \in Requests :
        call[q].op = "chat" /\ call[q].session = call[r].session /\ db[q].messages # <<>> =>
          \/ WholeIn(s, q)
          \/ \A i \in DOMAIN s : s[i].turn \in {q} \cup After(q)
  BY <1>3, EndIsWhole
<1>9. \/ s # <<>> /\ Last(s) = Question(r)
      \/ \E q \in After(r) : db[q].messages # <<>>
  BY <1>1, <1>3, <1>5, EndAsks, QuestionFits
<1> HIDE DEF s
<1>10. Finds(db[call[r].session].session, call[r].tenant)
  BY <1>1 DEF SessionInv, Found, Taking, InTurn
<1> QED
  BY <1>1, <1>6, <1>7, <1>8, <1>9, <1>10 DEF ShownTo

LEMMA HistoryShows ==
  ASSUME IInv, SessionInv, NEW r \in Requests, ReadHistory(r)
  PROVE  ShownTo(r, seen'[r])
<1>1. pc[r] = "read" /\ call[r].op = "history"
  BY DEF ReadHistory, At, IInv, RequestInv, Placed
<1>2. PICK l \in Listings(r) : seen' = [seen EXCEPT ![r] = l]
  BY DEF ReadHistory
<1>3. Reads(r)
  BY <1>1 DEF Reads
<1> DEFINE M == UNION { Written(q) : q \in Requests }
<1>4. l \in Seq(M)
  BY <1>3, ListingIs
<1> HIDE DEF M
<1> DEFINE s == SubSeq(l, 1, Len(l))
<1>5. 1 \in 1 .. Len(l) + 1 /\ s = l
  BY <1>4
<1>6. seen'[r] = s
  BY <1>2, <1>5 DEF SessionInv
<1>7. \A i \in DOMAIN s :
        LET q == s[i].turn
        IN  /\ call[q].session = call[r].session /\ call[q].tenant = call[r].tenant
            /\ q = r \/ s[i] \in ToSet(db[q].messages)
            /\ \A j \in i .. Len(s) : s[j].turn \in {q} \cup After(q)
  BY <1>3, <1>5, EndIsOwn
<1>8. \A q \in Requests :
        call[q].op = "chat" /\ call[q].session = call[r].session /\ db[q].messages # <<>> =>
          WholeIn(s, q)
  BY <1>3, <1>5, EndIsWhole
<1> HIDE DEF s
<1>9. Finds(db[call[r].session].session, call[r].tenant)
  BY <1>1 DEF SessionInv, Found
<1> QED
  BY <1>1, <1>6, <1>7, <1>8, <1>9 DEF ShownTo

\* Only another step of r itself moves r.
LEMMA ReadBy ==
  ASSUME IInv, NEW r \in Requests, HasRead(r), Next
  PROVE  ReadHistory(r) \/ Recall(r)
<1>1. DOMAIN pc = Requests
  BY DEF IInv, Shapes
<1>2. PICK q \in Requests : Start(q) \/ Step(q) \/ AgentFault(q)
  BY DEF Next
<1>3. PICK l : pc' = pc \/ Goto(q, l)
  <2>1. ASSUME NEW op, NEW permissions, NEW l, Route(q, op, permissions, l)
        PROVE  \E m : Goto(q, m)
    BY <2>1 DEF Route
  <2>2. ASSUME NEW words, Conclude(q, words) PROVE \E m : Goto(q, m)
    BY <2>2 DEF Conclude, Succeed
  <2>3. CASE Start(q)
    BY <2>1, <2>3 DEF Start, AgentStart, CreateRoute, ChatRoute, HistoryRoute, RunRoute, ListTools,
                      RouteMessage
  <2>4. CASE Step(q)
    BY <2>2, <2>4
    DEF Step, AgentStep, CreateSession, GetSession, ReadHistory, AddQuestion, Recall, Think,
        CallTool, ForceAnswer, StoreTurn, StoreRefused, Commit, Rollback, PathwayAnswers,
        Succeed, Refuse, Close
  <2>5. CASE AgentFault(q)
    BY <2>2, <2>5
    DEF AgentFault, ModelUnavailable, ModelBreaks, CommitFails, StatementFails, ProcessDies,
        Refuse, Close
  <2> QED
    BY <1>2, <2>3, <2>4, <2>5
<1>4. q = r
  BY <1>1, <1>3 DEF HasRead, At, Goto
<1>5. pc[r] \in {"read", "recall"} /\ pc'[r] \in {"commit", "think"}
  BY DEF HasRead, At
<1>6. ~Start(r)
  BY <1>5 DEF Start, AgentStart, CreateRoute, ChatRoute, HistoryRoute, RunRoute, ListTools,
              RouteMessage, Route, At
<1>7. ~AgentFault(r)
  <2>1. ~Goto(r, "rollback") /\ ~Goto(r, "done")
    BY <1>1, <1>5 DEF Goto
  <2> QED
    BY <1>5, <2>1
    DEF AgentFault, ModelUnavailable, ModelBreaks, CommitFails, StatementFails, ProcessDies,
        Refuse, Close, At
<1>8. Step(r) => ReadHistory(r) \/ Recall(r)
  BY <1>5
  DEF Step, AgentStep, CreateSession, GetSession, AddQuestion, Think, CallTool, ForceAnswer,
      StoreTurn, StoreRefused, Commit, Rollback, PathwayAnswers, At
<1> QED
  BY <1>2, <1>4, <1>6, <1>7, <1>8

\* Whatever is committed by others meanwhile, and whatever fails: who reads a session is
\* shown the committed turns of its own tenant's users in their order, side by side and whole,
\* except that the model is shown a tail of them that may begin within a turn; it ends
\* with the question the model has to answer, unless a turn that began later was
\* committed earlier.
THEOREM ShownIsWhole == Spec => ShownWhole
<1>1. Spec => []EventInv
  BY InitEvents, NextEvents, Invariance, PTL DEF Spec
<1>2. Spec => []SessionInv
  BY <1>1, Invariance, InitSessions, NextSessions, PTL DEF Spec
<1>3. IInv /\ SessionInv /\ [Next]_vars =>
        [\A r \in Requests : HasRead(r) => ShownTo(r, seen'[r])]_vars
  BY ReadBy, HistoryShows, RecallShows
<1> QED
  BY <1>2, <1>3, Invariance, PTL DEF Spec, ShownWhole
=============================================================================
