---------------------------- MODULE OrderCancel ----------------------------
(***************************************************************************)
(* Cancellation of orders: execute_cancel_order and its repository and MFA *)
(* provider (app/pathways/write), on the order table (app/db/models).      *)
(*                                                                         *)
(* A request reads the order, decides, awaits the MFA challenge and only   *)
(* then writes, in one transaction at READ COMMITTED and without a row     *)
(* lock: the order it writes need not be the one it decided about.  Orders *)
(* move on towards delivery, and are soft-deleted, by other programs on    *)
(* the same database.                                                      *)
(***************************************************************************)
EXTENDS Naturals

CONSTANTS
  Requests, Orders,
  Tenants, Users,  \* identities, Nil among them
  Nil,             \* the nil UUID of a context that lacks an id
  Windows,         \* the values of cancellable_until
  NoLimit,         \* cancellable_until is NULL
  MaxTime,         \* bound on the clock
  Faults,          \* which failures of the environment may occur
  Absent           \* no request yet

FaultKinds == {"statement", "commit", "mfa", "process"}
Statuses == {"pending", "confirmed", "shipped", "delivered", "cancelled"}
CANCELLABLE_STATUSES == {"pending", "confirmed"}

ASSUME IdsAssumption == Nil \in Tenants /\ Nil \in Users
ASSUME TimeAssumption == Windows \subseteq Nat \cup {NoLimit} /\ MaxTime \in Nat
ASSUME FaultsAssumption == Faults \subseteq FaultKinds

\* text: how the column spells the status.  The model writes and reads the name of the
\* enum's member; the table that the migration makes admits its value only, by a CHECK.
OrderRows ==
  [ tenant : Tenants \ {Nil}, user : Users \ {Nil}, status : Statuses,
    text : {"name", "value"}, cancellable_until : Windows, deleted : BOOLEAN ]
Contexts == [ order : Orders, tenant : Tenants, user : Users ]

ASSUME AbsentAssumption == Absent \notin Contexts

VARIABLES
  orders,        \* committed rows
  clock,
  pc,            \* where the request is
  context,       \* CancelOrderRequest and SecurityContext
  updating,      \* its transaction has updated, and holds, the row
  response,      \* what the caller was told
  verified,      \* history: requests whose challenge was passed
  cancelled_by,  \* history: requests whose cancellation is committed
  overtaken      \* history: requests during which the order or the clock moved

vars == <<orders, clock, pc, context, updating, response, verified, cancelled_by, overtaken>>

InFlight == {"lookup", "challenge", "mutate", "commit", "rollback"}
Refusals == {"tenant_isolation", "authorization", "business_rule"}

Goto(r, label) == pc' = [pc EXCEPT ![r] = label]
Answer(r, a) == response' = [response EXCEPT ![r] = a]
Order(r) == context[r].order

\* Requests in flight for the order.
Pending(o) == { r \in Requests : pc[r] \in InFlight /\ Order(r) = o }

-----------------------------------------------------------------------------
\* The presence guard comes before the transaction begins.
Receive(r, c) ==
  /\ pc[r] = "idle"
  /\ context' = [context EXCEPT ![r] = c]
  /\ \/ c.tenant = Nil /\ Answer(r, "tenant_isolation") /\ Goto(r, "done")
     \/ c.tenant # Nil /\ c.user = Nil /\ Answer(r, "authorization") /\ Goto(r, "done")
     \/ c.tenant # Nil /\ c.user # Nil /\ Goto(r, "lookup") /\ UNCHANGED response
  /\ UNCHANGED <<orders, clock, updating, verified, cancelled_by, overtaken>>

\* Faulty variant: the lookup ignores the tenant.
TargetAnyTenant(r) ==
  LET row == orders[Order(r)]
  IN  row.user = context[r].user /\ ~row.deleted

\* get_for_cancellation: all three keys must match.
Target(r) ==
  LET row == orders[Order(r)]
  IN  row.tenant = context[r].tenant /\ row.user = context[r].user /\ ~row.deleted

\* Faulty variant: the window is not looked at.
CancellableByStatus(row) == row.status \in CANCELLABLE_STATUSES

\* Faulty variant: the status is not looked at.
CancellableByWindow(row) == row.cancellable_until # NoLimit => clock < row.cancellable_until

\* _validate_cancellable.
Cancellable(row) ==
  /\ row.status \in CANCELLABLE_STATUSES
  /\ row.cancellable_until # NoLimit => clock < row.cancellable_until

\* SQLAlchemy loads a row whose status is the name of a member, and raises at any other.
Loads(row) == row.text = "name"

Lookup(r) ==
  /\ pc[r] = "lookup"
  /\ LET row == orders[Order(r)]
     IN  \/ ~Target(r) /\ Answer(r, "authorization") /\ Goto(r, "rollback")
         \/ Target(r) /\ ~Loads(row) /\ Answer(r, "system_error") /\ Goto(r, "rollback")
         \/ Target(r) /\ Loads(row) /\ ~Cancellable(row)
            /\ Answer(r, "business_rule") /\ Goto(r, "rollback")
         \/ Target(r) /\ Loads(row) /\ Cancellable(row)
            /\ Goto(r, "challenge") /\ UNCHANGED response
  /\ UNCHANGED <<orders, clock, context, updating, verified, cancelled_by, overtaken>>

\* Faulty variant: the verdict of the challenge is not looked at.
ChallengeIgnored(r) ==
  /\ pc[r] = "challenge"
  /\ Goto(r, "mutate")
  /\ \E ok \in BOOLEAN : verified' = IF ok THEN verified \cup {r} ELSE verified
  /\ UNCHANGED <<orders, clock, context, updating, response, cancelled_by, overtaken>>

\* request_challenge and verify_challenge: passed, failed, or the provider raises.
Challenge(r) ==
  /\ pc[r] = "challenge"
  /\ \/ Goto(r, "mutate") /\ verified' = verified \cup {r} /\ UNCHANGED response
     \/ Answer(r, "authorization") /\ Goto(r, "rollback") /\ UNCHANGED verified
     \/ "mfa" \in Faults /\ Answer(r, "system_error") /\ Goto(r, "rollback")
        /\ UNCHANGED verified
  /\ UNCHANGED <<orders, clock, context, updating, cancelled_by, overtaken>>

RowFree(o) == \A q \in Requests : ~(updating[q] /\ Order(q) = o)

\* Faulty variant: the caller is told before the transaction commits.
MutateAndAnswer(r) ==
  /\ pc[r] = "mutate" /\ RowFree(Order(r))
  /\ updating' = [updating EXCEPT ![r] = TRUE]
  /\ Answer(r, "cancelled")
  /\ Goto(r, "commit")
  /\ UNCHANGED <<orders, clock, context, verified, cancelled_by, overtaken>>

\* The flush: UPDATE ... WHERE id, which waits for the row and asks nothing of it.  It
\* writes a name, over a name: no CHECK stands against it.
Mutate(r) ==
  /\ pc[r] = "mutate" /\ RowFree(Order(r))
  /\ updating' = [updating EXCEPT ![r] = TRUE]
  /\ Goto(r, "commit")
  /\ UNCHANGED <<orders, clock, context, response, verified, cancelled_by, overtaken>>

Effect(r) ==
  /\ orders' = [orders EXCEPT ![Order(r)].status = "cancelled"]
  /\ cancelled_by' = cancelled_by \cup {r}
  /\ overtaken' = overtaken \cup (Pending(Order(r)) \ {r})

\* The end of "async with session.begin()", before execute_cancel_order returns.
Commit(r) ==
  /\ pc[r] = "commit"
  /\ Effect(r)
  /\ updating' = [updating EXCEPT ![r] = FALSE]
  /\ Answer(r, "cancelled")
  /\ Goto(r, "done")
  /\ UNCHANGED <<clock, context, verified>>

\* COMMIT raises: it was refused, or its answer was lost.
CommitFails(r) ==
  /\ "commit" \in Faults
  /\ pc[r] = "commit"
  /\ Effect(r) \/ UNCHANGED <<orders, cancelled_by, overtaken>>
  /\ updating' = [updating EXCEPT ![r] = FALSE]
  /\ Answer(r, "system_error")
  /\ Goto(r, "done")
  /\ UNCHANGED <<clock, context, verified>>

StatementFails(r) ==
  /\ "statement" \in Faults
  /\ pc[r] \in {"lookup", "mutate"}
  /\ Answer(r, "system_error")
  /\ Goto(r, "rollback")
  /\ UNCHANGED <<orders, clock, context, updating, verified, cancelled_by, overtaken>>

\* An exception leaves the transaction's block; it becomes a Failure.
Rollback(r) ==
  /\ pc[r] = "rollback"
  /\ Goto(r, "done")
  /\ UNCHANGED <<orders, clock, context, updating, response, verified, cancelled_by, overtaken>>

\* The database drops the transaction, nobody is told anything.
ProcessDies(r) ==
  /\ "process" \in Faults
  /\ pc[r] \in InFlight
  /\ updating' = [updating EXCEPT ![r] = FALSE]
  /\ Answer(r, "none")
  /\ Goto(r, "done")
  /\ UNCHANGED <<orders, clock, context, verified, cancelled_by, overtaken>>

-----------------------------------------------------------------------------
(* The world *)

Advance(o, from, to) ==
  /\ orders[o].status = from
  /\ orders' = [orders EXCEPT ![o].status = to]
  /\ overtaken' = overtaken \cup Pending(o)

\* Another program moves the order on; it looks at the status it updates.
Fulfil(o) ==
  /\ RowFree(o)
  /\ \/ Advance(o, "pending", "confirmed")
     \/ Advance(o, "confirmed", "shipped")
     \/ Advance(o, "shipped", "delivered")
  /\ UNCHANGED <<clock, pc, context, updating, response, verified, cancelled_by>>

SoftDelete(o) ==
  /\ RowFree(o)
  /\ ~orders[o].deleted
  /\ orders' = [orders EXCEPT ![o].deleted = TRUE]
  /\ UNCHANGED <<clock, pc, context, updating, response, verified, cancelled_by, overtaken>>

Tick ==
  /\ clock < MaxTime
  /\ clock' = clock + 1
  /\ overtaken' = overtaken \cup { r \in Requests : pc[r] \in InFlight }
  /\ UNCHANGED <<orders, pc, context, updating, response, verified, cancelled_by>>

-----------------------------------------------------------------------------
Init ==
  /\ orders \in [Orders -> { row \in OrderRows : row.status = "pending" /\ ~row.deleted }]
  /\ clock = 0
  /\ pc = [r \in Requests |-> "idle"]
  /\ context = [r \in Requests |-> Absent]
  /\ updating = [r \in Requests |-> FALSE]
  /\ response = [r \in Requests |-> "none"]
  /\ verified = {}
  /\ cancelled_by = {}
  /\ overtaken = {}

Cancel(r) ==
  \/ \E c \in Contexts : Receive(r, c)
  \/ Lookup(r) \/ Challenge(r) \/ Mutate(r) \/ Commit(r)
  \/ CommitFails(r) \/ StatementFails(r) \/ Rollback(r) \/ ProcessDies(r)

Next ==
  \/ \E r \in Requests : Cancel(r)
  \/ \E o \in Orders : Fulfil(o) \/ SoftDelete(o)
  \/ Tick

Spec == Init /\ [][Next]_vars

-----------------------------------------------------------------------------
(* Properties *)

TypeOK ==
  /\ orders \in [Orders -> OrderRows]
  /\ clock \in Nat
  /\ pc \in [Requests -> InFlight \cup {"idle", "done"}]
  /\ context \in [Requests -> Contexts \cup {Absent}]
  /\ updating \in [Requests -> BOOLEAN]
  /\ response \in [Requests -> Refusals \cup {"none", "cancelled", "system_error"}]
  /\ verified \subseteq Requests
  /\ cancelled_by \subseteq Requests
  /\ overtaken \subseteq Requests

\* An order is cancelled only for its owner, in its tenant, by a request whose
\* own challenge was passed, however requests and failures interleave.
CancelledByOwner ==
  \A r \in cancelled_by :
    /\ context[r] # Absent
    /\ context[r].tenant = orders[Order(r)].tenant
    /\ context[r].user = orders[Order(r)].user
    /\ r \in verified

\* The caller is told "cancelled" only when the order is, for good; after a
\* refusal the request has changed nothing.  Only a system error leaves it open.
AnswerTrue ==
  \A r \in Requests :
    /\ response[r] = "cancelled" => r \in cancelled_by
    /\ response[r] \in Refusals => r \notin cancelled_by
    /\ r \in cancelled_by => orders[Order(r)].status = "cancelled"

TooLate(row) ==
  \/ row.status \notin {"pending", "confirmed"}
  \/ row.cancellable_until # NoLimit /\ clock >= row.cancellable_until

\* Tests 2, 3 and 4 of test_write_lifecycle.py: an order that is cancelled or
\* shipped, or whose window has expired, is not cancelled.  The code keeps this
\* unless the order or the clock moves while the request awaits its challenge.
CancelledInTimeAlone ==
  [][\A r \in Requests :
       updating'[r] /\ ~updating[r] /\ TooLate(orders[Order(r)]) => r \in overtaken]_vars

BothCancelled(r, q) ==
  /\ response[r] = "cancelled" /\ response[q] = "cancelled"
  /\ Order(r) = Order(q) /\ r # q

\* "Already-cancelled order fails": one request at most is told that it has
\* cancelled the order.
CancelledOnce == \A r, q \in Requests : ~BothCancelled(r, q)

\* The same, as far as the code keeps it: of two that are told so, one was
\* overtaken while it waited.
CancelledOnceAlone ==
  \A r, q \in Requests : BothCancelled(r, q) => r \in overtaken \/ q \in overtaken

\* The inductive invariant: a request that is past the lookup is the owner's,
\* past the challenge verified, and has answered only when it is over.
PlaceInv ==
  \A r \in Requests :
    /\ pc[r] \in {"challenge", "mutate", "commit"} =>
         /\ context[r].tenant = orders[Order(r)].tenant
         /\ context[r].user = orders[Order(r)].user
         /\ response[r] = "none"
    /\ pc[r] = "lookup" => response[r] = "none"
    /\ pc[r] \in {"mutate", "commit"} => r \in verified
    /\ pc[r] # "idle" => context[r] # Absent
    /\ pc[r] = "idle" => response[r] = "none"
    /\ r \in cancelled_by => pc[r] = "done"
    /\ updating[r] => pc[r] = "commit"

\* What a request that is not overtaken has validated still holds.
WaitInv ==
  \A r \in Requests \ overtaken :
    pc[r] \in {"challenge", "mutate", "commit"} => Cancellable(orders[Order(r)])

IInv ==
  /\ TypeOK
  /\ PlaceInv
  /\ CancelledByOwner
  /\ AnswerTrue
  /\ WaitInv
  /\ CancelledOnceAlone
=============================================================================
