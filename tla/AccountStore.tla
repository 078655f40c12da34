---------------------------- MODULE AccountStore ----------------------------
(***************************************************************************)
(* The tables of a tenant's account and the transactions on them: what     *)
(* app/saas and app/billing share.                                         *)
(*                                                                         *)
(* Every request has a database session of its own (app/db/session.py).    *)
(* What it writes waits in the session's transaction until get_session     *)
(* commits, after the answer has gone out.  A row it has updated, and a    *)
(* unique key it has inserted, make other transactions wait.  A row is     *)
(* named after the request that inserts it: none inserts two in one table. *)
(***************************************************************************)
EXTENDS Integers, FiniteSets

CONSTANTS
  Requests,
  Mixes,          \* which calls are made side by side, and with which provider
  Tenants, Nil,   \* tenant ids; a missing one
  Slugs,
  Users,          \* the ids in the table of users
  Sessions,       \* the checkout sessions that were completed at Stripe
  Events,         \* the ids of Stripe's events
  Faults,         \* which failures of the environment may occur
  MaxTime,        \* bound on the clock
  Never,          \* a time that is NULL
  Absent

\* The values of BILLING_PROVIDER, and stripe without its key.
Providers == {"mock", "stripe", "stripe_unset"}

FaultKinds == {"statement", "commit", "process", "provider"}

Tables ==
  {"tenants", "subscriptions", "tenant_members", "projects", "api_keys",
   "audit_events", "security_events", "sql_airlock_events", "rate_limit_events",
   "billing_subscriptions", "billing_invoices", "billing_events"}

Times == 0 .. MaxTime
OptionalTimes == Times \cup {Never}

Permissions == {"billing.manage", "billing.read"}

\* subject: the slug, user, key, project, text, feature, number, session or event a call is about.
Request(ops, tenants, subjects, plans) ==
  [op : ops, tenant : tenants, subject : subjects, plan : plans, permissions : SUBSET Permissions]

ASSUME NilAssumption == Nil \notin Tenants
ASSUME AccountFaultsAssumption == Faults \subseteq FaultKinds
ASSUME AccountTimeAssumption == MaxTime \in Nat /\ Never \notin Nat

VARIABLES
  call,       \* what each request asks
  pc,         \* where it is
  reply,      \* what it was told
  draft,      \* per table, the row its open transaction has written
  snapshot,   \* the billing_subscriptions row it has loaded
  info,       \* the SubscriptionInfo the provider gave it
  db,         \* per table, the committed rows
  clock,
  provider,   \* settings.BILLING_PROVIDER
  contracts,  \* Stripe's subscriptions, one for each completed checkout session
  told,       \* history: what the committed changes of a tenant's subscription came to
  overlaps,   \* history: changes of one tenant, the second begun before the first was over
  closed      \* history: checks of a key that began after it was revoked

request == <<call, pc, reply, draft, snapshot, info>>
world == <<clock, provider, contracts>>
history == <<told, overlaps, closed>>
vars == <<call, pc, reply, draft, snapshot, info, db, clock, provider, contracts,
          told, overlaps, closed>>

\* The label of an operation that is one step is its name.
Waiting == {"idle", "done"}
Ending == {"commit", "rollback"}
InFlight(r) == pc[r] \notin Waiting

Goto(r, label) == pc' = [pc EXCEPT ![r] = label]
Answer(r, a) == reply' = [reply EXCEPT ![r] = a]
At(r, label) == pc[r] = label

\* An answer that goes out before the commit, and one that is an exception.
Succeed(r, a) == Answer(r, a) /\ Goto(r, "commit")
Refuse(r, a) == Answer(r, a) /\ Goto(r, "rollback")

-----------------------------------------------------------------------------
(* Rows *)

NoDraft == [t \in Tables |-> Absent]

\* An INSERT gives every attribute, an UPDATE those that differ.
Write(r, table, id, values) ==
  draft' = [draft EXCEPT ![r][table] = [id |-> id, values |-> values]]

Patch(row, values) ==
  IF row = Absent THEN values
  ELSE [f \in DOMAIN row |-> IF f \in DOMAIN values THEN values[f] ELSE row[f]]

\* The unit of work compares each attribute with the one it loaded.
Changed(old, new) == [f \in { g \in DOMAIN new : new[g] # old[g] } |-> new[f]]

Rows(table) == { i \in Requests : db[table][i] # Absent }
RowFree(r, table, i) ==
  \A q \in Requests \ {r} : draft[q][table] # Absent => draft[q][table].id # i

\* What the tables hold once the transaction of r is committed.
Merged(r) ==
  [t \in Tables |->
     [i \in Requests |->
        IF draft[r][t] # Absent /\ draft[r][t].id = i
        THEN Patch(db[t][i], draft[r][t].values)
        ELSE db[t][i]]]

-----------------------------------------------------------------------------
(* The session of a request *)

Writes(r) == call[r].op \in {"activate", "cancel"}
Rivals(r) ==
  { q \in Requests \ {r} : InFlight(q) /\ Writes(q) /\ call[q].tenant = call[r].tenant }

\* What the provider's word makes of what was told before: a cancellation's plan is
\* not a word the service keeps.
Word(r) ==
  IF call[r].op = "activate" THEN info[r]
  ELSE [told[call[r].tenant] EXCEPT !.status = info[r].status,
                                    !.cancel_at_period_end = info[r].cancel_at_period_end]

Heard(r, kept) ==
  told' = IF kept /\ info[r] # Absent THEN [told EXCEPT ![call[r].tenant] = Word(r)] ELSE told

\* Faulty variant: the session is not closed.
CloseKeepingDraft(r, kept) ==
  /\ Goto(r, "done")
  /\ Heard(r, kept)
  /\ UNCHANGED <<call, draft, snapshot, info, world, overlaps, closed>>

\* The transaction of r is over, and the request with what it has loaded.
Close(r, kept) ==
  /\ draft' = [draft EXCEPT ![r] = NoDraft]
  /\ snapshot' = [snapshot EXCEPT ![r] = Absent]
  /\ info' = [info EXCEPT ![r] = Absent]
  /\ Goto(r, "done")
  /\ Heard(r, kept)
  /\ UNCHANGED <<call, world, overlaps, closed>>

Commit(r) ==
  /\ At(r, "commit")
  /\ db' = Merged(r)
  /\ Close(r, TRUE)
  /\ UNCHANGED reply

\* COMMIT raises: it was refused, or only its answer was lost.  The answer is out.
CommitFails(r) ==
  /\ "commit" \in Faults
  /\ At(r, "commit")
  /\ \/ db' = Merged(r) /\ Close(r, TRUE)
     \/ UNCHANGED db /\ Close(r, FALSE)
  /\ UNCHANGED reply

Rollback(r) ==
  /\ At(r, "rollback")
  /\ Close(r, FALSE)
  /\ UNCHANGED <<reply, db>>

\* Steps that ask the provider, or nobody, and not the database.
Asking == {"checkout", "activate", "cancel", "invoice"}

StatementFails(r) ==
  /\ "statement" \in Faults
  /\ InFlight(r) /\ pc[r] \notin Asking \cup Ending
  /\ Refuse(r, "error")
  /\ UNCHANGED <<call, draft, snapshot, info, db, world, history>>

ProcessDies(r) ==
  /\ "process" \in Faults
  /\ InFlight(r)
  /\ Close(r, FALSE)
  /\ UNCHANGED <<reply, db>>

Tick ==
  /\ clock < MaxTime
  /\ clock' = clock + 1
  /\ UNCHANGED <<request, db, provider, contracts, history>>
=============================================================================
