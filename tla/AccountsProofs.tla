--------------------------- MODULE AccountsProofs ---------------------------
(***************************************************************************)
(* Proofs about Accounts, for every set of requests, tenants, slugs, users,*)
(* checkout sessions and events, every mix of calls and every combination  *)
(* of faults.                                                              *)
(***************************************************************************)
EXTENDS Accounts, WellFoundedInduction, TLAPS

-----------------------------------------------------------------------------
(* The inductive invariant *)

\* What Stripe knows is named after a checkout session.
ContractOf == IF provider = "stripe" THEN Sessions ELSE Contracts

Billed(row) == row.provider_subscription_id \in ContractOf
StoredRows(t) ==
  IF t = "billing_subscriptions" THEN { row \in BillingSubscriptionRows : Billed(row) }
  ELSE Rowsets[t]

KnownInfos == { i \in Infos : i.provider_subscription_id \in ContractOf }

Loaded(s) ==
  /\ s.id \in Rows("billing_subscriptions")
  /\ s.row \in StoredRows("billing_subscriptions")

Shapes ==
  /\ call \in [Requests -> RoutedCalls \cup DirectCalls]
  /\ provider \in Providers
  /\ clock \in Times
  /\ DOMAIN pc = Requests /\ DOMAIN reply = Requests
  /\ DOMAIN snapshot = Requests /\ DOMAIN info = Requests
  /\ DOMAIN draft = Requests /\ \A r \in Requests : DOMAIN draft[r] = Tables
  /\ DOMAIN db = Tables /\ \A t \in Tables : DOMAIN db[t] = Requests
  /\ contracts \in [Sessions -> [status : Statuses, ending : BOOLEAN]]
  /\ closed \subseteq Requests

\* Where a request is tells what it asks and what it knows.
Placed(r) ==
  /\ pc[r] \in {"slug", "insert_tenant", "insert_trial"} => call[r].op = "create_tenant"
  /\ pc[r] \in {"activate", "find", "store"} => call[r].op = "activate"
  /\ pc[r] = "checkout" => call[r].op = "checkout"
  /\ pc[r] = "webhook" => call[r].op = "webhook"
  /\ pc[r] \in {"find_live", "cancel", "store_cancellation", "invoice"} =>
       call[r].op \in {"cancel", "generate_invoice"}
  /\ pc[r] \in {"find", "store", "store_cancellation"} => info[r] \in KnownInfos
  /\ pc[r] \in {"cancel", "invoice", "store_cancellation"} => Loaded(snapshot[r])
  /\ pc[r] \in {"idle", "activate", "find"} => snapshot[r] = Absent
  /\ pc[r] = "store" => snapshot[r] = Absent \/ Loaded(snapshot[r])
  /\ pc[r] \notin {"insert_trial", "commit", "rollback"} => draft[r] = NoDraft
  /\ pc[r] = "idle" => reply[r] = "none"

\* A draft is a new row, or a change that fits a row there is.
Inserts(r, t) ==
  /\ draft[r][t].id = r
  /\ draft[r][t].values \in StoredRows(t)
  /\ t = "tenants" =>
       /\ call[r].op = "create_tenant"
       /\ draft[r][t].values = NewTenant(r)
       /\ Bearing(call[r].subject) = {}
  /\ t = "subscriptions" => draft[r]["tenants"] # Absent

Fits(t, values) ==
  /\ \A row \in StoredRows(t) : Patch(row, values) \in StoredRows(t)
  /\ t = "api_keys" =>
       \A row \in ApiKeyRows : LET new == Patch(row, values)
                               IN  new.tenant = row.tenant /\ new.revoked_at # Never

Updates(r, t) ==
  /\ t \in {"api_keys", "billing_subscriptions"}
  /\ draft[r][t].id \in Rows(t)
  /\ Fits(t, draft[r][t].values)

Drafted(r) ==
  /\ \A t \in Tables : draft[r][t] # Absent => Inserts(r, t) \/ Updates(r, t)
  /\ pc[r] = "insert_trial" => draft[r]["tenants"] # Absent
  /\ pc[r] = "commit" /\ draft[r]["tenants"] # Absent => draft[r]["subscriptions"] # Absent

Answered(r) ==
  /\ call[r].op = "create_tenant" /\ reply[r] \in {"taken", "integrity"} =>
       Bearing(call[r].subject) # {}
  /\ reply[r] = "revoked" =>
       /\ call[r].subject \in Rows("api_keys")
       /\ db["api_keys"][call[r].subject].tenant = call[r].tenant
  /\ r \in closed =>
       call[r].op = "verify_api_key" /\ Revoked(call[r].subject) /\ reply[r] # "valid"

RequestInv(r) == Placed(r) /\ Drafted(r) /\ Answered(r)

\* The committed rows; only a request that is over has one.
Committed ==
  /\ \A t \in Tables : \A i \in Rows(t) : db[t][i] \in StoredRows(t) /\ pc[i] = "done"
  /\ \A i \in Rows("tenants") : db["tenants"][i].slug = call[i].subject
  /\ \A i, j \in Rows("tenants") : db["tenants"][i].slug = db["tenants"][j].slug => i = j
  /\ Rows("tenants") = Rows("subscriptions")

\* The unique key holds among the drafts, too.
SlugsApart ==
  \A q, r \in Requests :
    draft[q]["tenants"] # Absent /\ draft[r]["tenants"] # Absent
    /\ call[q].subject = call[r].subject => q = r

IInv == Shapes /\ Committed /\ SlugsApart /\ \A r \in Requests : RequestInv(r)

-----------------------------------------------------------------------------
(* Rows *)

USE NilAssumption, AccountFaultsAssumption, AccountTimeAssumption

LEMMA RowsStay ==
  ASSUME provider' = provider
  PROVE  /\ \A t \in Tables : StoredRows(t)' = StoredRows(t)
         /\ ContractOf' = ContractOf /\ KnownInfos' = KnownInfos
         /\ \A t \in Tables : \A v : Fits(t, v)' = Fits(t, v)
<1>1. ContractOf' = ContractOf
  BY DEF ContractOf
<1>2. \A row : Billed(row)' = Billed(row)
  BY <1>1 DEF Billed
<1>3. { row \in BillingSubscriptionRows : Billed(row) }' = { row \in BillingSubscriptionRows : Billed(row) }
  BY <1>2
<1>4. \A t \in Tables : StoredRows(t)' = StoredRows(t)
  BY <1>3 DEF StoredRows
<1>5. KnownInfos' = KnownInfos
  BY <1>1 DEF KnownInfos
<1> QED
  BY <1>1, <1>4, <1>5 DEF Fits

LEMMA StoredRowsAre ==
  ASSUME NEW t \in Tables
  PROVE  Absent \notin StoredRows(t) /\ StoredRows(t) \subseteq Rowsets[t]
  BY AbsentAssumption DEF StoredRows, Rowsets

LEMMA RowsetsAre ==
  /\ StoredRows("tenants") = TenantRows /\ StoredRows("subscriptions") = SubscriptionRows
  /\ StoredRows("tenant_members") = MemberRows /\ StoredRows("projects") = ProjectRows
  /\ StoredRows("api_keys") = ApiKeyRows /\ StoredRows("audit_events") = AuditEvents
  /\ StoredRows("security_events") = SecurityEvents
  /\ StoredRows("sql_airlock_events") = SqlAirlockEvents
  /\ StoredRows("rate_limit_events") = RateLimitEvents
  /\ StoredRows("billing_invoices") = BillingInvoiceRows
  /\ StoredRows("billing_events") = BillingEventRows
  /\ StoredRows("billing_subscriptions") = { row \in BillingSubscriptionRows : Billed(row) }
  BY DEF StoredRows, Rowsets

\* What a call of each operation is about.
LEMMA CallTypes ==
  ASSUME Shapes, NEW r \in Requests
  PROVE  /\ call[r].op = "create_tenant" => call[r].subject \in Slugs
         /\ call[r].op \in {"invite_member", "create_project", "create_api_key", "revoke_api_key",
              "persist_audit_event", "persist_security_event", "persist_sql_airlock_event",
              "persist_rate_limit_event"} => call[r].tenant \in Tenants \cup {Nil}
         /\ call[r].op = "create_api_key" => call[r].subject \in OptionalTimes
         /\ call[r].op \in {"persist_audit_event", "persist_security_event",
              "persist_sql_airlock_event", "persist_rate_limit_event"} => call[r].subject \in Texts
         /\ call[r].op \in {"activate", "cancel", "generate_invoice"} => call[r].tenant \in Tenants
         /\ call[r].op = "activate" => call[r].plan \in Plans
         /\ call[r].op = "webhook" => call[r].tenant \in Tenants \cup {Nil}
         /\ call[r].op \notin
              {"slug", "insert_tenant", "insert_trial", "commit", "rollback", "idle", "done", "find",
               "store", "find_live", "invoice", "store_cancellation"}
<1>1. call[r] \in RoutedCalls \cup DirectCalls
  BY DEF Shapes
<1> QED
  BY <1>1 DEF RoutedCalls, DirectCalls, CreateCheckoutRequest, ActivateSubscriptionRequest,
       SubscriptionCalls, WebhookCalls, TenantCreate, MemberCalls, ProjectCalls, ApiKeyCreate, KeyCalls,
       EventCreate, TenantCalls, LimitCalls, FeatureCalls, Request, Someone

-----------------------------------------------------------------------------
(* One request moves *)

\* Of what requests keep, nothing but r's changes.
Alone(r) ==
  /\ call' = call /\ provider' = provider
  /\ clock' \in Times /\ contracts' \in [Sessions -> [status : Statuses, ending : BOOLEAN]]
  /\ DOMAIN pc' = Requests /\ DOMAIN reply' = Requests
  /\ DOMAIN snapshot' = Requests /\ DOMAIN info' = Requests
  /\ DOMAIN draft' = Requests /\ DOMAIN draft'[r] = Tables
  /\ closed' \subseteq Requests
  /\ \A q \in Requests \ {r} :
       /\ pc'[q] = pc[q] /\ reply'[q] = reply[q] /\ draft'[q] = draft[q]
       /\ snapshot'[q] = snapshot[q] /\ info'[q] = info[q]
       /\ q \in closed' <=> q \in closed

\* What q keeps lasts.
Untouched(q) ==
  /\ call' = call /\ provider' = provider
  /\ pc'[q] = pc[q] /\ reply'[q] = reply[q] /\ draft'[q] = draft[q]
  /\ snapshot'[q] = snapshot[q] /\ info'[q] = info[q]
  /\ q \in closed' <=> q \in closed

\* Rows are added, and what the invariant says of one lasts.
Grows ==
  /\ \A t \in Tables : Rows(t) \subseteq Rows(t)'
  /\ \A i \in Rows("tenants") : db'["tenants"][i].slug = db["tenants"][i].slug
  /\ \A i \in Rows("api_keys") :
       /\ db'["api_keys"][i].tenant = db["api_keys"][i].tenant
       /\ db["api_keys"][i].revoked_at # Never => db'["api_keys"][i].revoked_at # Never

\* A new tenant has a slug that no draft of another request has.
NewSlugs(r) ==
  \A i \in Rows("tenants")' \ Rows("tenants") :
    /\ draft[r]["tenants"] # Absent
    /\ db'["tenants"][i].slug = call[r].subject

FreshSlugs(q) ==
  \A i \in Rows("tenants")' \ Rows("tenants") :
    draft[q]["tenants"] # Absent => db'["tenants"][i].slug # call[q].subject

LEMMA LoadedLasts ==
  ASSUME provider' = provider, Grows, NEW s, Loaded(s)
  PROVE  s.id \in Rows("billing_subscriptions")' /\ s.row \in StoredRows("billing_subscriptions")'
<1>1. s.id \in Rows("billing_subscriptions")'
  BY DEF Loaded, Grows, Tables
<1>2. s.row \in StoredRows("billing_subscriptions")'
  BY RowsStay DEF Loaded, Tables
<1> QED
  BY <1>1, <1>2

LEMMA PlacedLasts ==
  ASSUME IInv, NEW q \in Requests, Untouched(q), Grows
  PROVE  Placed(q)'
<1>1. /\ call' = call /\ pc'[q] = pc[q] /\ reply'[q] = reply[q] /\ draft'[q] = draft[q]
      /\ snapshot'[q] = snapshot[q] /\ info'[q] = info[q] /\ provider' = provider
  BY DEF Untouched
<1>2. Placed(q)
  BY DEF IInv, RequestInv
<1>3. Loaded(snapshot[q]) => Loaded(snapshot[q])'
  BY <1>1, LoadedLasts DEF Loaded
<1>4. KnownInfos' = KnownInfos
  BY <1>1, RowsStay
<1> QED
  BY <1>1, <1>2, <1>3, <1>4 DEF Placed, NoDraft

LEMMA AnsweredLasts ==
  ASSUME IInv, NEW q \in Requests, Untouched(q), Grows
  PROVE  Answered(q)'
<1>1. call' = call /\ reply'[q] = reply[q] /\ (q \in closed' <=> q \in closed)
  BY DEF Untouched
<1>2. Answered(q)
  BY DEF IInv, RequestInv
<1>3. /\ "tenants" \in Tables /\ "api_keys" \in Tables
  BY DEF Tables
<1>4. Bearing(call[q].subject) # {} => Bearing(call[q].subject)' # {}
  BY <1>1, <1>3 DEF Bearing, Grows
<1>5. Revoked(call[q].subject) => Revoked(call[q].subject)'
  BY <1>1, <1>3 DEF Revoked, Grows
<1>6. /\ call[q].subject \in Rows("api_keys") /\ db["api_keys"][call[q].subject].tenant = call[q].tenant
      => /\ call'[q].subject \in Rows("api_keys")'
         /\ db'["api_keys"][call'[q].subject].tenant = call'[q].tenant
  BY <1>1, <1>3 DEF Grows
<1> QED
  BY <1>1, <1>2, <1>4, <1>5, <1>6 DEF Answered

LEMMA DraftedLasts ==
  ASSUME IInv, NEW q \in Requests, Untouched(q), Grows, FreshSlugs(q)
  PROVE  Drafted(q)'
<1>1. /\ call' = call /\ draft'[q] = draft[q] /\ pc'[q] = pc[q] /\ provider' = provider
  BY DEF Untouched
<1>2. Drafted(q)
  BY DEF IInv, RequestInv
<1>3. \A t \in Tables : Inserts(q, t) /\ draft[q][t] # Absent => Inserts(q, t)'
  <2> SUFFICES ASSUME NEW t \in Tables, Inserts(q, t), draft[q][t] # Absent PROVE Inserts(q, t)'
    OBVIOUS
  <2>1. StoredRows(t)' = StoredRows(t)
    BY <1>1, RowsStay
  <2>2. t = "tenants" => Bearing(call[q].subject)' = {}
    <3> SUFFICES ASSUME t = "tenants", NEW i \in Rows("tenants")',
                        db'["tenants"][i].slug = call[q].subject
                 PROVE  FALSE
      BY <1>1 DEF Bearing
    <3>1. i \notin Rows("tenants")
      BY DEF Inserts, Bearing, Grows
    <3> QED
      BY <3>1 DEF FreshSlugs
  <2>3. NewTenant(q)' = NewTenant(q)
    BY <1>1 DEF NewTenant
  <2> QED
    BY <1>1, <2>1, <2>2, <2>3 DEF Inserts
<1>4. \A t \in Tables : Updates(q, t) => Updates(q, t)'
  <2> SUFFICES ASSUME NEW t \in Tables, Updates(q, t) PROVE Updates(q, t)'
    OBVIOUS
  <2>1. \A v : Fits(t, v)' = Fits(t, v)
    BY <1>1, RowsStay
  <2>2. \A v : v = draft[q][t].values => Fits(t, v)'
    BY <2>1 DEF Updates
  <2>3. Fits(t, draft[q][t].values)'
    BY <1>1, <2>2 DEF Fits
  <2>4. draft[q][t].id \in Rows(t)'
    BY DEF Updates, Grows
  <2> QED
    BY <1>1, <2>3, <2>4 DEF Updates
<1> QED
  BY <1>1, <1>2, <1>3, <1>4 DEF Drafted

LEMMA RequestLasts ==
  ASSUME IInv, NEW q \in Requests, Untouched(q), Grows, FreshSlugs(q)
  PROVE  RequestInv(q)'
  BY PlacedLasts, AnsweredLasts, DraftedLasts DEF RequestInv

LEMMA OthersKeep ==
  ASSUME IInv, NEW r \in Requests, Alone(r), Grows, NewSlugs(r)
  PROVE  \A q \in Requests \ {r} : RequestInv(q)'
<1> SUFFICES ASSUME NEW q \in Requests \ {r} PROVE RequestInv(q)'
  OBVIOUS
<1>1. Untouched(q)
  BY DEF Alone, Untouched
<1>2. FreshSlugs(q)
  BY DEF NewSlugs, FreshSlugs, IInv, SlugsApart
<1> QED
  BY <1>1, <1>2, RequestLasts

LEMMA SameRows ==
  ASSUME IInv, NEW r \in Requests, Alone(r), db' = db, pc[r] # "done"
  PROVE  Grows /\ NewSlugs(r) /\ Committed' /\ Shapes'
<1>1. call' = call /\ provider' = provider
  BY DEF Alone
<1>2. \A t \in Tables : Rows(t)' = Rows(t)
  BY DEF Rows
<1>3. Rows("tenants")' = Rows("tenants") /\ Rows("subscriptions")' = Rows("subscriptions")
  BY <1>2 DEF Tables
<1>4. Grows /\ NewSlugs(r)
  BY <1>2, <1>3 DEF Grows, NewSlugs
<1>5. Committed'
  <2>1. ASSUME NEW t \in Tables, NEW i \in Rows(t)
        PROVE  db'[t][i] \in StoredRows(t)' /\ pc'[i] = "done"
    <3>1. db[t][i] \in StoredRows(t) /\ pc[i] = "done" /\ i \in Requests
      BY DEF IInv, Committed, Rows
    <3>2. StoredRows(t)' = StoredRows(t)
      BY <1>1, RowsStay
    <3> QED
      BY <3>1, <3>2 DEF Alone
  <2> QED
    BY <1>1, <1>2, <1>3, <2>1 DEF IInv, Committed
<1>6. Shapes'
  <2>1. \A q \in Requests : DOMAIN draft'[q] = Tables
    BY DEF IInv, Shapes, Alone
  <2> QED
    BY <2>1 DEF IInv, Shapes, Alone
<1> QED
  BY <1>4, <1>5, <1>6

\* An answer that promises nothing, or whose promise is kept.
Honest(r, a) ==
  /\ a \in {"taken", "integrity"} /\ call[r].op = "create_tenant" => Bearing(call[r].subject) # {}
  /\ a = "revoked" => /\ call[r].subject \in Rows("api_keys")
                      /\ db["api_keys"][call[r].subject].tenant = call[r].tenant
  /\ a = "valid" => r \notin closed

LEMMA HonestKeeps ==
  ASSUME IInv, NEW r \in Requests, call' = call, db' = db, closed' = closed,
         reply'[r] = reply[r] \/ Honest(r, reply'[r])
  PROVE  Answered(r)'
<1>1. Answered(r)
  BY DEF IInv, RequestInv
<1>2. Bearing(call[r].subject)' = Bearing(call[r].subject)
  BY DEF Bearing, Rows
<1>3. Revoked(call[r].subject)' = Revoked(call[r].subject)
  BY DEF Revoked, Rows
<1>4. Rows("api_keys")' = Rows("api_keys")
  BY DEF Rows
<1> QED
  BY <1>1, <1>2, <1>3, <1>4 DEF Answered, Honest

\* Neither rows nor drafts change.
LEMMA QuietKeeps ==
  ASSUME IInv, NEW r \in Requests, Alone(r), db' = db, draft' = draft, pc[r] # "done",
         pc'[r] # "insert_trial",
         pc'[r] = "commit" => draft[r] = NoDraft,
         Placed(r)', Answered(r)'
  PROVE  IInv'
<1>1. Grows /\ NewSlugs(r) /\ Committed' /\ Shapes'
  BY SameRows
<1>2. \A q \in Requests \ {r} : RequestInv(q)'
  BY <1>1, OthersKeep
<1>3. call' = call /\ provider' = provider
  BY DEF Alone
<1>4. Drafted(r)'
  <2>1. Drafted(r)
    BY DEF IInv, RequestInv
  <2>2. \A t \in Tables : Inserts(r, t) => Inserts(r, t)'
    <3>1. \A t \in Tables : StoredRows(t)' = StoredRows(t)
      BY <1>3, RowsStay
    <3>2. Bearing(call[r].subject)' = Bearing(call[r].subject) /\ NewTenant(r)' = NewTenant(r)
      BY <1>3 DEF Bearing, Rows, NewTenant
    <3> QED
      BY <1>3, <3>1, <3>2 DEF Inserts
  <2>3. \A t \in Tables : Updates(r, t) => Updates(r, t)'
    <3>1. \A t \in Tables : Rows(t)' = Rows(t)
      BY DEF Rows
    <3>2. \A t \in Tables : \A v : Fits(t, v)' = Fits(t, v)
      BY <1>3, RowsStay
    <3>3. \A t \in Tables : \A v : v = draft[r][t].values /\ Fits(t, v) => Fits(t, v)'
      BY <3>2
    <3>4. \A t \in Tables : Fits(t, draft[r][t].values) => Fits(t, draft[r][t].values)'
      BY <3>3 DEF Fits
    <3> QED
      BY <3>1, <3>4 DEF Updates
  <2>4. "tenants" \in Tables
    BY DEF Tables
  <2> QED
    BY <2>1, <2>2, <2>3, <2>4 DEF Drafted, NoDraft
<1>5. SlugsApart'
  BY <1>3 DEF IInv, SlugsApart
<1> QED
  BY <1>1, <1>2, <1>4, <1>5 DEF IInv, RequestInv

\* The request answers, and only its transaction is left to end.
LEMMA EndingKeeps ==
  ASSUME IInv, NEW r \in Requests, Alone(r), db' = db, draft' = draft, closed' = closed,
         pc[r] # "done", pc'[r] \in Ending,
         pc'[r] = "commit" => pc[r] \notin {"insert_trial", "rollback"} \cup Ending,
         reply'[r] = reply[r] \/ Honest(r, reply'[r])
  PROVE  IInv'
<1>1. pc'[r] = "commit" => draft[r] = NoDraft
  BY DEF IInv, RequestInv, Placed, Ending
<1>2. Placed(r)'
  BY DEF Placed, Ending
<1>3. Answered(r)'
  BY HonestKeeps DEF Alone
<1> QED
  BY <1>1, <1>2, <1>3, QuietKeeps DEF Ending

\* One row is drafted.
LEMMA WriteKeeps ==
  ASSUME IInv, NEW r \in Requests, Alone(r), db' = db, closed' = closed, pc[r] # "done",
         NEW table \in Tables, NEW id, NEW values, Write(r, table, id, values),
         draft'[r][table] # Absent,
         Inserts(r, table)' \/ Updates(r, table)',
         pc'[r] \in {"insert_trial", "commit"},
         pc'[r] = "insert_trial" => table = "tenants",
         pc'[r] = "commit" /\ draft'[r]["tenants"] # Absent => table = "subscriptions",
         table = "tenants" => ~SlugHeld(r) /\ \A q \in Requests : draft[q]["tenants"] # Absent =>
                                 draft[q]["tenants"].values.slug = call[q].subject,
         Placed(r)', reply'[r] = reply[r] \/ Honest(r, reply'[r])
  PROVE  IInv'
<1>1. Grows /\ NewSlugs(r) /\ Committed' /\ Shapes'
  BY SameRows
<1>2. \A q \in Requests \ {r} : RequestInv(q)'
  BY <1>1, OthersKeep
<1>3. call' = call /\ provider' = provider
  BY DEF Alone
<1>4. Answered(r)'
  BY <1>3, HonestKeeps
<1>5. DOMAIN draft = Requests /\ DOMAIN draft[r] = Tables
  BY DEF IInv, Shapes
<1>6. \A t \in Tables \ {table} : draft'[r][t] = draft[r][t]
  BY <1>5 DEF Write
<1>7. Drafted(r)'
  <2>1. Drafted(r)
    BY DEF IInv, RequestInv
  <2>2. \A t \in Tables \ {table} : Inserts(r, t) => Inserts(r, t)'
    <3>1. \A t \in Tables : StoredRows(t)' = StoredRows(t)
      BY <1>3, RowsStay
    <3>2. Bearing(call[r].subject)' = Bearing(call[r].subject) /\ NewTenant(r)' = NewTenant(r)
      BY <1>3 DEF Bearing, Rows, NewTenant
    <3>3. draft[r]["tenants"] # Absent => draft'[r]["tenants"] # Absent
      BY <1>6 DEF Tables
    <3> QED
      BY <1>3, <1>6, <3>1, <3>2, <3>3 DEF Inserts
  <2>3. \A t \in Tables \ {table} : Updates(r, t) => Updates(r, t)'
    <3>1. \A t \in Tables : Rows(t)' = Rows(t)
      BY DEF Rows
    <3>2. \A t \in Tables : \A v : Fits(t, v)' = Fits(t, v)
      BY <1>3, RowsStay
    <3>3. \A t \in Tables : \A v : v = draft[r][t].values /\ Fits(t, v) => Fits(t, v)'
      BY <3>2
    <3>4. \A t \in Tables \ {table} :
            Fits(t, draft[r][t].values) => Fits(t, draft[r][t].values)'
      BY <1>6, <3>3 DEF Fits
    <3> QED
      BY <1>6, <3>1, <3>4 DEF Updates
  <2>4. \A t \in Tables : draft'[r][t] # Absent => Inserts(r, t)' \/ Updates(r, t)'
    BY <1>6, <2>1, <2>2, <2>3 DEF Drafted
  <2> QED
    BY <2>4 DEF Drafted
<1>8. SlugsApart'
  <2>1. \A q \in Requests \ {r} : draft'[q] = draft[q]
    BY DEF Alone
  <2>2. table # "tenants" => draft'[r]["tenants"] = draft[r]["tenants"]
    BY <1>6 DEF Tables
  <2>3. CASE table # "tenants"
    BY <1>3, <2>1, <2>2, <2>3 DEF IInv, SlugsApart
  <2>4. CASE table = "tenants"
    <3>1. \A q \in Requests \ {r} : draft[q]["tenants"] # Absent => call[q].subject # call[r].subject
      BY <2>4 DEF SlugHeld
    <3> QED
      BY <1>3, <2>1, <3>1 DEF IInv, SlugsApart
  <2> QED
    BY <2>3, <2>4
<1> QED
  BY <1>1, <1>2, <1>4, <1>7, <1>8 DEF IInv, RequestInv

\* A transaction is over, and nothing of it is kept.
LEMMA CloseKeeps ==
  ASSUME IInv, NEW r \in Requests, InFlight(r), Close(r, FALSE), UNCHANGED <<reply, db>>
  PROVE  IInv'
<1>1. /\ reply' = reply /\ db' = db /\ call' = call /\ closed' = closed /\ provider' = provider
      /\ pc' = [pc EXCEPT ![r] = "done"] /\ draft' = [draft EXCEPT ![r] = NoDraft]
      /\ snapshot' = [snapshot EXCEPT ![r] = Absent] /\ info' = [info EXCEPT ![r] = Absent]
      /\ clock' = clock /\ contracts' = contracts
  BY DEF Close, Goto, world
<1>2. pc[r] # "done"
  BY DEF InFlight, Waiting
<1>3. DOMAIN draft = Requests /\ DOMAIN pc = Requests
  BY DEF IInv, Shapes
<1>4. Alone(r)
  BY <1>1, <1>3 DEF IInv, Shapes, Alone, NoDraft
<1>5. Grows /\ NewSlugs(r) /\ Committed' /\ Shapes'
  BY <1>1, <1>2, <1>4, SameRows
<1>6. \A q \in Requests \ {r} : RequestInv(q)'
  BY <1>4, <1>5, OthersKeep
<1>7. pc'[r] = "done" /\ draft'[r] = NoDraft /\ NoDraft' = NoDraft
  BY <1>1, <1>3 DEF NoDraft
<1>8. Placed(r)' /\ Answered(r)'
  <2>1. Answered(r)'
    BY <1>1, HonestKeeps
  <2> QED
    BY <1>7, <2>1 DEF Placed
<1>9. Drafted(r)'
  BY <1>7 DEF Drafted, NoDraft, Tables
<1>10. SlugsApart'
  <2>1. draft'[r]["tenants"] = Absent
    BY <1>7 DEF NoDraft, Tables
  <2>2. \A q \in Requests \ {r} : draft'[q] = draft[q]
    BY <1>4 DEF Alone
  <2> QED
    BY <1>1, <2>1, <2>2 DEF IInv, SlugsApart
<1> QED
  BY <1>5, <1>6, <1>8, <1>9, <1>10 DEF IInv, RequestInv

\* What a draft makes of a table.
LEMMA MergedRows ==
  ASSUME IInv, NEW r \in Requests, At(r, "commit"), db' = Merged(r), provider' = provider
  PROVE  /\ DOMAIN db' = Tables /\ \A t \in Tables : DOMAIN db'[t] = Requests
         /\ \A t \in Tables : \A i \in Requests :
              \/ db'[t][i] = db[t][i]
              \/ /\ draft[r][t] # Absent /\ i = r /\ db[t][i] = Absent
                 /\ Inserts(r, t) /\ db'[t][i] = draft[r][t].values
              \/ /\ i \in Rows(t) /\ Updates(r, t) /\ db'[t][i] = Patch(db[t][i], draft[r][t].values)
         /\ \A t \in Tables : draft[r][t] # Absent /\ Inserts(r, t) => db'[t][r] = draft[r][t].values
<1>1. /\ DOMAIN db' = Tables /\ \A t \in Tables : DOMAIN db'[t] = Requests
      /\ \A t \in Tables, i \in Requests :
           db'[t][i] = IF draft[r][t] # Absent /\ draft[r][t].id = i
                       THEN Patch(db[t][i], draft[r][t].values) ELSE db[t][i]
  BY DEF Merged
<1>2. \A t \in Tables : draft[r][t] # Absent => Inserts(r, t) \/ Updates(r, t)
  BY DEF IInv, RequestInv, Drafted
<1>3. \A t \in Tables : db[t][r] = Absent
  BY DEF IInv, Committed, Rows, At
<1>4. \A t \in Tables : \A i \in Requests :
        i # r /\ db'[t][i] # db[t][i] =>
          i \in Rows(t) /\ Updates(r, t) /\ db'[t][i] = Patch(db[t][i], draft[r][t].values)
  BY <1>1, <1>2 DEF Inserts, Updates
<1>5. \A t \in Tables :
        Updates(r, t) /\ draft[r][t].id = r => FALSE
  BY <1>3 DEF Updates, Rows
<1>6. \A v : Patch(Absent, v) = v
  BY DEF Patch
<1>7. \A t \in Tables : draft[r][t] # Absent /\ Inserts(r, t) => db'[t][r] = draft[r][t].values
  BY <1>1, <1>3, <1>6 DEF Inserts
<1>8. \A t \in Tables : db'[t][r] # db[t][r] => draft[r][t] # Absent /\ Inserts(r, t)
  BY <1>1, <1>2, <1>5 DEF Inserts
<1> QED
  BY <1>1, <1>3, <1>4, <1>7, <1>8

\* A draft becomes rows.
LEMMA CommitKeeps ==
  ASSUME IInv, NEW r \in Requests, At(r, "commit"), db' = Merged(r), Close(r, TRUE), reply' = reply
  PROVE  IInv'
<1>1. /\ call' = call /\ closed' = closed /\ provider' = provider
      /\ pc' = [pc EXCEPT ![r] = "done"] /\ draft' = [draft EXCEPT ![r] = NoDraft]
      /\ snapshot' = [snapshot EXCEPT ![r] = Absent] /\ info' = [info EXCEPT ![r] = Absent]
      /\ clock' = clock /\ contracts' = contracts
  BY DEF Close, Goto, world
<1>2. DOMAIN draft = Requests /\ DOMAIN pc = Requests
  BY DEF IInv, Shapes
<1>3. Alone(r)
  BY <1>1, <1>2 DEF IInv, Shapes, Alone, NoDraft
<1>4. /\ DOMAIN db' = Tables /\ \A t \in Tables : DOMAIN db'[t] = Requests
      /\ \A t \in Tables : \A i \in Requests :
           \/ db'[t][i] = db[t][i]
           \/ /\ draft[r][t] # Absent /\ i = r /\ db[t][i] = Absent
              /\ Inserts(r, t) /\ db'[t][i] = draft[r][t].values
           \/ /\ i \in Rows(t) /\ Updates(r, t) /\ db'[t][i] = Patch(db[t][i], draft[r][t].values)
      /\ \A t \in Tables : draft[r][t] # Absent /\ Inserts(r, t) => db'[t][r] = draft[r][t].values
  BY <1>1, MergedRows
<1>5. \A t \in Tables : \A i \in Rows(t) : db[t][i] \in StoredRows(t) /\ pc[i] = "done"
  BY DEF IInv, Committed
<1>6. \A t \in Tables : \A i \in Requests : i \in Rows(t)' => db'[t][i] \in StoredRows(t)
  BY <1>4, <1>5 DEF Rows, Inserts, Updates, Fits
<1>7. \A t \in Tables : \A i \in Requests :
        i \in Rows(t)' <=> i \in Rows(t) \/ (i = r /\ draft[r][t] # Absent /\ Inserts(r, t))
  <2> SUFFICES ASSUME NEW t \in Tables, NEW i \in Requests
               PROVE  i \in Rows(t)' <=>
                        i \in Rows(t) \/ (i = r /\ draft[r][t] # Absent /\ Inserts(r, t))
    OBVIOUS
  <2>1. Absent \notin StoredRows(t)
    BY StoredRowsAre
  <2>2. i \in Rows(t) => db'[t][i] # Absent
    <3>1. ASSUME i \in Rows(t), Updates(r, t) PROVE Patch(db[t][i], draft[r][t].values) # Absent
      BY <1>5, <2>1, <3>1 DEF Updates, Fits
    <3> QED
      BY <1>4, <3>1 DEF Rows
  <2>3. i = r /\ draft[r][t] # Absent /\ Inserts(r, t) => db'[t][i] # Absent
    BY <1>4, <2>1 DEF Inserts
  <2>4. i \in Rows(t)' => i \in Rows(t) \/ (i = r /\ draft[r][t] # Absent /\ Inserts(r, t))
    BY <1>4 DEF Rows
  <2> QED
    BY <2>2, <2>3, <2>4 DEF Rows
<1>8. "tenants" \in Tables /\ "subscriptions" \in Tables /\ "api_keys" \in Tables
  BY DEF Tables
<1>9. \A t \in Tables : Rows(t) \subseteq Requests /\ Rows(t)' \subseteq Requests
  BY DEF Rows
<1>10. \A i \in Rows("tenants") : db'["tenants"][i] = db["tenants"][i]
  BY <1>4, <1>8, <1>9 DEF Rows, Updates
<1>11. \A i \in Rows("tenants")' \ Rows("tenants") :
         /\ i = r /\ draft[r]["tenants"] # Absent /\ Inserts(r, "tenants")
         /\ db'["tenants"][i] = NewTenant(r)
  BY <1>4, <1>7, <1>8, <1>9 DEF Inserts
<1>12. Grows
  <2>1. \A i \in Rows("api_keys") :
          /\ db'["api_keys"][i].tenant = db["api_keys"][i].tenant
          /\ db["api_keys"][i].revoked_at # Never => db'["api_keys"][i].revoked_at # Never
    <3> SUFFICES ASSUME NEW i \in Rows("api_keys")
                 PROVE  /\ db'["api_keys"][i].tenant = db["api_keys"][i].tenant
                        /\ db["api_keys"][i].revoked_at # Never => db'["api_keys"][i].revoked_at # Never
      OBVIOUS
    <3>1. db["api_keys"][i] \in ApiKeyRows
      BY <1>5, <1>8, RowsetsAre
    <3>2. CASE db'["api_keys"][i] = db["api_keys"][i]
      BY <3>2
    <3>3. CASE /\ Updates(r, "api_keys")
               /\ db'["api_keys"][i] = Patch(db["api_keys"][i], draft[r]["api_keys"].values)
      BY <3>1, <3>3 DEF Updates, Fits
    <3> QED
      BY <1>4, <1>8, <1>9, <3>2, <3>3 DEF Rows
  <2> QED
    BY <1>7, <1>9, <1>10, <2>1 DEF Grows
<1>13. NewSlugs(r)
  BY <1>11 DEF NewSlugs, NewTenant
<1>14. \A q \in Requests \ {r} : RequestInv(q)'
  BY <1>3, <1>12, <1>13, OthersKeep
<1>15. pc'[r] = "done" /\ draft'[r] = NoDraft /\ NoDraft' = NoDraft
  BY <1>1, <1>2 DEF NoDraft
<1>16. Answered(r)'
  <2>1. Answered(r)
    BY DEF IInv, RequestInv
  <2>2. Bearing(call[r].subject) # {} => Bearing(call[r].subject)' # {}
    BY <1>1, <1>8, <1>12 DEF Bearing, Grows
  <2>3. Revoked(call[r].subject) => Revoked(call[r].subject)'
    BY <1>1, <1>8, <1>12 DEF Revoked, Grows
  <2>4. call[r].subject \in Rows("api_keys") /\ db["api_keys"][call[r].subject].tenant = call[r].tenant
        => /\ call'[r].subject \in Rows("api_keys")'
           /\ db'["api_keys"][call'[r].subject].tenant = call'[r].tenant
    BY <1>1, <1>8, <1>12 DEF Grows
  <2> QED
    BY <1>1, <2>1, <2>2, <2>3, <2>4 DEF Answered
<1>17. Placed(r)'
  BY <1>15 DEF Placed
<1>18. Drafted(r)'
  BY <1>15 DEF Drafted, NoDraft, Tables
<1>19. SlugsApart'
  <2>1. draft'[r]["tenants"] = Absent
    BY <1>15 DEF NoDraft, Tables
  <2>2. \A q \in Requests \ {r} : draft'[q] = draft[q]
    BY <1>3 DEF Alone
  <2> QED
    BY <1>1, <2>1, <2>2 DEF IInv, SlugsApart
<1>20. Committed'
  <2>1. \A t \in Tables : StoredRows(t)' = StoredRows(t)
    BY <1>1, RowsStay
  <2>2. \A t \in Tables : \A i \in Rows(t)' : db'[t][i] \in StoredRows(t)' /\ pc'[i] = "done"
    <3> SUFFICES ASSUME NEW t \in Tables, NEW i \in Rows(t)'
                 PROVE  db'[t][i] \in StoredRows(t)' /\ pc'[i] = "done"
      OBVIOUS
    <3>1. i \in Requests
      BY <1>9
    <3>2. db'[t][i] \in StoredRows(t)'
      BY <1>6, <2>1, <3>1
    <3>3. pc'[i] = "done"
      BY <1>1, <1>2, <1>5, <1>7, <3>1
    <3> QED
      BY <3>2, <3>3
  <2>3. \A i \in Rows("tenants")' : db'["tenants"][i].slug = call'[i].subject
    <3>1. \A i \in Rows("tenants") : db["tenants"][i].slug = call[i].subject
      BY DEF IInv, Committed
    <3> QED
      BY <1>1, <1>10, <1>11, <3>1 DEF NewTenant
  <2>4. \A i, j \in Rows("tenants")' : db'["tenants"][i].slug = db'["tenants"][j].slug => i = j
    <3>1. \A i, j \in Rows("tenants") : db["tenants"][i].slug = db["tenants"][j].slug => i = j
      BY DEF IInv, Committed
    <3>2. ASSUME Inserts(r, "tenants"), NEW j \in Rows("tenants"),
                 db["tenants"][j].slug = NewTenant(r).slug
          PROVE  FALSE
      BY <3>2 DEF Inserts, Bearing, NewTenant
    <3> QED
      BY <1>10, <1>11, <3>1, <3>2
  <2>5. Rows("tenants")' = Rows("subscriptions")'
    <3>1. Rows("tenants") = Rows("subscriptions")
      BY DEF IInv, Committed
    <3>2. Drafted(r)
      BY DEF IInv, RequestInv
    <3>3. draft[r]["tenants"] # Absent => Inserts(r, "tenants")
      BY <1>8, <3>2 DEF Drafted, Updates
    <3>4. draft[r]["subscriptions"] # Absent => Inserts(r, "subscriptions") /\ draft[r]["tenants"] # Absent
      BY <1>8, <3>2 DEF Drafted, Updates, Inserts
    <3>5. draft[r]["tenants"] # Absent => draft[r]["subscriptions"] # Absent
      BY <3>2 DEF Drafted, At
    <3>6. \A i \in Requests : i \in Rows("tenants")' <=> i \in Rows("subscriptions")'
      BY <1>7, <1>8, <3>1, <3>3, <3>4, <3>5
    <3> QED
      BY <1>8, <1>9, <3>6
  <2> QED
    BY <2>2, <2>3, <2>4, <2>5 DEF Committed
<1>21. Shapes'
  <2>1. \A q \in Requests : DOMAIN draft'[q] = Tables
    BY <1>1 DEF IInv, Shapes, NoDraft
  <2> QED
    BY <1>3, <1>4, <2>1 DEF IInv, Shapes, Alone
<1> QED
  BY <1>14, <1>16, <1>17, <1>18, <1>19, <1>20, <1>21 DEF IInv, RequestInv

-----------------------------------------------------------------------------
(* The answers *)

Working == {"insert_trial", "commit", "rollback", "done"}

\* Whatever becomes of the contracts.
LEMMA EndingStep ==
  ASSUME IInv, NEW r \in Requests, NEW a, pc[r] # "done",
         Refuse(r, a) \/ (pc[r] \notin Working /\ Succeed(r, a)),
         UNCHANGED <<call, draft, snapshot, info, db, clock, provider, history>>,
         contracts' \in [Sessions -> [status : Statuses, ending : BOOLEAN]],
         Honest(r, a)
  PROVE  IInv'
<1>1. /\ call' = call /\ draft' = draft /\ snapshot' = snapshot /\ info' = info /\ db' = db
      /\ clock' = clock /\ provider' = provider /\ closed' = closed
  BY DEF history
<1>2. DOMAIN pc = Requests /\ DOMAIN reply = Requests
  BY DEF IInv, Shapes
<1>3. Alone(r)
  BY <1>1, <1>2 DEF IInv, Shapes, Alone, Succeed, Refuse, Answer, Goto
<1>4. pc'[r] \in Ending /\ reply'[r] = a /\ (pc'[r] = "commit" => pc[r] \notin Working)
  BY <1>2 DEF Succeed, Refuse, Answer, Goto, Ending
<1> QED
  BY <1>1, <1>3, <1>4, EndingKeeps DEF Working, Ending

LEMMA ReplyKeeps ==
  ASSUME IInv, NEW r \in Requests, NEW a, pc[r] # "done",
         Refuse(r, a) \/ (pc[r] \notin Working /\ Succeed(r, a)),
         UNCHANGED <<call, draft, snapshot, info, db, world, history>>,
         Honest(r, a)
  PROVE  IInv'
<1>1. /\ UNCHANGED <<call, draft, snapshot, info, db, clock, provider, history>>
      /\ contracts' \in [Sessions -> [status : Statuses, ending : BOOLEAN]]
  BY DEF world, IInv, Shapes
<1> QED
  BY <1>1, EndingStep

\* The request goes on; what it is told it has been told.
LEMMA GotoKeeps ==
  ASSUME IInv, NEW r \in Requests, NEW l, pc[r] \notin Working, Goto(r, l),
         l \notin Working \cup {"idle"},
         UNCHANGED <<call, reply, draft, db, world, closed>>,
         DOMAIN snapshot' = Requests, DOMAIN info' = Requests,
         \A q \in Requests \ {r} : snapshot'[q] = snapshot[q] /\ info'[q] = info[q],
         Placed(r)'
  PROVE  IInv'
<1>1. /\ call' = call /\ draft' = draft /\ reply' = reply /\ db' = db
      /\ clock' = clock /\ provider' = provider /\ contracts' = contracts /\ closed' = closed
  BY DEF world
<1>2. DOMAIN pc = Requests
  BY DEF IInv, Shapes
<1>3. Alone(r)
  BY <1>1, <1>2 DEF IInv, Shapes, Alone, Goto
<1>4. pc'[r] = l /\ Answered(r)'
  BY <1>1, <1>2, HonestKeeps DEF Goto
<1> QED
  BY <1>1, <1>3, <1>4, QuietKeeps DEF Working

\* An operation of one step is where its name says.
LEMMA AtName ==
  ASSUME IInv, NEW r \in Requests, At(r, call[r].op)
  PROVE  pc[r] \notin Working
  BY CallTypes DEF IInv, At, Working

\* Answers that promise nothing.
LEMMA PlainAnswers ==
  ASSUME NEW r, NEW a, a \notin {"taken", "integrity", "revoked", "valid"}
  PROVE  Honest(r, a)
  BY DEF Honest

LEMMA ReplyStep ==
  ASSUME IInv, NEW r \in Requests, NEW a, Reply(r, a), Honest(r, a)
  PROVE  IInv'
<1>1. pc[r] \notin Working
  BY AtName DEF Reply
<1>2. Honest(r, "isolation")
  BY PlainAnswers
<1> QED
  BY <1>1, <1>2, ReplyKeeps DEF Reply, Working

LEMMA FoundStep ==
  ASSUME IInv, NEW r \in Requests, NEW is, Found(r, is)
  PROVE  IInv'
<1>1. Honest(r, "found") /\ Honest(r, "none")
  BY PlainAnswers
<1> QED
  BY <1>1, ReplyStep DEF Found

\* One row, outside the tables of create_tenant, is all that a request drafts.
LEMMA DraftStep ==
  ASSUME IInv, NEW r \in Requests, NEW table \in Tables \ {"tenants", "subscriptions"}, NEW id, NEW values,
         NEW a, pc[r] \notin Working, Write(r, table, id, values), Succeed(r, a),
         UNCHANGED <<call, snapshot, info, db, world, history>>,
         \/ id = r /\ values \in StoredRows(table)
         \/ table \in {"api_keys", "billing_subscriptions"} /\ id \in Rows(table) /\ Fits(table, values),
         Honest(r, a)
  PROVE  IInv'
<1>1. /\ call' = call /\ snapshot' = snapshot /\ info' = info /\ db' = db
      /\ clock' = clock /\ provider' = provider /\ contracts' = contracts /\ closed' = closed
  BY DEF world, history
<1>2. DOMAIN pc = Requests /\ DOMAIN reply = Requests /\ DOMAIN draft = Requests /\ DOMAIN draft[r] = Tables
  BY DEF IInv, Shapes
<1>3. Alone(r)
  BY <1>1, <1>2 DEF IInv, Shapes, Alone, Succeed, Answer, Goto, Write
<1>4. /\ draft'[r][table] = [id |-> id, values |-> values]
      /\ \A t \in Tables \ {table} : draft'[r][t] = draft[r][t]
  BY <1>2 DEF Write
<1>5. draft[r] = NoDraft
  BY DEF IInv, RequestInv, Placed, Working
<1>6. draft'[r]["tenants"] = Absent
  BY <1>4, <1>5 DEF NoDraft, Tables
<1>7. Inserts(r, table)' \/ Updates(r, table)'
  <2>1. StoredRows(table)' = StoredRows(table) /\ Rows(table)' = Rows(table)
    BY <1>1, RowsStay DEF Rows
  <2>2. CASE id = r /\ values \in StoredRows(table)
    BY <1>4, <2>1, <2>2 DEF Inserts
  <2>3. CASE /\ table \in {"api_keys", "billing_subscriptions"}
             /\ id \in Rows(table) /\ Fits(table, values)
    <3>1. \A v : v = values => Fits(table, v)'
      BY <1>1, <2>3, RowsStay
    <3>2. draft'[r][table].values = values /\ draft'[r][table].id = id
      BY <1>4
    <3>3. Fits(table, draft[r][table].values)'
      BY <3>1, <3>2 DEF Fits
    <3> QED
      BY <2>1, <2>3, <3>2, <3>3 DEF Updates
  <2> QED
    BY <2>2, <2>3
<1>8. pc'[r] = "commit" /\ reply'[r] = a
  BY <1>2 DEF Succeed, Answer, Goto
<1>9. Placed(r)'
  BY <1>8 DEF Placed
<1>10. Drafted(r)' /\ SlugsApart'
  <2>1. \A t \in Tables : draft'[r][t] # Absent => t = table
    BY <1>4, <1>5 DEF NoDraft
  <2>2. Drafted(r)'
    BY <1>6, <1>7, <1>8, <2>1 DEF Drafted
  <2>3. \A q \in Requests \ {r} : draft'[q] = draft[q]
    BY <1>3 DEF Alone
  <2> QED
    BY <1>1, <1>6, <2>2, <2>3 DEF IInv, SlugsApart
<1>11. Answered(r)'
  BY <1>1, <1>8, HonestKeeps
<1>12. Grows /\ NewSlugs(r) /\ Committed' /\ Shapes'
  BY <1>1, <1>3, SameRows DEF Working
<1>13. \A q \in Requests \ {r} : RequestInv(q)'
  BY <1>3, <1>12, OthersKeep
<1> QED
  BY <1>9, <1>10, <1>11, <1>12, <1>13 DEF IInv, RequestInv

LEMMA AddStep ==
  ASSUME IInv, NEW r \in Requests, NEW table \in Tables \ {"tenants", "subscriptions"}, NEW row,
         Add(r, table, row), call[r].tenant # Nil => row \in StoredRows(table)
  PROVE  IInv'
<1>1. pc[r] \notin Working
  BY AtName DEF Add
<1>2. Honest(r, "isolation") /\ Honest(r, "created")
  BY PlainAnswers
<1>3. CASE Isolated(r)
  BY <1>1, <1>2, <1>3, ReplyKeeps DEF Add, Working
<1>4. CASE ~Isolated(r)
  BY <1>1, <1>2, <1>4, DraftStep DEF Add, Isolated
<1> QED
  BY <1>3, <1>4

-----------------------------------------------------------------------------
(* Tenancy *)

LEMMA LookupSlugStep ==
  ASSUME IInv, NEW r \in Requests, LookupSlug(r)
  PROVE  IInv'
<1>1. pc[r] = "slug" /\ pc[r] \notin Working /\ draft[r] = NoDraft /\ call[r].op = "create_tenant"
  BY DEF LookupSlug, At, Working, IInv, RequestInv, Placed
<1>2. CASE Taken(call[r].subject) /\ Refuse(r, "taken")
  <2>1. Honest(r, "taken")
    BY <1>2 DEF Honest, Taken
  <2> QED
    BY <1>1, <1>2, <2>1, ReplyKeeps DEF LookupSlug, Working
<1>3. CASE Goto(r, "insert_tenant") /\ UNCHANGED reply
  <2>1. call' = call /\ draft' = draft /\ pc'[r] = "insert_tenant"
    BY <1>3 DEF LookupSlug, Goto, IInv, Shapes
  <2>2. Placed(r)'
    BY <1>1, <2>1 DEF Placed, NoDraft
  <2>3. snapshot' = snapshot /\ info' = info /\ closed' = closed /\ db' = db
    BY DEF LookupSlug, history
  <2>4. DOMAIN snapshot' = Requests /\ DOMAIN info' = Requests
    BY <2>3 DEF IInv, Shapes
  <2> QED
    BY <1>1, <1>3, <2>2, <2>3, <2>4, GotoKeeps DEF LookupSlug, Working
<1> QED
  BY <1>2, <1>3 DEF LookupSlug

LEMMA InsertTenantStep ==
  ASSUME IInv, NEW r \in Requests, InsertTenant(r)
  PROVE  IInv'
<1>1. /\ pc[r] = "insert_tenant" /\ pc[r] \notin Working /\ draft[r] = NoDraft
      /\ call[r].op = "create_tenant"
  BY DEF InsertTenant, At, Working, IInv, RequestInv, Placed
<1>2. CASE Bearing(call[r].subject) # {}
  <2>1. Honest(r, "integrity")
    BY <1>2 DEF Honest
  <2> QED
    BY <1>1, <1>2, <2>1, ReplyKeeps DEF InsertTenant, Working
<1>3. CASE Bearing(call[r].subject) = {}
  <2>1. /\ Write(r, "tenants", r, NewTenant(r)) /\ Goto(r, "insert_trial") /\ reply' = reply
        /\ call' = call /\ snapshot' = snapshot /\ info' = info /\ db' = db /\ clock' = clock
        /\ provider' = provider /\ contracts' = contracts /\ closed' = closed
    BY <1>3 DEF InsertTenant, world, history
  <2>2. DOMAIN pc = Requests /\ DOMAIN draft = Requests /\ DOMAIN draft[r] = Tables
    BY DEF IInv, Shapes
  <2>3. Alone(r)
    BY <2>1, <2>2 DEF IInv, Shapes, Alone, Goto, Write
  <2>4. pc'[r] = "insert_trial" /\ draft'[r]["tenants"] = [id |-> r, values |-> NewTenant(r)]
    BY <2>1, <2>2 DEF Goto, Write, Tables
  <2>5. NewTenant(r) \in TenantRows
    BY <1>1, CallTypes DEF IInv, NewTenant, TenantRows
  <2>6. draft'[r]["tenants"] # Absent
    BY <2>4, <2>5, AbsentAssumption
  <2>7. Placed(r)'
    BY <1>1, <2>1, <2>4 DEF Placed
  <2>8. Inserts(r, "tenants")'
    <3>1. StoredRows("tenants")' = StoredRows("tenants")
      BY <2>1, RowsStay DEF Tables
    <3>2. Bearing(call[r].subject)' = {} /\ NewTenant(r)' = NewTenant(r)
      BY <1>3, <2>1 DEF Bearing, Rows, NewTenant
    <3> QED
      BY <1>1, <2>1, <2>4, <2>5, <3>1, <3>2, RowsetsAre DEF Inserts
  <2>9. ~SlugHeld(r)
    BY DEF InsertTenant
  <2>10. \A q \in Requests : draft[q]["tenants"] # Absent =>
           draft[q]["tenants"].values.slug = call[q].subject
    <3> SUFFICES ASSUME NEW q \in Requests, draft[q]["tenants"] # Absent
                 PROVE  draft[q]["tenants"].values.slug = call[q].subject
      OBVIOUS
    <3>1. Drafted(q) /\ "tenants" \in Tables
      BY DEF IInv, RequestInv, Tables
    <3>2. Inserts(q, "tenants")
      BY <3>1 DEF Drafted, Updates
    <3> QED
      BY <3>2 DEF Inserts, NewTenant
  <2> QED
    BY <1>1, <2>1, <2>3, <2>4, <2>6, <2>7, <2>8, <2>9, <2>10, WriteKeeps DEF Working, Tables
<1> QED
  BY <1>2, <1>3

LEMMA InsertTrialStep ==
  ASSUME IInv, NEW r \in Requests, InsertTrial(r)
  PROVE  IInv'
<1>1. /\ pc[r] = "insert_trial" /\ draft[r]["tenants"] # Absent
  BY DEF InsertTrial, At, IInv, RequestInv, Drafted
<1>2. /\ Write(r, "subscriptions", r, NewTrial(r)) /\ Succeed(r, "created")
      /\ call' = call /\ snapshot' = snapshot /\ info' = info /\ db' = db /\ clock' = clock
      /\ provider' = provider /\ contracts' = contracts /\ closed' = closed
  BY DEF InsertTrial, world, history
<1>3. DOMAIN pc = Requests /\ DOMAIN reply = Requests /\ DOMAIN draft = Requests /\ DOMAIN draft[r] = Tables
  BY DEF IInv, Shapes
<1>4. Alone(r)
  BY <1>2, <1>3 DEF IInv, Shapes, Alone, Succeed, Answer, Goto, Write
<1>5. /\ pc'[r] = "commit" /\ reply'[r] = "created"
      /\ draft'[r]["subscriptions"] = [id |-> r, values |-> NewTrial(r)]
      /\ draft'[r]["tenants"] = draft[r]["tenants"]
  BY <1>2, <1>3 DEF Succeed, Answer, Goto, Write, Tables
<1>6. NewTrial(r) \in SubscriptionRows
  BY DEF NewTrial, SubscriptionRows, IInv, Shapes
<1>7. draft'[r]["subscriptions"] # Absent
  BY <1>5, <1>6, AbsentAssumption
<1>8. Placed(r)'
  BY <1>5 DEF Placed
<1>9. Inserts(r, "subscriptions")'
  <2>1. StoredRows("subscriptions")' = StoredRows("subscriptions")
    BY <1>2, RowsStay DEF Tables
  <2> QED
    BY <1>1, <1>5, <1>6, <2>1, RowsetsAre DEF Inserts
<1>10. Honest(r, "created")
  BY PlainAnswers
<1> QED
  BY <1>1, <1>2, <1>4, <1>5, <1>7, <1>8, <1>9, <1>10, WriteKeeps DEF Tables

LEMMA MembersStep ==
  ASSUME IInv, NEW r \in Requests, InviteMember(r) \/ GetMember(r) \/ ListMembers(r)
  PROVE  IInv'
<1>1. Honest(r, "error") /\ Honest(r, "listed")
  BY PlainAnswers
<1>2. ASSUME InviteMember(r) PROVE IInv'
  <2>1. call[r].op = "invite_member"
    BY <1>2 DEF InviteMember
  <2>2. CASE (Isolated(r) \/ call[r].subject \in Users) /\ Add(r, "tenant_members", NewMember(r))
    <3>1. call[r].tenant # Nil => NewMember(r) \in MemberRows
      BY <2>1, <2>2, CallTypes DEF IInv, NewMember, MemberRows, Isolated
    <3> QED
      BY <2>2, <3>1, AddStep, RowsetsAre DEF Tables
  <2>3. CASE /\ At(r, call[r].op) /\ Refuse(r, "integrity")
             /\ UNCHANGED <<call, draft, snapshot, info, db, world, history>>
    <3>1. Honest(r, "integrity")
      BY <2>1 DEF Honest
    <3> QED
      BY <2>3, <3>1, AtName, ReplyKeeps DEF Working
  <2> QED
    BY <1>2, <2>2, <2>3 DEF InviteMember
<1>3. ASSUME GetMember(r) PROVE IInv'
  <2>1. CASE Cardinality(Memberships(call[r])) > 1
    BY <1>1, <1>3, <2>1, AtName, ReplyKeeps DEF GetMember, Working
  <2>2. CASE ~(Cardinality(Memberships(call[r])) > 1)
    BY <1>3, <2>2, FoundStep DEF GetMember
  <2> QED
    BY <2>1, <2>2
<1>4. ASSUME ListMembers(r) PROVE IInv'
  BY <1>1, <1>4, ReplyStep DEF ListMembers
<1> QED
  BY <1>2, <1>3, <1>4

LEMMA ProjectsStep ==
  ASSUME IInv, NEW r \in Requests, CreateProject(r) \/ GetProject(r) \/ ListProjects(r)
  PROVE  IInv'
<1>1. Honest(r, "listed")
  BY PlainAnswers
<1>2. ASSUME CreateProject(r) PROVE IInv'
  <2>1. call[r].tenant # Nil => NewProject(r) \in ProjectRows
    BY <1>2, CallTypes DEF IInv, CreateProject, NewProject, ProjectRows
  <2> QED
    BY <1>2, <2>1, AddStep, RowsetsAre DEF CreateProject, Tables
<1>3. ASSUME GetProject(r) PROVE IInv'
  BY <1>3, FoundStep DEF GetProject
<1>4. ASSUME ListProjects(r) PROVE IInv'
  BY <1>1, <1>4, ReplyStep DEF ListProjects
<1> QED
  BY <1>2, <1>3, <1>4

LEMMA RevocationFits ==
  ASSUME IInv
  PROVE  Fits("api_keys", [revoked_at |-> clock])
<1> DEFINE values == [revoked_at |-> clock]
<1> SUFFICES ASSUME NEW row \in ApiKeyRows
             PROVE  /\ Patch(row, values) \in ApiKeyRows
                    /\ Patch(row, values).tenant = row.tenant
                    /\ Patch(row, values).revoked_at # Never
  BY RowsetsAre DEF Fits
<1>1. row # Absent
  BY RowsetsAre, StoredRowsAre DEF Tables
<1>2. clock \in OptionalTimes /\ clock # Never
  BY DEF IInv, Shapes, Times, OptionalTimes
<1>3. DOMAIN row = {"tenant", "expires_at", "revoked_at"} /\ DOMAIN values = {"revoked_at"}
  BY DEF ApiKeyRows
<1>4. Patch(row, values) =
        [tenant |-> row.tenant, expires_at |-> row.expires_at, revoked_at |-> clock]
  BY <1>1, <1>3 DEF Patch
<1> QED
  BY <1>2, <1>4 DEF ApiKeyRows

LEMMA KeysStep ==
  ASSUME IInv, NEW r \in Requests,
         CreateApiKey(r) \/ GetApiKey(r) \/ ListApiKeys(r) \/ RevokeApiKey(r) \/ VerifyApiKey(r)
  PROVE  IInv'
<1>1. Honest(r, "listed") /\ Honest(r, "invalid")
  BY PlainAnswers
<1>2. ASSUME CreateApiKey(r) PROVE IInv'
  <2>1. call[r].tenant # Nil => NewApiKey(r) \in ApiKeyRows
    BY <1>2, CallTypes DEF IInv, CreateApiKey, NewApiKey, ApiKeyRows, OptionalTimes
  <2> QED
    BY <1>2, <2>1, AddStep, RowsetsAre DEF CreateApiKey, Tables
<1>3. ASSUME GetApiKey(r) PROVE IInv'
  BY <1>3, FoundStep DEF GetApiKey
<1>4. ASSUME ListApiKeys(r) PROVE IInv'
  BY <1>1, <1>4, ReplyStep DEF ListApiKeys
<1>5. ASSUME RevokeApiKey(r) PROVE IInv'
  <2>1. CASE ~Isolated(r) /\ Own(r, "api_keys")
    <3>1. call[r].subject \in Rows("api_keys") /\ Honest(r, "revoked")
      BY <2>1 DEF Own, Honest
    <3>2. /\ At(r, call[r].op) /\ Succeed(r, "revoked")
          /\ Write(r, "api_keys", call[r].subject, [revoked_at |-> clock])
          /\ UNCHANGED <<call, snapshot, info, db, world, history>>
      BY <1>5, <2>1 DEF RevokeApiKey
    <3> QED
      BY <3>1, <3>2, AtName, RevocationFits, DraftStep DEF Tables
  <2>2. CASE ~(~Isolated(r) /\ Own(r, "api_keys"))
    <3>1. Found(r, FALSE)
      BY <1>5, <2>2 DEF RevokeApiKey
    <3> QED
      BY <3>1, FoundStep
  <2> QED
    BY <2>1, <2>2
<1>6. ASSUME VerifyApiKey(r) PROVE IInv'
  <2> DEFINE k == call[r].subject
             good == k \in Rows("api_keys") /\ IsActive(db["api_keys"][k])
  <2>1. At(r, call[r].op) /\ UNCHANGED <<call, draft, snapshot, info, db, world, history>>
    BY <1>6 DEF VerifyApiKey
  <2>2. CASE good
    <3>1. r \notin closed
      BY <2>2 DEF IInv, RequestInv, Answered, Revoked, IsActive
    <3>2. Honest(r, "valid") /\ Succeed(r, "valid")
      BY <1>6, <2>2, <3>1 DEF Honest, VerifyApiKey
    <3> QED
      BY <2>1, <3>2, AtName, ReplyKeeps DEF Working
  <2>3. CASE ~good
    <3>1. Succeed(r, "invalid")
      BY <1>6, <2>3 DEF VerifyApiKey
    <3> QED
      BY <1>1, <2>1, <3>1, AtName, ReplyKeeps DEF Working
  <2> QED
    BY <2>2, <2>3
<1> QED
  BY <1>2, <1>3, <1>4, <1>5, <1>6

\* No event holds a secret that was recorded with its label.
LEMMA EventsStep ==
  ASSUME IInv, NEW r \in Requests,
         \/ PersistAuditEvent(r) \/ PersistSecurityEvent(r)
         \/ PersistSqlAirlockEvent(r) \/ PersistRateLimitEvent(r)
  PROVE  IInv'
<1>1. \A text \in Texts : /\ Extra(text) \in Recorded \ {"redacted"}
                          /\ Detail(text) \in Recorded
                          /\ Fingerprint(text) \in {"nothing", "digest"}
  BY DEF Texts, Recorded, Extra, Detail, Fingerprint
<1>2. ASSUME PersistAuditEvent(r) PROVE IInv'
  <2>1. call[r].tenant # Nil => AuditEvent(r) \in AuditEvents
    BY <1>1, <1>2, CallTypes DEF IInv, PersistAuditEvent, AuditEvent, AuditEvents
  <2> QED
    BY <1>2, <2>1, AddStep, RowsetsAre DEF PersistAuditEvent, Tables
<1>3. ASSUME PersistSecurityEvent(r) PROVE IInv'
  <2>1. call[r].tenant # Nil => SecurityEvent(r) \in SecurityEvents
    BY <1>1, <1>3, CallTypes DEF IInv, PersistSecurityEvent, SecurityEvent, SecurityEvents
  <2> QED
    BY <1>3, <2>1, AddStep, RowsetsAre DEF PersistSecurityEvent, Tables
<1>4. ASSUME PersistSqlAirlockEvent(r) PROVE IInv'
  <2>1. call[r].tenant # Nil => SqlAirlockEvent(r) \in SqlAirlockEvents
    BY <1>1, <1>4, CallTypes DEF IInv, PersistSqlAirlockEvent, SqlAirlockEvent, SqlAirlockEvents
  <2> QED
    BY <1>4, <2>1, AddStep, RowsetsAre DEF PersistSqlAirlockEvent, Tables
<1>5. ASSUME PersistRateLimitEvent(r) PROVE IInv'
  <2>1. call[r].tenant # Nil => RateLimitEvent(r) \in RateLimitEvents
    BY <1>5, CallTypes DEF IInv, PersistRateLimitEvent, RateLimitEvent, RateLimitEvents
  <2> QED
    BY <1>5, <2>1, AddStep, RowsetsAre DEF PersistRateLimitEvent, Tables
<1> QED
  BY <1>2, <1>3, <1>4, <1>5

LEMMA ReadTenantStep ==
  ASSUME IInv, NEW r \in Requests, GetTenant(r) \/ GetTrial(r)
  PROVE  IInv'
<1>1. Honest(r, "found") /\ Honest(r, "none")
  BY PlainAnswers
<1>2. ASSUME NEW op, NEW table, ReadTenant(r, op, table) PROVE IInv'
  <2>1. /\ At(r, call[r].op) /\ (Succeed(r, "found") \/ Succeed(r, "none"))
        /\ UNCHANGED <<call, draft, snapshot, info, db, world, history>>
    BY <1>2 DEF ReadTenant
  <2> QED
    BY <1>1, <2>1, AtName, ReplyKeeps DEF Working
<1> QED
  BY <1>2 DEF GetTenant, GetTrial

LEMMA TenancyKeeps ==
  ASSUME IInv, NEW r \in Requests, TenancyStep(r)
  PROVE  IInv'
  BY LookupSlugStep, InsertTenantStep, InsertTrialStep, MembersStep, ProjectsStep, KeysStep,
     EventsStep, ReadTenantStep DEF TenancyStep

-----------------------------------------------------------------------------
(* Billing *)

\* A request that has just loaded a row goes on with it.
LEMMA LoadKeeps ==
  ASSUME IInv, NEW r \in Requests, pc[r] \notin Working, NEW l, NEW tenant, NEW statuses,
         Load(r, Latest(tenant, statuses), l), UNCHANGED <<call, draft, info, db, world, history>>,
         \/ l = "store" /\ call[r].op = "activate" /\ info[r] \in KnownInfos
         \/ l \in {"cancel", "invoice"} /\ call[r].op \in {"cancel", "generate_invoice"}
  PROVE  IInv'
<1>1. /\ call' = call /\ draft' = draft /\ info' = info /\ db' = db /\ reply' = reply
      /\ provider' = provider /\ closed' = closed
  BY DEF world, history, Load
<1>2. DOMAIN pc = Requests /\ DOMAIN snapshot = Requests /\ DOMAIN info = Requests
  BY DEF IInv, Shapes
<1>3. /\ pc'[r] = l /\ DOMAIN snapshot' = Requests
      /\ \A q \in Requests \ {r} : snapshot'[q] = snapshot[q]
  BY <1>2 DEF Load, Goto
<1>4. Loaded(snapshot[r])'
  <2>1. PICK i \in Latest(tenant, statuses) : snapshot' = [snapshot EXCEPT ![r] = [id |-> i, row |-> Subscription(i)]]
    BY DEF Load
  <2>2. i \in Rows("billing_subscriptions")
    BY DEF Latest, Subscriptions
  <2>3. Subscription(i) \in StoredRows("billing_subscriptions")
    BY <2>2 DEF IInv, Committed, Subscription, Tables
  <2>4. snapshot'[r] = [id |-> i, row |-> Subscription(i)]
    BY <1>2, <2>1
  <2>5. /\ StoredRows("billing_subscriptions")' = StoredRows("billing_subscriptions")
        /\ Rows("billing_subscriptions")' = Rows("billing_subscriptions")
    BY <1>1, RowsStay DEF Rows, Tables
  <2> QED
    BY <2>2, <2>3, <2>4, <2>5 DEF Loaded
<1>5. draft[r] = NoDraft
  BY DEF IInv, RequestInv, Placed, Working
<1>6. Placed(r)'
  BY <1>1, <1>3, <1>4, <1>5, RowsStay DEF Placed, NoDraft
<1> QED
  BY <1>1, <1>2, <1>3, <1>6, GotoKeeps DEF Load, Working

LEMMA CheckoutStep ==
  ASSUME IInv, NEW r \in Requests, CreateCheckout(r)
  PROVE  IInv'
<1>1. pc[r] \notin Working
  BY DEF CreateCheckout, At, Working
<1>2. Honest(r, "session") /\ Honest(r, "unavailable")
  BY PlainAnswers
<1> QED
  BY <1>1, <1>2, ReplyKeeps DEF CreateCheckout, MockCheckout, StripeCheckout, Working

\* What a provider says is named after a contract it has.
LEMMA InformedKeeps ==
  ASSUME IInv, NEW r \in Requests, NEW what, NEW l, pc[r] \notin Working,
         Informed(r, what), Goto(r, l), reply' = reply,
         UNCHANGED <<call, draft, snapshot, db, clock, provider, closed>>,
         contracts' \in [Sessions -> [status : Statuses, ending : BOOLEAN]],
         what \in KnownInfos,
         \/ l = "find" /\ call[r].op = "activate" /\ snapshot[r] = Absent
         \/ /\ l = "store_cancellation" /\ call[r].op \in {"cancel", "generate_invoice"}
            /\ Loaded(snapshot[r])
  PROVE  IInv'
<1>1. /\ call' = call /\ draft' = draft /\ snapshot' = snapshot /\ db' = db
      /\ clock' = clock /\ provider' = provider /\ closed' = closed
  OBVIOUS
<1>2. DOMAIN pc = Requests /\ DOMAIN info = Requests
  BY DEF IInv, Shapes
<1>3. /\ pc'[r] = l /\ info'[r] = what
      /\ draft[r] = NoDraft /\ NoDraft' = NoDraft
  BY <1>2 DEF Goto, Informed, IInv, RequestInv, Placed, Working, NoDraft
<1>4. Alone(r)
  BY <1>1, <1>2 DEF IInv, Shapes, Alone, Goto, Informed
<1>5. KnownInfos' = KnownInfos
  BY <1>1, RowsStay
<1>6. Loaded(snapshot[r]) => Loaded(snapshot[r])'
  <2>1. StoredRows("billing_subscriptions")' = StoredRows("billing_subscriptions")
    BY <1>1, RowsStay DEF Tables
  <2>2. Rows("billing_subscriptions")' = Rows("billing_subscriptions")
    BY <1>1 DEF Rows
  <2> QED
    BY <1>1, <2>1, <2>2 DEF Loaded
<1>7. Placed(r)'
  BY <1>1, <1>3, <1>5, <1>6 DEF Placed
<1>8. Answered(r)'
  BY <1>1, HonestKeeps
<1> QED
  BY <1>1, <1>3, <1>4, <1>7, <1>8, QuietKeeps DEF Working

LEMMA ActivateStep ==
  ASSUME IInv, NEW r \in Requests, ActivateSubscription(r)
  PROVE  IInv'
<1>1. pc[r] = "activate" /\ pc[r] \notin Working /\ call[r].op = "activate" /\ snapshot[r] = Absent
  BY DEF ActivateSubscription, At, Working, IInv, RequestInv, Placed
<1>2. call[r].plan \in Plans
  BY <1>1, CallTypes DEF IInv
<1>3. Honest(r, "rejected") /\ Honest(r, "error")
  BY PlainAnswers
<1>4. /\ call' = call /\ draft' = draft /\ snapshot' = snapshot /\ db' = db /\ closed' = closed
      /\ clock' = clock /\ provider' = provider /\ contracts' = contracts
      /\ UNCHANGED history
  BY DEF ActivateSubscription, world, history
<1>5. contracts' \in [Sessions -> [status : Statuses, ending : BOOLEAN]]
  BY <1>4 DEF IInv, Shapes
<1>6. ASSUME call[r].subject \in Sessions, NEW status \in Statuses, NEW ending \in BOOLEAN
      PROVE  Described(call[r].subject, call[r].plan, status, ending) \in KnownInfos
  BY <1>2, <1>6 DEF Described, KnownInfos, Infos, ContractOf, Contracts
<1>7. ASSUME MockActivates(r), call[r].subject \in Sessions PROVE IInv'
  <2>1. Described(r, call[r].plan, "active", FALSE) \in KnownInfos
    BY <1>2, <1>7 DEF MockActivates, Described, KnownInfos, Infos, ContractOf, Contracts,
                      Statuses, LiveStatuses
  <2>2. /\ Informed(r, Described(r, call[r].plan, "active", FALSE))
        /\ Goto(r, "find") /\ reply' = reply
    BY <1>7 DEF MockActivates
  <2> QED
    BY <1>1, <1>4, <1>5, <2>1, <2>2, InformedKeeps
<1>8. ASSUME StripeActivates(r), call[r].subject \in Sessions PROVE IInv'
  <2> DEFINE c == contracts[call[r].subject]
  <2>1. c.status \in Statuses /\ c.ending \in BOOLEAN
    BY <1>8 DEF IInv, Shapes
  <2>2. Described(call[r].subject, call[r].plan, c.status, c.ending) \in KnownInfos
    BY <1>6, <1>8, <2>1
  <2> QED
    BY <1>1, <1>4, <1>5, <1>8, <2>2, InformedKeeps DEF StripeActivates
<1>9. ASSUME MockActivates(r) \/ StripeActivates(r), call[r].subject \notin Sessions PROVE IInv'
  <2>1. /\ Refuse(r, "rejected") \/ Refuse(r, "error")
        /\ info' = info
    BY <1>9 DEF MockActivates, StripeActivates
  <2> QED
    BY <1>1, <1>3, <1>4, <2>1, ReplyKeeps DEF Working, world, history
<1> QED
  BY <1>7, <1>8, <1>9 DEF ActivateSubscription

LEMMA FindStep ==
  ASSUME IInv, NEW r \in Requests, FindExisting(r)
  PROVE  IInv'
<1>1. /\ pc[r] = "find" /\ pc[r] \notin Working /\ call[r].op = "activate"
      /\ info[r] \in KnownInfos /\ draft[r] = NoDraft /\ snapshot[r] = Absent
  BY DEF FindExisting, At, Working, IInv, RequestInv, Placed
<1>2. CASE Load(r, Latest(call[r].tenant, Statuses), "store")
  BY <1>1, <1>2, LoadKeeps DEF FindExisting
<1>3. CASE Goto(r, "store") /\ UNCHANGED <<snapshot, reply>>
  <2>1. /\ call' = call /\ draft' = draft /\ info' = info /\ snapshot' = snapshot /\ db' = db
        /\ closed' = closed /\ provider' = provider /\ pc'[r] = "store" /\ reply' = reply
    BY <1>3 DEF FindExisting, Goto, IInv, Shapes, world, history
  <2>2. Placed(r)'
    BY <1>1, <2>1, RowsStay DEF Placed, NoDraft
  <2>3. DOMAIN snapshot' = Requests /\ DOMAIN info' = Requests
    BY <2>1 DEF IInv, Shapes
  <2> QED
    BY <1>1, <1>3, <2>1, <2>2, <2>3, GotoKeeps DEF FindExisting, Working
<1> QED
  BY <1>2, <1>3 DEF FindExisting

InfoFields == {"plan", "status", "provider_subscription_id", "cancel_at_period_end"}

\* What a provider says can be written into any row.
LEMMA InfoFits ==
  ASSUME NEW what \in KnownInfos, NEW values, DOMAIN values \subseteq InfoFields,
         \A f \in DOMAIN values : values[f] = what[f]
  PROVE  Fits("billing_subscriptions", values)
<1> SUFFICES ASSUME NEW row \in BillingSubscriptionRows, Billed(row)
             PROVE  Patch(row, values) \in BillingSubscriptionRows /\ Billed(Patch(row, values))
  BY RowsetsAre DEF Fits
<1> DEFINE new == Patch(row, values)
           take(f) == IF f \in DOMAIN values THEN what[f] ELSE row[f]
<1>1. row # Absent
  BY RowsetsAre, StoredRowsAre DEF Tables
<1>2. DOMAIN row = InfoFields \cup {"tenant", "created_at"}
  BY DEF BillingSubscriptionRows, InfoFields
<1>3. new = [f \in InfoFields \cup {"tenant", "created_at"} |-> take(f)]
  BY <1>1, <1>2 DEF Patch
<1>4. "tenant" \notin DOMAIN values /\ "created_at" \notin DOMAIN values
  BY DEF InfoFields
<1>5. /\ take("tenant") \in Tenants /\ take("created_at") \in Times
      /\ take("plan") \in Plans /\ take("status") \in Statuses
      /\ take("provider_subscription_id") \in Contracts /\ take("cancel_at_period_end") \in BOOLEAN
      /\ take("provider_subscription_id") \in ContractOf
  BY <1>4 DEF KnownInfos, Infos, BillingSubscriptionRows, Billed
<1> HIDE DEF take
<1>6. new = [ tenant |-> take("tenant"), created_at |-> take("created_at"), plan |-> take("plan"),
              status |-> take("status"),
              provider_subscription_id |-> take("provider_subscription_id"),
              cancel_at_period_end |-> take("cancel_at_period_end") ]
  BY <1>3 DEF InfoFields
<1> HIDE DEF new
<1>7. new \in BillingSubscriptionRows
  BY <1>5, <1>6 DEF BillingSubscriptionRows
<1>8. new.provider_subscription_id \in ContractOf
  BY <1>5, <1>6
<1> QED
  BY <1>7, <1>8 DEF Billed, new

\* An update of the row a request has loaded, or nothing.
LEMMA UpdateKeeps ==
  ASSUME IInv, NEW r \in Requests, pc[r] \notin Working, Loaded(snapshot[r]), NEW values, NEW a,
         Update(r, values), Succeed(r, a), UNCHANGED <<call, snapshot, info, db, world, history>>,
         Fits("billing_subscriptions", values), Honest(r, a)
  PROVE  IInv'
<1>1. CASE DOMAIN values = {}
  <2>1. UNCHANGED <<call, draft, snapshot, info, db, world, history>>
    BY <1>1 DEF Update
  <2> QED
    BY <2>1, ReplyKeeps DEF Working
<1>2. CASE DOMAIN values # {}
  <2>1. Write(r, "billing_subscriptions", snapshot[r].id, values)
    BY <1>2 DEF Update
  <2>2. snapshot[r].id \in Rows("billing_subscriptions")
    BY DEF Loaded
  <2> QED
    BY <2>1, <2>2, DraftStep DEF Tables
<1> QED
  BY <1>1, <1>2

LEMMA StoreStep ==
  ASSUME IInv, NEW r \in Requests, Store(r)
  PROVE  IInv'
<1>1. /\ pc[r] = "store" /\ pc[r] \notin Working /\ call[r].op = "activate" /\ info[r] \in KnownInfos
      /\ snapshot[r] = Absent \/ Loaded(snapshot[r])
  BY DEF Store, At, Working, IInv, RequestInv, Placed
<1>2. Honest(r, "activated")
  BY PlainAnswers
<1>3. Succeed(r, "activated") /\ UNCHANGED <<call, snapshot, info, db, world, history>>
  BY DEF Store
<1>4. CASE snapshot[r] = Absent /\ Write(r, "billing_subscriptions", r, NewSubscription(r))
  <2>1. call[r].tenant \in Tenants /\ clock \in Times
    BY <1>1, CallTypes DEF IInv, Shapes
  <2>2. NewSubscription(r) \in BillingSubscriptionRows /\ Billed(NewSubscription(r))
    BY <1>1, <2>1 DEF NewSubscription, BillingSubscriptionRows, Billed, KnownInfos, Infos
  <2> QED
    BY <1>1, <1>2, <1>3, <1>4, <2>2, DraftStep, RowsetsAre DEF Tables
<1>5. CASE snapshot[r] # Absent /\ Update(r, Changed(snapshot[r].row, info[r]))
  <2> DEFINE values == Changed(snapshot[r].row, info[r])
  <2>1. DOMAIN info[r] = InfoFields
    BY <1>1 DEF KnownInfos, Infos, InfoFields
  <2>2. /\ DOMAIN values \subseteq InfoFields
        /\ \A f \in DOMAIN values : values[f] = info[r][f]
    BY <2>1 DEF Changed
  <2>3. Fits("billing_subscriptions", values)
    BY <1>1, <2>2, InfoFits
  <2> QED
    BY <1>1, <1>2, <1>3, <1>5, <2>3, UpdateKeeps
<1> QED
  BY <1>4, <1>5 DEF Store

LEMMA FindLiveStep ==
  ASSUME IInv, NEW r \in Requests, FindLive(r)
  PROVE  IInv'
<1>1. pc[r] = "find_live" /\ pc[r] \notin Working /\ call[r].op \in {"cancel", "generate_invoice"}
  BY DEF FindLive, At, Working, IInv, RequestInv, Placed
<1>2. Honest(r, "not_found")
  BY PlainAnswers
<1>3. UNCHANGED <<call, draft, info, db, world, history>>
  BY DEF FindLive
<1>4. CASE Load(r, Latest(call[r].tenant, LiveStatuses), "cancel")
  BY <1>1, <1>3, <1>4, LoadKeeps
<1>5. CASE Load(r, Latest(call[r].tenant, LiveStatuses), "invoice")
  BY <1>1, <1>3, <1>5, LoadKeeps
<1>6. CASE Refuse(r, "not_found") /\ UNCHANGED snapshot
  BY <1>1, <1>2, <1>3, <1>6, ReplyKeeps DEF Working
<1> QED
  BY <1>4, <1>5, <1>6 DEF FindLive

LEMMA CancelStep ==
  ASSUME IInv, NEW r \in Requests, Cancel(r)
  PROVE  IInv'
<1>1. /\ pc[r] = "cancel" /\ pc[r] \notin Working /\ call[r].op \in {"cancel", "generate_invoice"}
      /\ Loaded(snapshot[r])
  BY DEF Cancel, At, Working, IInv, RequestInv, Placed
<1>2. Honest(r, "rejected") /\ Honest(r, "error")
  BY PlainAnswers
<1>3. /\ call' = call /\ draft' = draft /\ snapshot' = snapshot /\ db' = db /\ closed' = closed
      /\ clock' = clock /\ provider' = provider /\ UNCHANGED history
  BY DEF Cancel, history
<1> DEFINE id == snapshot[r].row.provider_subscription_id
<1>4. CASE MockCancels(r)
  BY <1>1, <1>2, <1>3, <1>4, ReplyKeeps DEF MockCancels, Working, world, history
<1>5. CASE StripeCancels(r) /\ contracts[id].status = "canceled"
  <2>1. Refuse(r, "error") /\ UNCHANGED <<info, contracts>>
    BY <1>5 DEF StripeCancels
  <2> QED
    BY <1>1, <1>2, <1>3, <2>1, ReplyKeeps DEF Working, world, history
<1>6. CASE StripeCancels(r) /\ contracts[id].status # "canceled"
  <2>1. /\ provider = "stripe" /\ contracts' = [contracts EXCEPT ![id].ending = TRUE]
        /\ Informed(r, Described(id, "free", contracts[id].status, TRUE))
        /\ Goto(r, "store_cancellation") /\ reply' = reply
    BY <1>6 DEF StripeCancels, Marked
  <2>2. contracts \in [Sessions -> [status : Statuses, ending : BOOLEAN]]
    BY DEF IInv, Shapes
  <2>3. snapshot[r].row \in BillingSubscriptionRows /\ id \in Sessions
    BY <1>1, <2>1, RowsetsAre DEF Loaded, Billed, ContractOf
  <2>4. contracts' \in [Sessions -> [status : Statuses, ending : BOOLEAN]]
    BY <2>1, <2>2
  <2>5. "free" \in Plans /\ contracts[id].status \in Statuses
    BY <2>2, <2>3 DEF Plans, PlanFeatures
  <2>6. Described(id, "free", contracts[id].status, TRUE) \in KnownInfos
    BY <2>1, <2>3, <2>5 DEF Described, KnownInfos, Infos, ContractOf, Contracts
  <2> QED
    BY <1>1, <1>3, <2>1, <2>4, <2>6, InformedKeeps
<1> QED
  BY <1>4, <1>5, <1>6 DEF Cancel

LEMMA StoreCancellationStep ==
  ASSUME IInv, NEW r \in Requests, StoreCancellation(r)
  PROVE  IInv'
<1> DEFINE new == [status |-> info[r].status, cancel_at_period_end |-> info[r].cancel_at_period_end]
           values == Changed(snapshot[r].row, new)
<1>1. /\ pc[r] = "store_cancellation" /\ pc[r] \notin Working /\ info[r] \in KnownInfos
      /\ Loaded(snapshot[r])
  BY DEF StoreCancellation, At, Working, IInv, RequestInv, Placed
<1>2. Honest(r, "cancelled")
  BY PlainAnswers
<1>3. DOMAIN new = {"status", "cancel_at_period_end"} /\ \A f \in DOMAIN new : new[f] = info[r][f]
  OBVIOUS
<1> HIDE DEF new
<1>4. /\ DOMAIN values \subseteq InfoFields
      /\ \A f \in DOMAIN values : values[f] = info[r][f]
  BY <1>3 DEF Changed, InfoFields
<1>5. Fits("billing_subscriptions", values)
  BY <1>1, <1>4, InfoFits
<1>6. Update(r, values) /\ Succeed(r, "cancelled") /\ UNCHANGED <<call, snapshot, info, db, world, history>>
  BY DEF StoreCancellation, new
<1> QED
  BY <1>1, <1>2, <1>5, <1>6, UpdateKeeps

LEMMA InvoicesStep ==
  ASSUME IInv, NEW r \in Requests, GenerateInvoice(r) \/ ListInvoices(r)
  PROVE  IInv'
<1>1. Honest(r, "rejected") /\ Honest(r, "invoiced") /\ Honest(r, "listed")
  BY PlainAnswers
<1>2. ASSUME GenerateInvoice(r) PROVE IInv'
  <2>1. /\ pc[r] \notin Working /\ call[r].op \in {"cancel", "generate_invoice"}
        /\ Loaded(snapshot[r])
    BY <1>2 DEF GenerateInvoice, At, Working, IInv, RequestInv, Placed
  <2>2. CASE MockInvoices(r)
    BY <1>1, <1>2, <2>1, <2>2, ReplyKeeps DEF GenerateInvoice, MockInvoices, Working
  <2>3. CASE StripeInvoices(r)
    <3>1. call[r].tenant \in Tenants /\ snapshot[r].id \in Requests
      BY <2>1, CallTypes DEF IInv, Loaded, Rows
    <3>2. NewInvoice(r) \in BillingInvoiceRows
      BY <3>1 DEF NewInvoice, BillingInvoiceRows
    <3> QED
      BY <1>1, <1>2, <2>1, <2>3, <3>2, DraftStep, RowsetsAre DEF GenerateInvoice, StripeInvoices, Tables
  <2> QED
    BY <1>2, <2>2, <2>3 DEF GenerateInvoice
<1>3. ASSUME ListInvoices(r) PROVE IInv'
  <2>1. pc[r] \notin Working
    BY <1>3 DEF ListInvoices, At, Working
  <2> QED
    BY <1>1, <1>3, <2>1, ReplyKeeps DEF ListInvoices, Working
<1> QED
  BY <1>2, <1>3

LEMMA WebhookStep ==
  ASSUME IInv, NEW r \in Requests, HandleWebhook(r)
  PROVE  IInv'
<1>1. pc[r] \notin Working /\ call[r].op = "webhook"
  BY DEF HandleWebhook, At, Working, IInv, RequestInv, Placed
<1>2. Honest(r, "rejected") /\ Honest(r, "processed") /\ Honest(r, "error")
  BY PlainAnswers
<1>3. CASE call[r].subject # "garbled" /\ call[r].subject \in Events
  <2>1. NewEvent(r) \in BillingEventRows
    BY <1>1, <1>3, CallTypes DEF IInv, NewEvent, MockEvent, StripeEvent, BillingEventRows
  <2> QED
    BY <1>1, <1>2, <1>3, <2>1, DraftStep, RowsetsAre DEF HandleWebhook, Tables
<1>4. CASE call[r].subject = "garbled" \/ call[r].subject \notin Events
  BY <1>1, <1>2, <1>4, ReplyKeeps DEF HandleWebhook, Working
<1> QED
  BY <1>3, <1>4

\* The plan that is served is one.
LEMMA ServedPlans ==
  ASSUME IInv, NEW tenant, NEW p \in PlansServed(tenant)
  PROVE  p \in Plans
<1>1. CASE PlansServed(tenant) = {"free"}
  BY <1>1 DEF Plans, PlanFeatures
<1>2. CASE PlansServed(tenant) = { Subscription(i).plan : i \in Latest(tenant, {"active"}) }
  <2>1. PICK i \in Latest(tenant, {"active"}) : p = Subscription(i).plan
    BY <1>2
  <2>2. i \in Rows("billing_subscriptions")
    BY DEF Latest, Subscriptions
  <2>3. Subscription(i) \in BillingSubscriptionRows
    BY <2>2, RowsetsAre DEF IInv, Committed, Subscription, Tables
  <2> QED
    BY <2>1, <2>3 DEF BillingSubscriptionRows
<1> QED
  BY <1>1, <1>2 DEF PlansServed

LEMMA ReadingStep ==
  ASSUME IInv, NEW r \in Requests, GetSubscription(r) \/ GetQuotaStatus(r)
  PROVE  IInv'
<1>1. pc[r] \notin Working
  BY DEF GetSubscription, GetQuotaStatus, At, Working
<1>2. Honest(r, "not_found") /\ Honest(r, "found")
  BY PlainAnswers
<1>3. ASSUME GetSubscription(r) PROVE IInv'
  BY <1>1, <1>2, <1>3, ReplyKeeps DEF GetSubscription, Working
<1>4. ASSUME GetQuotaStatus(r) PROVE IInv'
  <2>1. PICK p \in PlansServed(call[r].tenant) : Tell(r, p)
    BY <1>4 DEF GetQuotaStatus
  <2>2. p \in Plans
    BY ServedPlans
  <2>3. Honest(r, p)
    <3>1. Plans = {"free", "pro", "enterprise"}
      BY DEF Plans, PlanFeatures
    <3> QED
      BY <2>2, <3>1, PlainAnswers
  <2> QED
    BY <1>1, <2>1, <2>3, ReplyKeeps DEF Tell, Working
<1> QED
  BY <1>3, <1>4

LEMMA QuotaStep ==
  ASSUME IInv, NEW r \in Requests,
         CheckApiRequest(r) \/ CountRequests(r) \/ CheckFeature(r) \/ CheckProjectLimit(r)
  PROVE  IInv'
<1>1. Honest(r, "passed") /\ Honest(r, "exceeded")
  BY PlainAnswers
<1>2. DOMAIN Counting = {"free", "pro"} /\ \A p \in DOMAIN Counting : Counting[p] \in {"count_free", "count_pro"}
  BY DEF Counting
<1>3. pc[r] \notin Working
  <2>1. pc[r] \in {"check_request", "count_free", "count_pro", "check_feature", "check_projects"}
    BY <1>2 DEF CheckApiRequest, CountRequests, CheckFeature, CheckProjectLimit, At
  <2> QED
    BY <2>1 DEF Working
<1>4. ASSUME NEW passes, Check(r, passes) PROVE IInv'
  <2>1. /\ UNCHANGED <<call, draft, snapshot, info, db, world, history>>
        /\ Succeed(r, "passed") \/ Refuse(r, "exceeded")
    <3>1. CASE passes
      BY <1>4, <3>1 DEF Check, Succeed
    <3>2. CASE ~passes
      BY <1>4, <3>2 DEF Check, Refuse
    <3> QED
      BY <1>4, <3>1, <3>2 DEF Check
  <2> QED
    BY <1>1, <1>3, <2>1, ReplyKeeps DEF Working
<1>5. ASSUME NEW l \in {"count_free", "count_pro"}, Goto(r, l),
             UNCHANGED <<call, reply, draft, snapshot, info, db, world, history>>
      PROVE  IInv'
  <2>1. call' = call /\ draft' = draft /\ snapshot' = snapshot /\ info' = info /\ db' = db
        /\ pc'[r] = l /\ closed' = closed
    BY <1>5 DEF Goto, IInv, Shapes, history
  <2>2. DOMAIN snapshot' = Requests /\ DOMAIN info' = Requests
    BY <2>1 DEF IInv, Shapes
  <2>3. draft[r] = NoDraft
    BY <1>3 DEF IInv, RequestInv, Placed, Working
  <2>4. Placed(r)'
    BY <2>1, <2>3 DEF Placed, NoDraft
  <2>5. l \notin Working \cup {"idle"}
    BY DEF Working
  <2> QED
    BY <1>3, <1>5, <2>1, <2>2, <2>4, <2>5, GotoKeeps
<1>6. CheckApiRequest(r) =>
        \/ Check(r, TRUE)
        \/ \E p \in PlansServed(call[r].tenant) :
             /\ Goto(r, Counting[p]) /\ PlanFeatures[p].requests # -1
             /\ UNCHANGED <<call, reply, draft, snapshot, info, db, world, history>>
  BY DEF CheckApiRequest
<1>7. \A p \in PlansServed(call[r].tenant) :
        PlanFeatures[p].requests # -1 => Counting[p] \in {"count_free", "count_pro"}
  <2> SUFFICES ASSUME NEW p \in PlansServed(call[r].tenant), PlanFeatures[p].requests # -1
               PROVE  p \in DOMAIN Counting
    BY <1>2
  <2>1. p \in Plans
    BY ServedPlans
  <2>2. PlanFeatures["enterprise"].requests = -1 /\ Plans = {"free", "pro", "enterprise"}
    BY DEF Plans, PlanFeatures
  <2> QED
    BY <1>2, <2>1, <2>2
<1>8. ASSUME CheckApiRequest(r) PROVE IInv'
  BY <1>4, <1>5, <1>6, <1>7, <1>8
<1> QED
  BY <1>4, <1>8 DEF CountRequests, CheckFeature, CheckProjectLimit

LEMMA BillingKeeps ==
  ASSUME IInv, NEW r \in Requests, BillingStep(r)
  PROVE  IInv'
  BY CheckoutStep, ActivateStep, FindStep, StoreStep, FindLiveStep, CancelStep,
     StoreCancellationStep, InvoicesStep, WebhookStep, ReadingStep, QuotaStep DEF BillingStep

-----------------------------------------------------------------------------
(* Beginning, failing, and what no request does *)

\* The labels a request may begin with.
LEMMA StartPlaced ==
  ASSUME IInv, NEW r \in Requests, At(r, "idle"), NEW l, Goto(r, l),
         UNCHANGED <<call, draft, snapshot, info, db, reply, provider>>,
         l \notin Working \cup {"idle", "insert_tenant", "find", "store", "store_cancellation", "invoice"},
         l = "slug" => call[r].op = "create_tenant",
         l \in {"checkout", "activate", "webhook"} => call[r].op = l,
         l = "find_live" => call[r].op \in {"cancel", "generate_invoice"},
         l # "cancel"
  PROVE  Placed(r)'
<1>1. /\ pc'[r] = l /\ draft'[r] = NoDraft /\ NoDraft' = NoDraft /\ snapshot'[r] = Absent
  BY DEF Goto, At, IInv, Shapes, RequestInv, Placed, NoDraft
<1> QED
  BY <1>1 DEF Placed, Working

\* A call by no route, or a routed one that may have been refused.
LEMMA BeginningsAre ==
  ASSUME IInv, NEW r \in Requests, Call(r) \/ BillingRoute(r),
         UNCHANGED <<call, draft, snapshot, info, db, world>>
  PROVE  /\ At(r, "idle") /\ Placed(r)'
         /\ reply'[r] \in {"none", "forbidden", "error"}
         /\ pc'[r] \notin {"insert_trial", "commit", "done", "idle"}
         /\ \A q \in Requests \ {r} : pc'[q] = pc[q] /\ reply'[q] = reply[q]
         /\ DOMAIN pc' = Requests /\ DOMAIN reply' = Requests
<1>1. DOMAIN pc = Requests /\ DOMAIN reply = Requests
  BY DEF IInv, Shapes
<1>2. At(r, "idle")
  BY DEF Call, BillingRoute, CheckoutRoute, ActivateRoute, SubscriptionRoute, CancelRoute,
         InvoiceRoute, InvoicesRoute, WebhookRoute, QuotaRoute, Route
<1>3. reply[r] = "none"
  BY <1>2 DEF IInv, RequestInv, Placed, At
<1>4. provider' = provider
  BY DEF world
<1>5. ASSUME NEW a \in {"forbidden", "error"}, Refuse(r, a)
      PROVE  /\ Placed(r)' /\ reply'[r] \in {"none", "forbidden", "error"}
             /\ pc'[r] \notin {"insert_trial", "commit", "done", "idle"}
             /\ \A q \in Requests \ {r} : pc'[q] = pc[q] /\ reply'[q] = reply[q]
             /\ DOMAIN pc' = Requests /\ DOMAIN reply' = Requests
  <2>1. pc'[r] = "rollback" /\ reply'[r] = a
    BY <1>1, <1>5 DEF Refuse, Answer, Goto
  <2> QED
    BY <1>1, <1>5, <2>1 DEF Refuse, Answer, Goto, Placed
<1>6. ASSUME NEW l, Goto(r, l), UNCHANGED reply, Placed(r)', l \notin Working \cup {"idle"}
      PROVE  /\ reply'[r] \in {"none", "forbidden", "error"}
             /\ pc'[r] \notin {"insert_trial", "commit", "done", "idle"}
             /\ \A q \in Requests \ {r} : pc'[q] = pc[q] /\ reply'[q] = reply[q]
             /\ DOMAIN pc' = Requests /\ DOMAIN reply' = Requests
  BY <1>1, <1>3, <1>6 DEF Goto, Working
<1>7. CASE Call(r)
  <2> DEFINE l == IF call[r].op = "create_tenant" THEN "slug" ELSE call[r].op
  <2>1. Goto(r, l) /\ UNCHANGED reply /\ call[r] \in DirectCalls
    BY <1>7 DEF Call
  <2>2. call[r].op \notin {"cancel", "checkout", "activate", "webhook"}
    BY <2>1 DEF DirectCalls, TenantCreate, MemberCalls, ProjectCalls, ApiKeyCreate, KeyCalls,
         EventCreate, TenantCalls, LimitCalls, FeatureCalls, Request
  <2>3. call[r].op \notin
          {"slug", "insert_tenant", "insert_trial", "commit", "rollback", "idle", "done", "find",
           "store", "find_live", "invoice", "store_cancellation"}
    BY CallTypes DEF IInv
  <2> HIDE DEF l
  <2>4. /\ l \notin Working \cup {"idle", "insert_tenant", "find", "store", "store_cancellation",
                                  "invoice", "find_live", "cancel", "checkout", "activate", "webhook"}
        /\ l = "slug" => call[r].op = "create_tenant"
    BY <2>2, <2>3 DEF l, Working
  <2>5. Placed(r)'
    BY <1>2, <1>4, <2>1, <2>4, StartPlaced DEF l
  <2> QED
    BY <1>2, <1>6, <2>1, <2>4, <2>5 DEF l
<1>8. ASSUME NEW op, NEW needed, NEW l, Route(r, op, needed, l),
             l \notin Working \cup {"idle", "insert_tenant", "find", "store", "store_cancellation",
                                    "invoice", "cancel", "slug"},
             l \in {"checkout", "activate", "webhook"} => l = op,
             l = "find_live" => op \in {"cancel", "generate_invoice"}
      PROVE  /\ Placed(r)' /\ reply'[r] \in {"none", "forbidden", "error"}
             /\ pc'[r] \notin {"insert_trial", "commit", "done", "idle"}
             /\ \A q \in Requests \ {r} : pc'[q] = pc[q] /\ reply'[q] = reply[q]
             /\ DOMAIN pc' = Requests /\ DOMAIN reply' = Requests
  <2>1. CASE Refuse(r, "forbidden") \/ Refuse(r, "error")
    BY <1>5, <2>1
  <2>2. CASE Goto(r, l) /\ UNCHANGED reply
    <3>1. call[r].op = op
      BY <1>8 DEF Route
    <3>2. Placed(r)'
      BY <1>2, <1>4, <1>8, <2>2, <3>1, StartPlaced
    <3> QED
      BY <1>6, <1>8, <2>2, <3>2
  <2> QED
    BY <1>8, <2>1, <2>2 DEF Route
<1>9. CASE BillingRoute(r)
  <2>1. \/ Route(r, "checkout", {"billing.manage"}, "checkout")
        \/ Route(r, "activate", {"billing.manage"}, "activate")
        \/ Route(r, "get_subscription", {"billing.read"}, "get_subscription")
        \/ Route(r, "cancel", {"billing.manage"}, "find_live")
        \/ Route(r, "generate_invoice", {"billing.manage"}, "find_live")
        \/ Route(r, "list_invoices", {"billing.read"}, "list_invoices")
        \/ Route(r, "webhook", {}, "webhook")
        \/ Route(r, "quota", {"billing.read"}, "quota")
    BY <1>9 DEF BillingRoute, CheckoutRoute, ActivateRoute, SubscriptionRoute, CancelRoute,
         InvoiceRoute, InvoicesRoute, WebhookRoute, QuotaRoute
  <2> QED
    BY <1>2, <1>8, <2>1 DEF Working
<1> QED
  BY <1>2, <1>7, <1>9

LEMMA StartStep ==
  ASSUME IInv, NEW r \in Requests, Start(r)
  PROVE  IInv'
<1>1. /\ call' = call /\ draft' = draft /\ snapshot' = snapshot /\ info' = info /\ db' = db
      /\ clock' = clock /\ provider' = provider /\ contracts' = contracts
      /\ Call(r) \/ BillingRoute(r)
  BY DEF Start, world
<1>2. /\ pc[r] = "idle" /\ Placed(r)' /\ reply'[r] \in {"none", "forbidden", "error"}
      /\ pc'[r] \notin {"insert_trial", "commit"}
      /\ \A q \in Requests \ {r} : pc'[q] = pc[q] /\ reply'[q] = reply[q]
      /\ DOMAIN pc' = Requests /\ DOMAIN reply' = Requests
  BY <1>1, BeginningsAre DEF At, world
<1>3. /\ \A q \in Requests \ {r} : q \in closed' <=> q \in closed
      /\ r \in closed' => \/ r \in closed
                          \/ call[r].op = "verify_api_key" /\ Revoked(call[r].subject)
      /\ closed' \subseteq closed \cup {r}
  BY DEF Start
<1>4. Alone(r)
  BY <1>1, <1>2, <1>3 DEF IInv, Shapes, Alone
<1>5. Answered(r)'
  <2>1. r \in closed => call[r].op = "verify_api_key" /\ Revoked(call[r].subject)
    BY DEF IInv, RequestInv, Answered
  <2>2. Revoked(call[r].subject)' = Revoked(call[r].subject)
    BY <1>1 DEF Revoked, Rows
  <2> QED
    BY <1>1, <1>2, <1>3, <2>1, <2>2 DEF Answered
<1> QED
  BY <1>1, <1>2, <1>4, <1>5, QuietKeeps

LEMMA FaultKeeps ==
  ASSUME IInv, NEW r \in Requests, Fault(r)
  PROVE  IInv'
<1>1. Honest(r, "error")
  BY PlainAnswers
<1>2. ASSUME CommitFails(r) PROVE IInv'
  <2>1. InFlight(r)
    BY <1>2 DEF CommitFails, At, InFlight, Waiting
  <2> QED
    BY <1>2, <2>1, CommitKeeps, CloseKeeps DEF CommitFails
<1>3. ASSUME StatementFails(r) PROVE IInv'
  BY <1>1, <1>3, ReplyKeeps DEF StatementFails, InFlight, Waiting
<1>4. ASSUME ProviderFails(r) PROVE IInv'
  <2>1. pc[r] \in Asking /\ pc[r] # "done" /\ Refuse(r, "error")
    BY <1>4 DEF ProviderFails, Asking
  <2>2. contracts' \in [Sessions -> [status : Statuses, ending : BOOLEAN]]
    <3>1. contracts \in [Sessions -> [status : Statuses, ending : BOOLEAN]]
      BY DEF IInv, Shapes
    <3>2. PICK id : contracts' = contracts \/ contracts' = Marked(id)
      BY ONLY <1>4 DEF ProviderFails
    <3>3. \A s \in Sessions : [contracts[s] EXCEPT !.ending = TRUE] \in [status : Statuses, ending : BOOLEAN]
      BY ONLY <3>1
    <3>4. Marked(id) \in [Sessions -> [status : Statuses, ending : BOOLEAN]]
      BY ONLY <3>1, <3>3 DEF Marked
    <3> QED
      BY ONLY <3>1, <3>2, <3>4
  <2> QED
    BY <1>1, <1>4, <2>1, <2>2, EndingStep DEF ProviderFails
<1>5. ASSUME ProcessDies(r) PROVE IInv'
  BY <1>5, CloseKeeps DEF ProcessDies
<1> QED
  BY <1>2, <1>3, <1>4, <1>5 DEF Fault

\* The clock, and Stripe's contracts.
LEMMA WorldKeeps ==
  ASSUME IInv, UNCHANGED <<request, db, provider, history>>, clock' \in Times,
         contracts' \in [Sessions -> [status : Statuses, ending : BOOLEAN]]
  PROVE  IInv'
<1>1. /\ call' = call /\ pc' = pc /\ reply' = reply /\ draft' = draft /\ snapshot' = snapshot
      /\ info' = info /\ db' = db /\ provider' = provider /\ closed' = closed
  BY DEF request, history
<1>2. \A t \in Tables : StoredRows(t)' = StoredRows(t) /\ Rows(t)' = Rows(t)
  BY <1>1, RowsStay DEF Rows
<1>3. Grows /\ \A r \in Requests : Untouched(r) /\ FreshSlugs(r)
  BY <1>1, <1>2 DEF Grows, Untouched, FreshSlugs, Tables
<1>4. \A r \in Requests : RequestInv(r)'
  BY <1>3, RequestLasts
<1>5. Shapes' /\ SlugsApart'
  BY <1>1 DEF IInv, Shapes, SlugsApart
<1>6. Committed'
  BY <1>1, <1>2 DEF IInv, Committed, Tables
<1> QED
  BY <1>4, <1>5, <1>6 DEF IInv

LEMMA SoftDeleteKeeps ==
  ASSUME IInv, NEW table \in {"tenants", "projects"}, NEW i \in Requests, SoftDelete(table, i)
  PROVE  IInv'
<1>1. /\ call' = call /\ pc' = pc /\ reply' = reply /\ draft' = draft /\ snapshot' = snapshot
      /\ info' = info /\ clock' = clock /\ provider' = provider /\ contracts' = contracts
      /\ closed' = closed /\ i \in Rows(table) /\ table \in Tables
      /\ db' = [db EXCEPT ![table][i].deleted = TRUE]
  BY DEF SoftDelete, request, world, history, Tables
<1>2. DOMAIN db = Tables /\ \A t \in Tables : DOMAIN db[t] = Requests
  BY DEF IInv, Shapes
<1>3. /\ DOMAIN db' = Tables /\ \A t \in Tables : DOMAIN db'[t] = Requests
      /\ \A t \in Tables, j \in Requests : t # table \/ j # i => db'[t][j] = db[t][j]
      /\ db'[table][i] = [db[table][i] EXCEPT !.deleted = TRUE]
  BY <1>1, <1>2
<1>4. /\ db[table][i] \in StoredRows(table) /\ pc[i] = "done"
      /\ table = "tenants" => db[table][i] \in TenantRows
      /\ table = "projects" => db[table][i] \in ProjectRows
  BY <1>1, RowsetsAre DEF IInv, Committed
<1>5. /\ db'[table][i] \in StoredRows(table)
      /\ table = "tenants" => db'[table][i].slug = db[table][i].slug
  <2>1. CASE table = "tenants"
    BY <1>3, <1>4, <2>1, RowsetsAre DEF TenantRows
  <2>2. CASE table = "projects"
    BY <1>3, <1>4, <2>2, RowsetsAre DEF ProjectRows
  <2> QED
    BY <2>1, <2>2
<1>6. \A t \in Tables : StoredRows(t)' = StoredRows(t)
  BY <1>1, RowsStay
<1>7. \A t \in Tables : Rows(t)' = Rows(t)
  <2>1. db'[table][i] # Absent
    BY <1>1, <1>5, StoredRowsAre
  <2>2. \A t \in Tables, j \in Requests : db'[t][j] # Absent <=> db[t][j] # Absent
    BY <1>1, <1>3, <2>1 DEF Rows
  <2> QED
    BY <2>2 DEF Rows
<1>8. /\ \A j \in Rows("tenants") : db'["tenants"][j].slug = db["tenants"][j].slug
      /\ \A j \in Rows("api_keys") : db'["api_keys"][j] = db["api_keys"][j]
      /\ "tenants" \in Tables /\ "api_keys" \in Tables /\ "subscriptions" \in Tables
  BY <1>3, <1>5 DEF Rows, Tables
<1>9. Grows /\ \A r \in Requests : Untouched(r) /\ FreshSlugs(r)
  BY <1>1, <1>7, <1>8 DEF Grows, Untouched, FreshSlugs
<1>10. \A r \in Requests : RequestInv(r)'
  BY <1>9, RequestLasts
<1>11. Shapes' /\ SlugsApart'
  BY <1>1, <1>3 DEF IInv, Shapes, SlugsApart
<1>12. Committed'
  <2>1. \A t \in Tables : \A j \in Rows(t) : db'[t][j] \in StoredRows(t) /\ pc[j] = "done"
    <3> SUFFICES ASSUME NEW t \in Tables, NEW j \in Rows(t)
                 PROVE  db'[t][j] \in StoredRows(t) /\ pc[j] = "done"
      OBVIOUS
    <3>1. db[t][j] \in StoredRows(t) /\ pc[j] = "done" /\ j \in Requests
      BY DEF IInv, Committed, Rows
    <3>2. CASE t = table /\ j = i
      BY <1>5, <3>1, <3>2
    <3>3. CASE t # table \/ j # i
      BY <1>3, <3>1, <3>3
    <3> QED
      BY <3>2, <3>3
  <2>2. \A t \in Tables : \A j \in Rows(t)' : db'[t][j] \in StoredRows(t)' /\ pc'[j] = "done"
    BY <1>1, <1>6, <1>7, <2>1
  <2>3. \A j \in Rows("tenants")' : db'["tenants"][j].slug = call'[j].subject
    BY <1>1, <1>7, <1>8 DEF IInv, Committed
  <2>4. \A j, k \in Rows("tenants")' : db'["tenants"][j].slug = db'["tenants"][k].slug => j = k
    BY <1>7, <1>8 DEF IInv, Committed
  <2>5. Rows("tenants")' = Rows("subscriptions")'
    BY <1>7, <1>8 DEF IInv, Committed
  <2> QED
    BY <2>2, <2>3, <2>4, <2>5 DEF Committed
<1> QED
  BY <1>10, <1>11, <1>12 DEF IInv

LEMMA TickKeeps ==
  ASSUME IInv, Tick
  PROVE  IInv'
<1>1. clock' \in Times
  BY DEF Tick, IInv, Shapes, Times
<1>2. UNCHANGED <<request, db, provider, history>> /\ contracts' = contracts
  BY DEF Tick
<1> QED
  BY <1>1, <1>2, WorldKeeps DEF IInv, Shapes

LEMMA ContractKeeps ==
  ASSUME IInv, NEW s \in Sessions, ContractMoves(s)
  PROVE  IInv'
<1>1. UNCHANGED <<request, db, provider, history>> /\ clock' = clock
  BY DEF ContractMoves
<1>2. contracts' \in [Sessions -> [status : Statuses, ending : BOOLEAN]]
  BY DEF ContractMoves, IInv, Shapes, Statuses, LiveStatuses
<1> QED
  BY <1>1, <1>2, WorldKeeps DEF IInv, Shapes

-----------------------------------------------------------------------------
(* The theorems *)

LEMMA InitIInv == Init => IInv
<1> SUFFICES ASSUME Init PROVE IInv
  OBVIOUS
<1>1. PICK mix \in Mixes : call = mix.calls /\ provider = mix.provider
  BY DEF Init
<1>2. call \in [Requests -> RoutedCalls \cup DirectCalls] /\ provider \in Providers
  BY <1>1, MixesAssumption
<1>3. /\ \A r \in Requests : pc[r] = "idle" /\ reply[r] = "none" /\ draft[r] = NoDraft /\ snapshot[r] = Absent
      /\ DOMAIN pc = Requests /\ DOMAIN reply = Requests /\ DOMAIN draft = Requests
      /\ DOMAIN snapshot = Requests /\ DOMAIN info = Requests
      /\ DOMAIN db = Tables /\ \A t \in Tables : DOMAIN db[t] = Requests
      /\ \A t \in Tables, i \in Requests : db[t][i] = Absent
      /\ clock = 0 /\ closed = {}
      /\ contracts = [s \in Sessions |-> [status |-> "active", ending |-> FALSE]]
  BY DEF Init
<1>4. contracts \in [Sessions -> [status : Statuses, ending : BOOLEAN]]
  BY <1>3 DEF Statuses, LiveStatuses
<1>5. Shapes
  BY <1>2, <1>3, <1>4 DEF Shapes, NoDraft, Times
<1>6. \A t \in Tables : Rows(t) = {}
  BY <1>3 DEF Rows
<1>7. Committed
  BY <1>6 DEF Committed, Tables
<1>8. SlugsApart
  BY <1>3 DEF SlugsApart, NoDraft, Tables
<1>9. \A r \in Requests : RequestInv(r)
  BY <1>3 DEF RequestInv, Placed, Drafted, Answered, NoDraft, Tables
<1> QED
  BY <1>5, <1>7, <1>8, <1>9 DEF IInv

LEMMA NextIInv == IInv /\ [Next]_vars => IInv'
<1> SUFFICES ASSUME IInv, [Next]_vars PROVE IInv'
  OBVIOUS
<1>1. ASSUME NEW r \in Requests, Step(r) PROVE IInv'
  <2>1. CASE Commit(r)
    BY <2>1, CommitKeeps DEF Commit
  <2>2. CASE Rollback(r)
    <3>1. InFlight(r)
      BY <2>2 DEF Rollback, At, InFlight, Waiting
    <3> QED
      BY <2>2, <3>1, CloseKeeps DEF Rollback
  <2> QED
    BY <1>1, <2>1, <2>2, StartStep, TenancyKeeps, BillingKeeps DEF Step
<1>2. ASSUME NEW r \in Requests, Fault(r) PROVE IInv'
  BY <1>2, FaultKeeps
<1>3. ASSUME NEW s \in Sessions, ContractMoves(s) PROVE IInv'
  BY <1>3, ContractKeeps
<1>4. ASSUME NEW table \in {"tenants", "projects"}, NEW i \in Requests, SoftDelete(table, i)
      PROVE  IInv'
  BY <1>4, SoftDeleteKeeps
<1>5. CASE Tick
  BY <1>5, TickKeeps
<1>6. CASE UNCHANGED vars
  BY <1>6, WorldKeeps DEF vars, request, history, IInv, Shapes
<1> QED
  BY <1>1, <1>2, <1>3, <1>4, <1>5, <1>6 DEF Next

LEMMA Invariance == Spec => []IInv
  BY InitIInv, NextIInv, PTL DEF Spec

\* Every table only ever holds rows of its columns: all but a billing event's with a
\* tenant, and no event with a secret whose label, name or shape gave it away.
THEOREM TypeCorrect == Spec => []TypeOK
<1>1. IInv => TypeOK
  BY StoredRowsAre DEF IInv, Committed, Rows, TypeOK
<1> QED
  BY <1>1, Invariance, PTL

\* However many requests ask for a slug, and wherever one of them fails: one tenant
\* has it, with its trial, and nobody is refused a slug that no tenant has.
THEOREM OnboardingIsWhole == Spec => []OnboardingWhole
<1>1. IInv => OnboardingWhole
  BY DEF IInv, Committed, RequestInv, Answered, OnboardingWhole
<1> QED
  BY <1>1, Invariance, PTL

\* Whoever checks a key after its revocation was committed is told that it is not
\* valid, and a key is only revoked in the name of its own tenant.
THEOREM RevokedKeysStayRefused == Spec => []RevokedRefused
<1>1. IInv => RevokedRefused
  BY DEF IInv, Shapes, RequestInv, Answered, RevokedRefused
<1> QED
  BY <1>1, Invariance, PTL

-----------------------------------------------------------------------------
(* The books: what a subscription's row says, and what the changes came to *)

Bill(r) == draft[r]["billing_subscriptions"]

\* Where a request that changes a subscription may be, and what it may write.
WriterLabels ==
  {"idle", "activate", "find", "store", "find_live", "cancel", "store_cancellation",
   "commit", "rollback", "done"}

WriterInv(r) ==
  /\ Writes(r) => pc[r] \in WriterLabels
  /\ pc[r] \in {"cancel", "store_cancellation"} => call[r].op = "cancel"
  /\ info[r] # Absent => Writes(r)
  /\ pc[r] \in {"cancel", "store_cancellation"} \/ (pc[r] = "store" /\ snapshot[r] # Absent) =>
       snapshot[r].id \in Subscriptions(call[r].tenant)
  /\ Bill(r) # Absent =>
       /\ Writes(r) /\ info[r] # Absent
       /\ \/ Bill(r).id = r /\ Bill(r).values.tenant = call[r].tenant
          \/ /\ Bill(r).id \in Subscriptions(call[r].tenant)
             /\ "tenant" \notin DOMAIN Bill(r).values

Writer(t, r) == Writes(r) /\ call[r].tenant = t /\ InFlight(r)

Settled(t) ==
  \/ told[t] = Absent /\ Subscriptions(t) = {}
  \/ /\ DOMAIN told[t] = InfoFields
     /\ \E i \in Requests : Subscriptions(t) = {i} /\ Agrees(Subscription(i), told[t])

\* What the request has loaded is the tenant's row, and still as it was.
Snapped(r) ==
  /\ snapshot[r] # Absent
  /\ Subscriptions(call[r].tenant) = {snapshot[r].id}
  /\ Subscription(snapshot[r].id) = snapshot[r].row

\* The row says what the change comes to, or will once the draft is committed.
Stored(r) ==
  /\ DOMAIN Word(r) = InfoFields
  /\ \/ /\ Bill(r) = Absent
        /\ \E i \in Requests : /\ Subscriptions(call[r].tenant) = {i}
                               /\ Agrees(Subscription(i), Word(r))
     \/ /\ Bill(r) # Absent
        /\ Subscriptions(call[r].tenant) \subseteq {Bill(r).id}
        /\ Agrees(Patch(Subscription(Bill(r).id), Bill(r).values), Word(r))

\* What the only writer of a tenant knows.
OnBooks(r) ==
  /\ pc[r] \in {"cancel", "store_cancellation"} => Snapped(r)
  /\ pc[r] = "find" => \A i, j \in Subscriptions(call[r].tenant) : i = j
  /\ pc[r] = "store" =>
       (snapshot[r] = Absent /\ Subscriptions(call[r].tenant) = {}) \/ Snapped(r)
  /\ pc[r] = "commit" /\ info[r] # Absent => Stored(r)

\* One writer at a time; the books are always settled, and the writer knows what it
\* will make of them.
BookInv(t) ==
  /\ \A q, r \in Requests : Writer(t, q) /\ Writer(t, r) => q = r
  /\ Settled(t)
  /\ \A r \in Requests : Writer(t, r) => OnBooks(r)

Calm == { t \in Tenants : Undisturbed(t) }

\* About to insert a row.
Fresh(r) ==
  /\ InFlight(r)
  /\ (pc[r] = "store" /\ snapshot[r] = Absent) \/ (Bill(r) # Absent /\ Bill(r).id = r)

\* Changes under way side by side, a row that is coming with those there are, and these
\* with each other come of changes that have overlapped.
Pairs ==
  /\ \A q, r \in Requests :
       q # r /\ InFlight(q) /\ InFlight(r) /\ Writes(q) /\ Writes(r)
       /\ call[q].tenant = call[r].tenant => {q, r} \in overlaps
  /\ \A r \in Requests : Fresh(r) => \A i \in Subscriptions(call[r].tenant) : {i, r} \in overlaps
  /\ \A t : \A i, j \in Subscriptions(t) : i # j => {i, j} \in overlaps

Books ==
  /\ \A r \in Requests : WriterInv(r)
  /\ \A t \in Calm : BookInv(t)
  /\ Pairs

Kept(q) == pc'[q] = pc[q] /\ snapshot'[q] = snapshot[q] /\ info'[q] = info[q] /\ draft'[q] = draft[q]
Only(r) == call' = call /\ \A q \in Requests \ {r} : Kept(q)

Lasting(t) ==
  /\ Subscriptions(t)' = Subscriptions(t)
  /\ \A i \in Subscriptions(t) : Subscription(i)' = Subscription(i)

LEMMA CalmShrinks ==
  ASSUME call' = call, overlaps \subseteq overlaps'
  PROVE  Calm' \subseteq Calm
  BY DEF Calm, Undisturbed

\* A row of a request that is not over is none yet.
LEMMA NoRowYet ==
  ASSUME IInv, NEW r \in Requests, InFlight(r) \/ At(r, "idle")
  PROVE  Subscription(r) = Absent /\ \A t : r \notin Subscriptions(t)
<1>1. r \notin Rows("billing_subscriptions")
  BY DEF IInv, Committed, Tables, InFlight, Waiting, At
<1> QED
  BY <1>1 DEF Rows, Subscription, Subscriptions

LEMMA WriterLasts ==
  ASSUME NEW q \in Requests, WriterInv(q), Kept(q), call' = call,
         Subscriptions(call[q].tenant) \subseteq Subscriptions(call[q].tenant)'
  PROVE  WriterInv(q)'
<1>1. Writes(q)' <=> Writes(q)
  BY DEF Writes
<1>2. /\ pc'[q] = pc[q] /\ snapshot'[q] = snapshot[q] /\ info'[q] = info[q]
      /\ Bill(q)' = Bill(q)
  BY DEF Kept, Bill
<1>3. \A i : i \in Subscriptions(call[q].tenant) => i \in Subscriptions(call[q].tenant)'
  OBVIOUS
<1> QED
  BY <1>1, <1>2, <1>3 DEF WriterInv

LEMMA SettledLasts ==
  ASSUME NEW t, Settled(t), Lasting(t), told'[t] = told[t]
  PROVE  Settled(t)'
  BY DEF Settled, Lasting, Agrees, Subscription

LEMMA OnBooksLasts ==
  ASSUME IInv, IInv', NEW q \in Requests, WriterInv(q), Writes(q), InFlight(q), OnBooks(q), Kept(q),
         call' = call, Lasting(call[q].tenant), told'[call[q].tenant] = told[call[q].tenant]
  PROVE  OnBooks(q)'
<1> DEFINE t == call[q].tenant
<1>1. /\ pc'[q] = pc[q] /\ snapshot'[q] = snapshot[q] /\ info'[q] = info[q]
      /\ Bill(q)' = Bill(q) /\ call'[q].tenant = t
  BY DEF Kept, Bill
<1>2. /\ Subscriptions(t)' = Subscriptions(t)
      /\ \A i \in Subscriptions(t) : Subscription(i)' = Subscription(i)
  BY DEF Lasting
<1>3. Subscriptions(call[q].tenant)' = Subscriptions(call[q].tenant)
  BY <1>2
<1>4. InFlight(q)'
  BY <1>1 DEF InFlight, Waiting
<1>5. Subscription(q) = Absent /\ Subscription(q)' = Absent
  <2>1. Subscription(q) = Absent
    BY NoRowYet
  <2>2. q \notin Rows("billing_subscriptions")'
    BY <1>4 DEF IInv, Committed, Tables, InFlight, Waiting
  <2> QED
    BY <2>1, <2>2 DEF Rows, Subscription
<1>6. Snapped(q) => Snapped(q)'
  <2> SUFFICES ASSUME Snapped(q) PROVE Snapped(q)'
    OBVIOUS
  <2>1. snapshot[q].id \in Subscriptions(t)
    BY DEF Snapped
  <2>2. Subscription(snapshot[q].id)' = Subscription(snapshot[q].id)
    BY <1>1, <1>2, <2>1 DEF Subscription
  <2> QED
    BY <1>1, <1>2, <2>2 DEF Snapped
<1>7. Stored(q) => Stored(q)'
  <2>0. Word(q)' = Word(q)
    BY <1>1 DEF Word
  <2>1. CASE Bill(q) = Absent
    BY <1>1, <1>2, <2>0, <2>1 DEF Stored, Agrees, Subscription
  <2>2. CASE Bill(q) # Absent
    <3>1. Bill(q).id = q \/ Bill(q).id \in Subscriptions(t)
      BY <2>2 DEF WriterInv
    <3>2. \A i : i = q \/ i \in Subscriptions(t) => Subscription(i)' = Subscription(i)
      BY <1>2, <1>5 DEF Subscription
    <3>3. Subscription(Bill(q).id)' = Subscription(Bill(q).id)
      BY <1>1, <3>1, <3>2 DEF Subscription
    <3> QED
      BY <1>1, <1>2, <2>0, <2>2, <3>3 DEF Stored, Agrees, Patch
  <2> QED
    BY <2>1, <2>2
<1> QED
  BY <1>1, <1>2, <1>6, <1>7 DEF OnBooks

LEMMA TableKept ==
  ASSUME db'["billing_subscriptions"] = db["billing_subscriptions"]
  PROVE  /\ \A t : Lasting(t) /\ Subscriptions(t)' = Subscriptions(t)
         /\ \A i : Subscription(i)' = Subscription(i)
<1>1. \A i : Subscription(i)' = Subscription(i)
  BY DEF Subscription
<1>2. Rows("billing_subscriptions")' = Rows("billing_subscriptions")
  BY DEF Rows
<1>3. \A t : Subscriptions(t)' = Subscriptions(t)
  BY <1>1, <1>2 DEF Subscriptions
<1> QED
  BY <1>1, <1>3 DEF Lasting

\* The books of a tenant last as long as nobody who changes them moves.
LEMMA BookLasts ==
  ASSUME IInv, IInv', \A q \in Requests : WriterInv(q), NEW t \in Tenants, BookInv(t),
         call' = call, Lasting(t), told'[t] = told[t],
         \A q \in Requests : Writer(t, q) \/ Writer(t, q)' => Kept(q)
  PROVE  BookInv(t)'
<1>1. \A q \in Requests : Writer(t, q)' <=> Writer(t, q)
  BY DEF Writer, Writes, Kept, InFlight, Waiting
<1>2. \A q \in Requests : Writer(t, q)' => OnBooks(q)'
  <2> SUFFICES ASSUME NEW q \in Requests, Writer(t, q)' PROVE OnBooks(q)'
    OBVIOUS
  <2>1. Writer(t, q) /\ Kept(q)
    BY <1>1
  <2>2. Writes(q) /\ call[q].tenant = t /\ InFlight(q) /\ OnBooks(q)
    BY <2>1 DEF Writer, BookInv
  <2> QED
    BY <2>1, <2>2, OnBooksLasts
<1>3. Settled(t)'
  BY SettledLasts DEF BookInv
<1> QED
  BY <1>1, <1>2, <1>3 DEF BookInv

\* A row that is coming is new.
LEMMA FreshIsNew ==
  ASSUME IInv, NEW r \in Requests, WriterInv(r), Fresh(r)
  PROVE  Writes(r) /\ \A t : r \notin Subscriptions(t)
<1>1. Writes(r)
  BY DEF Fresh, WriterInv, IInv, RequestInv, Placed, Writes
<1>2. \A t : r \notin Subscriptions(t)
  BY NoRowYet DEF Fresh
<1> QED
  BY <1>1, <1>2

\* One request moves: who begins, what row it adds and what row is coming.
LEMMA PairsKept ==
  ASSUME IInv, IInv', Books, NEW r \in Requests, Only(r), overlaps \subseteq overlaps', WriterInv(r)',
         InFlight(r)' /\ Writes(r) => InFlight(r) \/ \A q \in Rivals(r) : {q, r} \in overlaps',
         \A u : \A i \in Subscriptions(u)' :
           i \in Subscriptions(u) \/ (i = r /\ Fresh(r) /\ u = call[r].tenant),
         Fresh(r)' => Fresh(r) \/ Subscriptions(call[r].tenant)' = {}
  PROVE  Pairs'
<1>1. call' = call /\ \A q \in Requests \ {r} : Kept(q)
  BY DEF Only
<1>2. \A q \in Requests : Writes(q)' <=> Writes(q)
  BY <1>1 DEF Writes
<1>3. \A q \in Requests \ {r} : (InFlight(q)' <=> InFlight(q)) /\ (Fresh(q)' <=> Fresh(q))
  BY <1>1 DEF Kept, InFlight, Waiting, Fresh, Bill
<1>4. Pairs /\ \A q \in Requests : WriterInv(q)
  BY DEF Books
<1>5. \A a, b : {a, b} = {b, a}
  OBVIOUS
<1>6. ASSUME NEW q \in Requests \ {r}, InFlight(q)', InFlight(r)', Writes(q), Writes(r),
             call[q].tenant = call[r].tenant
      PROVE  {q, r} \in overlaps'
  <2>1. InFlight(q)
    BY <1>3, <1>6
  <2>2. CASE InFlight(r)
    BY <1>4, <1>6, <2>1, <2>2 DEF Pairs
  <2>3. CASE ~InFlight(r)
    BY <1>6, <2>1, <2>3 DEF Rivals
  <2> QED
    BY <2>2, <2>3
<1>7. ASSUME NEW q \in Requests, NEW s \in Requests, q # s, InFlight(q)', InFlight(s)',
             Writes(q), Writes(s), call[q].tenant = call[s].tenant
      PROVE  {q, s} \in overlaps'
  <2>1. CASE q # r /\ s # r
    BY <1>3, <1>4, <1>7, <2>1 DEF Pairs
  <2>2. CASE s = r
    BY <1>6, <1>7, <2>2
  <2>3. CASE q = r
    <3>1. {s, r} \in overlaps'
      BY <1>6, <1>7, <2>3
    <3> QED
      BY <1>5, <2>3, <3>1
  <2> QED
    BY <2>1, <2>2, <2>3
<1>8. ASSUME NEW q \in Requests, Fresh(q)', NEW u, u = call[q].tenant, NEW i \in Subscriptions(u)'
      PROVE  {i, q} \in overlaps'
  <2>1. CASE q # r
    <3>1. Fresh(q) /\ InFlight(q) /\ Writes(q)
      BY <1>3, <1>4, <1>8, <2>1, FreshIsNew DEF Fresh
    <3>2. CASE i \in Subscriptions(u)
      BY <1>4, <1>8, <3>1, <3>2 DEF Pairs
    <3>3. CASE i = r /\ Fresh(r) /\ u = call[r].tenant
      <4>1. InFlight(r) /\ Writes(r)
        BY <1>4, <3>3, FreshIsNew DEF Fresh
      <4>2. {r, q} \in overlaps
        BY <1>4, <1>8, <2>1, <3>1, <3>3, <4>1 DEF Pairs
      <4> QED
        BY <3>3, <4>2
    <3> QED
      BY <1>8, <3>2, <3>3
  <2>2. CASE q = r
    <3>1. \A v : v = u => Subscriptions(v)' # {}
      BY <1>8
    <3>2. Subscriptions(call[r].tenant)' # {}
      BY <1>1, <1>8, <2>2, <3>1 DEF Subscriptions
    <3>3. Fresh(r)
      BY <1>8, <2>2, <3>2
    <3>4. i # r
      <4>1. InFlight(r)'
        BY <1>8, <2>2 DEF Fresh
      <4>2. r \notin Rows("billing_subscriptions")'
        BY <4>1 DEF IInv, Committed, Tables, InFlight, Waiting
      <4> QED
        BY <1>8, <4>2 DEF Subscriptions
    <3> QED
      BY <1>4, <1>8, <2>2, <3>3, <3>4 DEF Pairs
  <2> QED
    BY <2>1, <2>2
<1>9. ASSUME NEW u, NEW i \in Subscriptions(u)', NEW j \in Subscriptions(u)', i # j
      PROVE  {i, j} \in overlaps'
  <2>1. CASE i \in Subscriptions(u) /\ j \in Subscriptions(u)
    BY <1>4, <1>9, <2>1 DEF Pairs
  <2>2. CASE i \in Subscriptions(u) /\ j = r /\ Fresh(r) /\ u = call[r].tenant
    BY <1>4, <2>2 DEF Pairs
  <2>3. CASE j \in Subscriptions(u) /\ i = r /\ Fresh(r) /\ u = call[r].tenant
    <3>1. {j, r} \in overlaps
      BY <1>4, <2>3 DEF Pairs
    <3> QED
      BY <1>5, <2>3, <3>1
  <2> QED
    BY <1>9, <2>1, <2>2, <2>3
<1>10. \A q \in Requests : Fresh(q)' => \A i \in Subscriptions(call[q].tenant)' : {i, q} \in overlaps'
  <2> SUFFICES ASSUME NEW q \in Requests, Fresh(q)', NEW i \in Subscriptions(call[q].tenant)'
               PROVE  {i, q} \in overlaps'
    OBVIOUS
  <2>1. PICK u : u = call[q].tenant
    OBVIOUS
  <2>2. i \in Subscriptions(u)'
    BY <1>1, <2>1 DEF Subscriptions
  <2> QED
    BY <1>8, <2>1, <2>2
<1> QED
  BY <1>1, <1>2, <1>7, <1>9, <1>10 DEF Pairs

\* A request moves: of its tenant it has to show what it leaves, of others nothing.
LEMMA BooksKept ==
  ASSUME IInv, IInv', Books, NEW r \in Requests, Only(r), overlaps \subseteq overlaps',
         \A u \in Tenants : ~(Writes(r) /\ call[r].tenant = u) => Lasting(u) /\ told'[u] = told[u],
         \A u : Subscriptions(u) \subseteq Subscriptions(u)',
         WriterInv(r)',
         Writes(r) /\ call[r].tenant \in Calm' => \A u : u = call[r].tenant => BookInv(u)',
         Pairs'
  PROVE  Books'
<1>1. call' = call /\ \A q \in Requests \ {r} : Kept(q)
  BY DEF Only
<1>2. \A q \in Requests : WriterInv(q)'
  BY <1>1, WriterLasts DEF Books
<1>3. ASSUME NEW u \in Calm' PROVE BookInv(u)'
  <2>1. CASE Writes(r) /\ call[r].tenant = u
    BY <1>3, <2>1
  <2>2. CASE ~(Writes(r) /\ call[r].tenant = u)
    <3>1. u \in Tenants /\ BookInv(u) /\ \A q \in Requests : WriterInv(q)
      BY <1>1, <1>3, CalmShrinks DEF Books, Calm
    <3>2. Lasting(u) /\ told'[u] = told[u]
      BY <2>2, <3>1
    <3>3. \A q \in Requests : Writer(u, q) \/ Writer(u, q)' => Kept(q)
      BY <1>1, <2>2 DEF Writer, Writes
    <3> QED
      BY <1>1, <3>1, <3>2, <3>3, BookLasts
  <2> QED
    BY <2>1, <2>2
<1> QED
  BY <1>2, <1>3 DEF Books

\* A request that changes no subscription.
LEMMA Bystander ==
  ASSUME IInv, IInv', Books, NEW r \in Requests, ~Writes(r), Only(r),
         overlaps \subseteq overlaps', told' = told, info'[r] \in {info[r], Absent},
         db'["billing_subscriptions"] = db["billing_subscriptions"],
         Bill(r)' = Absent, pc'[r] \notin {"cancel", "store_cancellation"}
  PROVE  Books'
<1>1. Writes(r)' <=> Writes(r)
  BY DEF Writes, Only
<1>2. Placed(r)'
  BY DEF IInv, RequestInv
<1>3. WriterInv(r)'
  BY <1>1, <1>2 DEF Books, WriterInv, Placed, Writes
<1>4. ~Fresh(r)'
  BY <1>1, <1>2 DEF Fresh, Placed, Writes
<1>5. Pairs'
  BY <1>3, <1>4, TableKept, PairsKept
<1> QED
  BY <1>3, <1>5, TableKept, BooksKept

Holds(r) == OnBooks(r) /\ Settled(call[r].tenant)

\* The only request under way that changes a tenant's subscription.
LEMMA WriterMoves ==
  ASSUME IInv, IInv', Books, NEW r \in Requests, Writes(r), InFlight(r), Only(r),
         overlaps \subseteq overlaps',
         \A u \in Tenants \ {call[r].tenant} : Lasting(u) /\ told'[u] = told[u],
         \A u : Subscriptions(u) \subseteq Subscriptions(u)',
         \A u : \A i \in Subscriptions(u)' :
           i \in Subscriptions(u) \/ (i = r /\ Fresh(r) /\ u = call[r].tenant),
         Fresh(r)' => Fresh(r) \/ Subscriptions(call[r].tenant)' = {},
         WriterInv(r)',
         call[r].tenant \in Tenants /\ Holds(r) =>
           \/ InFlight(r)' /\ Holds(r)'
           \/ ~InFlight(r)' /\ \A u : u = call[r].tenant => Settled(u)'
  PROVE  Books'
<1> DEFINE t == call[r].tenant
<1>1. call' = call /\ \A q \in Requests \ {r} : Kept(q)
  BY DEF Only
<1>2. ASSUME t \in Calm' PROVE \A u : u = t => BookInv(u)'
  <2>1. t \in Tenants /\ BookInv(t)
    BY <1>1, <1>2, CalmShrinks DEF Books, Calm
  <2>2. Writer(t, r)
    BY DEF Writer
  <2>3. \A q \in Requests : Writer(t, q) => q = r
    BY <2>1, <2>2 DEF BookInv
  <2>4. Holds(r)
    BY <2>1, <2>2 DEF BookInv, Holds
  <2>5. \A q \in Requests \ {r} : ~(Writes(q) /\ call[q].tenant = t /\ InFlight(q))
    BY <2>3 DEF Writer
  <2>6. \A q \in Requests \ {r} : ~(Writes(q)' /\ call'[q].tenant = t /\ InFlight(q)')
    BY <1>1, <2>5 DEF Writes, InFlight, Waiting, Kept
  <2>7. SUFFICES ASSUME NEW u, u = t PROVE BookInv(u)'
    OBVIOUS
  <2>8. \A q \in Requests : Writer(u, q)' => q = r
    BY <2>6, <2>7 DEF Writer
  <2>9. CASE InFlight(r)' /\ Holds(r)'
    <3>1. \A v : v = t => Settled(v)'
      BY <1>1, <2>9 DEF Holds, Settled
    <3> QED
      BY <2>7, <2>8, <2>9, <3>1 DEF BookInv, Holds
  <2>10. CASE ~InFlight(r)' /\ \A v : v = t => Settled(v)'
    <3>1. \A q \in Requests : ~Writer(u, q)'
      BY <2>8, <2>10 DEF Writer
    <3> QED
      BY <2>7, <2>10, <3>1 DEF BookInv
  <2> QED
    BY <2>1, <2>4, <2>9, <2>10
<1>3. Pairs'
  BY PairsKept
<1> QED
  BY <1>2, <1>3, BooksKept

-----------------------------------------------------------------------------
(* Requests that change no subscription *)

\* The request moves past the subscriptions.
Beside(r) ==
  /\ UNCHANGED <<call, info, db, told, overlaps>>
  /\ pc'[r] \notin {"cancel", "store_cancellation"}
  /\ \A q \in Requests \ {r} : Kept(q)
  /\ Bill(r)' = Bill(r)

LEMMA BesideKeeps ==
  ASSUME IInv, IInv', Books, NEW r \in Requests, ~Writes(r), Beside(r)
  PROVE  Books'
<1>1. Bill(r) = Absent
  BY DEF Books, WriterInv
<1> QED
  BY <1>1, Bystander DEF Beside, Only

LEMMA AnswerBeside ==
  ASSUME IInv, NEW r \in Requests, NEW a, Succeed(r, a) \/ Refuse(r, a),
         UNCHANGED <<call, draft, snapshot, info, db, told, overlaps>>
  PROVE  Beside(r)
<1>1. pc'[r] \in Ending /\ \A q \in Requests \ {r} : pc'[q] = pc[q]
  BY DEF Succeed, Refuse, Goto, IInv, Shapes, Ending
<1> QED
  BY <1>1 DEF Beside, Kept, Bill, Ending

LEMMA WriteBeside ==
  ASSUME IInv, NEW r \in Requests, NEW table \in Tables \ {"billing_subscriptions"}, NEW id, NEW v,
         NEW l \in {"commit", "insert_trial"}, Write(r, table, id, v), Goto(r, l),
         UNCHANGED <<call, snapshot, info, db, told, overlaps>>
  PROVE  Beside(r)
<1>1. DOMAIN pc = Requests /\ DOMAIN draft = Requests /\ DOMAIN draft[r] = Tables
  BY DEF IInv, Shapes
<1>2. pc'[r] = l /\ \A q \in Requests \ {r} : pc'[q] = pc[q] /\ draft'[q] = draft[q]
  BY <1>1 DEF Goto, Write
<1>3. draft'[r]["billing_subscriptions"] = draft[r]["billing_subscriptions"]
  BY <1>1 DEF Write, Tables
<1> QED
  BY <1>2, <1>3 DEF Beside, Kept, Bill

LEMMA AddBeside ==
  ASSUME IInv, NEW r \in Requests, NEW table \in Tables \ {"billing_subscriptions"}, NEW row,
         Add(r, table, row)
  PROVE  Beside(r)
<1>1. CASE Refuse(r, "isolation") /\ UNCHANGED draft
  BY <1>1, AnswerBeside DEF Add, history
<1>2. CASE Write(r, table, r, row) /\ Succeed(r, "created")
  BY <1>2, WriteBeside DEF Add, Succeed, history
<1> QED
  BY <1>1, <1>2 DEF Add

LEMMA ReplyBeside ==
  ASSUME IInv, NEW r \in Requests, NEW a, Reply(r, a)
  PROVE  Beside(r)
  BY AnswerBeside DEF Reply, history

LEMMA OnboardingBeside ==
  ASSUME IInv, NEW r \in Requests, LookupSlug(r) \/ InsertTenant(r) \/ InsertTrial(r)
  PROVE  ~Writes(r) /\ Beside(r)
<1>1. ~Writes(r)
  BY DEF LookupSlug, InsertTenant, InsertTrial, At, IInv, RequestInv, Placed, Writes
<1>2. CASE LookupSlug(r)
  <2>1. UNCHANGED <<call, draft, snapshot, info, db, told, overlaps>>
    BY <1>2 DEF LookupSlug, history
  <2>2. CASE Refuse(r, "taken")
    BY <1>1, <2>1, <2>2, AnswerBeside
  <2>3. CASE Goto(r, "insert_tenant")
    <3>1. pc'[r] = "insert_tenant" /\ \A q \in Requests \ {r} : pc'[q] = pc[q]
      BY <2>3 DEF Goto, IInv, Shapes
    <3> QED
      BY <1>1, <2>1, <3>1 DEF Beside, Kept, Bill
  <2> QED
    BY <1>2, <2>2, <2>3 DEF LookupSlug
<1>3. CASE InsertTenant(r)
  <2>1. UNCHANGED <<call, snapshot, info, db, told, overlaps>>
    BY <1>3 DEF InsertTenant, history
  <2>2. CASE Refuse(r, "integrity") /\ UNCHANGED draft
    BY <1>1, <2>1, <2>2, AnswerBeside
  <2>3. CASE Write(r, "tenants", r, NewTenant(r)) /\ Goto(r, "insert_trial")
    BY <1>1, <2>1, <2>3, WriteBeside DEF Tables
  <2> QED
    BY <1>3, <2>2, <2>3 DEF InsertTenant
<1>4. CASE InsertTrial(r)
  BY <1>1, <1>4, WriteBeside DEF InsertTrial, Succeed, Tables, history
<1> QED
  BY <1>1, <1>2, <1>3, <1>4

LEMMA TenancyBeside ==
  ASSUME IInv, NEW r \in Requests, TenancyStep(r)
  PROVE  ~Writes(r) /\ Beside(r)
<1>1. ASSUME InviteMember(r) PROVE ~Writes(r) /\ Beside(r)
  <2>1. ~Writes(r)
    BY <1>1 DEF InviteMember, Writes
  <2>2. CASE Add(r, "tenant_members", NewMember(r))
    BY <2>1, <2>2, AddBeside DEF Tables
  <2>3. CASE Refuse(r, "integrity") /\ UNCHANGED <<call, draft, snapshot, info, db, world, history>>
    BY <2>1, <2>3, AnswerBeside DEF history
  <2> QED
    BY <1>1, <2>2, <2>3 DEF InviteMember
<1>2. ASSUME GetMember(r) PROVE ~Writes(r) /\ Beside(r)
  <2>1. ~Writes(r)
    BY <1>2 DEF GetMember, Writes
  <2>2. CASE Refuse(r, "error") /\ UNCHANGED <<call, draft, snapshot, info, db, world, history>>
    BY <2>1, <2>2, AnswerBeside DEF history
  <2>3. CASE Found(r, Memberships(call[r]) # {})
    BY <2>1, <2>3, ReplyBeside DEF Found
  <2> QED
    BY <1>2, <2>2, <2>3 DEF GetMember
<1>3. ASSUME ListMembers(r) \/ ListProjects(r) \/ ListApiKeys(r) \/ GetProject(r) \/ GetApiKey(r)
      PROVE  ~Writes(r) /\ Beside(r)
  BY <1>3, ReplyBeside DEF ListMembers, ListProjects, ListApiKeys, GetProject, GetApiKey, Found, Writes
<1>4. ASSUME CreateProject(r) PROVE ~Writes(r) /\ Beside(r)
  BY <1>4, AddBeside DEF CreateProject, Writes, Tables
<1>5. ASSUME CreateApiKey(r) PROVE ~Writes(r) /\ Beside(r)
  BY <1>5, AddBeside DEF CreateApiKey, Writes, Tables
<1>6. ASSUME RevokeApiKey(r) PROVE ~Writes(r) /\ Beside(r)
  <2>1. ~Writes(r)
    BY <1>6 DEF RevokeApiKey, Writes
  <2>2. CASE /\ Write(r, "api_keys", call[r].subject, [revoked_at |-> clock])
             /\ Succeed(r, "revoked")
             /\ UNCHANGED <<call, snapshot, info, db, world, history>>
    BY <2>1, <2>2, WriteBeside DEF Succeed, Tables, history
  <2>3. CASE Found(r, FALSE)
    BY <2>1, <2>3, ReplyBeside DEF Found
  <2> QED
    BY <1>6, <2>2, <2>3 DEF RevokeApiKey
<1>7. ASSUME VerifyApiKey(r) PROVE ~Writes(r) /\ Beside(r)
  <2>1. \E a : Succeed(r, a)
    BY <1>7 DEF VerifyApiKey
  <2> QED
    BY <1>7, <2>1, AnswerBeside DEF VerifyApiKey, Writes, history
<1>8. ASSUME \/ PersistAuditEvent(r) \/ PersistSecurityEvent(r)
             \/ PersistSqlAirlockEvent(r) \/ PersistRateLimitEvent(r)
      PROVE  ~Writes(r) /\ Beside(r)
  <2>1. \/ Add(r, "audit_events", AuditEvent(r)) \/ Add(r, "security_events", SecurityEvent(r))
        \/ Add(r, "sql_airlock_events", SqlAirlockEvent(r))
        \/ Add(r, "rate_limit_events", RateLimitEvent(r))
    BY <1>8 DEF PersistAuditEvent, PersistSecurityEvent, PersistSqlAirlockEvent, PersistRateLimitEvent
  <2>2. ~Writes(r)
    BY <1>8 DEF PersistAuditEvent, PersistSecurityEvent, PersistSqlAirlockEvent, PersistRateLimitEvent,
                Writes
  <2> QED
    BY <2>1, <2>2, AddBeside DEF Tables
<1>9. ASSUME GetTenant(r) \/ GetTrial(r) PROVE ~Writes(r) /\ Beside(r)
  <2>1. /\ \E a : Succeed(r, a)
        /\ UNCHANGED <<call, draft, snapshot, info, db, world, history>>
    BY <1>9 DEF GetTenant, GetTrial, ReadTenant
  <2> QED
    BY <1>9, <2>1, AnswerBeside DEF GetTenant, GetTrial, ReadTenant, Writes, history
<1> QED
  BY <1>1, <1>2, <1>3, <1>4, <1>5, <1>6, <1>7, <1>8, <1>9, OnboardingBeside DEF TenancyStep

LEMMA BillingBeside ==
  ASSUME IInv, Books, NEW r \in Requests,
         \/ CreateCheckout(r) \/ GenerateInvoice(r) \/ ListInvoices(r) \/ HandleWebhook(r)
         \/ GetSubscription(r) \/ GetQuotaStatus(r)
         \/ CheckApiRequest(r) \/ CountRequests(r) \/ CheckFeature(r) \/ CheckProjectLimit(r)
  PROVE  ~Writes(r) /\ Beside(r)
<1>1. Writes(r) => pc[r] \in WriterLabels
  BY DEF Books, WriterInv
<1>2. ASSUME CreateCheckout(r) PROVE ~Writes(r) /\ Beside(r)
  <2>1. ~Writes(r)
    BY <1>1, <1>2 DEF CreateCheckout, At, WriterLabels
  <2>2. /\ \E a : Succeed(r, a) \/ Refuse(r, a)
        /\ UNCHANGED <<call, draft, snapshot, info, db, told, overlaps>>
    BY <1>2 DEF CreateCheckout, MockCheckout, StripeCheckout, history
  <2> QED
    BY <2>1, <2>2, AnswerBeside
<1>3. ASSUME GenerateInvoice(r) PROVE ~Writes(r) /\ Beside(r)
  <2>1. ~Writes(r)
    BY <1>1, <1>3 DEF GenerateInvoice, At, WriterLabels
  <2>2. UNCHANGED <<call, snapshot, info, db, told, overlaps>>
    BY <1>3 DEF GenerateInvoice, history
  <2>3. CASE MockInvoices(r)
    BY <2>1, <2>2, <2>3, AnswerBeside DEF MockInvoices
  <2>4. CASE StripeInvoices(r)
    BY <2>1, <2>2, <2>4, WriteBeside DEF StripeInvoices, Succeed, Tables
  <2> QED
    BY <1>3, <2>3, <2>4 DEF GenerateInvoice
<1>4. ASSUME HandleWebhook(r) PROVE ~Writes(r) /\ Beside(r)
  <2>1. ~Writes(r)
    BY <1>1, <1>4 DEF HandleWebhook, At, WriterLabels
  <2>2. UNCHANGED <<call, snapshot, info, db, told, overlaps>>
    BY <1>4 DEF HandleWebhook, history
  <2>3. CASE (Refuse(r, "rejected") \/ Refuse(r, "error")) /\ UNCHANGED draft
    BY <2>1, <2>2, <2>3, AnswerBeside
  <2>4. CASE Write(r, "billing_events", r, NewEvent(r)) /\ Succeed(r, "processed")
    BY <2>1, <2>2, <2>4, WriteBeside DEF Succeed, Tables
  <2> QED
    BY <1>4, <2>3, <2>4 DEF HandleWebhook
<1>5. ASSUME ListInvoices(r) \/ GetSubscription(r) \/ GetQuotaStatus(r) PROVE ~Writes(r) /\ Beside(r)
  <2>1. ~Writes(r)
    BY <1>1, <1>5 DEF ListInvoices, GetSubscription, GetQuotaStatus, At, WriterLabels
  <2>2. /\ \E a : Succeed(r, a) \/ Refuse(r, a)
        /\ UNCHANGED <<call, draft, snapshot, info, db, told, overlaps>>
    BY <1>5 DEF ListInvoices, GetSubscription, GetQuotaStatus, Tell, history
  <2> QED
    BY <2>1, <2>2, AnswerBeside
<1>6. ASSUME CheckApiRequest(r) \/ CountRequests(r) \/ CheckFeature(r) \/ CheckProjectLimit(r)
      PROVE  ~Writes(r) /\ Beside(r)
  <2>1. ~Writes(r)
    <3>1. pc[r] \in {"check_request", "count_free", "count_pro", "check_feature", "check_projects"}
      BY <1>6 DEF CheckApiRequest, CountRequests, Counting, CheckFeature, CheckProjectLimit, At
    <3> QED
      BY <1>1, <3>1 DEF WriterLabels
  <2>2. CASE \E passes : Check(r, passes)
    <3>1. /\ \E a : Succeed(r, a) \/ Refuse(r, a)
          /\ UNCHANGED <<call, draft, snapshot, info, db, told, overlaps>>
      BY <2>2 DEF Check, Succeed, Refuse, history
    <3> QED
      BY <2>1, <3>1, AnswerBeside
  <2>3. CASE /\ \E p \in PlansServed(call[r].tenant) : Goto(r, Counting[p]) /\ PlanFeatures[p].requests # -1
             /\ UNCHANGED <<call, reply, draft, snapshot, info, db, world, history>>
    <3>1. PICK p \in PlansServed(call[r].tenant) : Goto(r, Counting[p]) /\ PlanFeatures[p].requests # -1
      BY <2>3
    <3>2. p \in Plans
      BY ServedPlans
    <3>3. Plans = {"free", "pro", "enterprise"} /\ PlanFeatures["enterprise"].requests = -1
      BY DEF Plans, PlanFeatures
    <3>4. Counting[p] \in {"count_free", "count_pro"}
      BY <3>1, <3>2, <3>3 DEF Counting
    <3>5. pc'[r] = Counting[p] /\ \A q \in Requests \ {r} : pc'[q] = pc[q]
      BY <3>1 DEF Goto, IInv, Shapes
    <3> QED
      BY <2>1, <2>3, <3>4, <3>5 DEF Beside, Kept, Bill, history
  <2> QED
    BY <1>6, <2>2, <2>3 DEF CheckApiRequest, CountRequests, CheckFeature, CheckProjectLimit
<1> QED
  BY <1>2, <1>3, <1>4, <1>5, <1>6

-----------------------------------------------------------------------------
(* A request that changes a subscription *)

\* Where it begins.
LEMMA StartLabels ==
  ASSUME IInv, NEW r \in Requests, Start(r)
  PROVE  /\ At(r, "idle") /\ \A q \in Requests \ {r} : pc'[q] = pc[q]
         /\ pc'[r] \notin {"cancel", "store_cancellation"}
         /\ Writes(r) => pc'[r] \in {"rollback", "activate", "find_live"}
<1>1. DOMAIN pc = Requests
  BY DEF IInv, Shapes
<1>2. CASE Call(r)
  <2>1. call[r].op \notin {"cancel", "activate", "store_cancellation"}
    <3>1. call[r].op \notin {"cancel", "activate"}
      BY <1>2 DEF Call, DirectCalls, TenantCreate, MemberCalls, ProjectCalls, ApiKeyCreate, KeyCalls,
           EventCreate, TenantCalls, LimitCalls, FeatureCalls, Request
    <3> QED
      BY <3>1, CallTypes DEF IInv
  <2> QED
    BY <1>1, <1>2, <2>1 DEF Call, Goto, Writes
<1>3. ASSUME NEW op, NEW needed, NEW l, Route(r, op, needed, l), l \notin {"cancel", "store_cancellation"},
             op \in {"activate", "cancel"} => l \in {"activate", "find_live"}
      PROVE  /\ At(r, "idle") /\ \A q \in Requests \ {r} : pc'[q] = pc[q]
             /\ pc'[r] \notin {"cancel", "store_cancellation"}
             /\ Writes(r) => pc'[r] \in {"rollback", "activate", "find_live"}
  BY <1>1, <1>3 DEF Route, Refuse, Goto, Writes
<1>4. CASE BillingRoute(r)
  BY <1>3, <1>4 DEF BillingRoute, CheckoutRoute, ActivateRoute, SubscriptionRoute, CancelRoute,
       InvoiceRoute, InvoicesRoute, WebhookRoute, QuotaRoute
<1> QED
  BY <1>2, <1>4 DEF Start

LEMMA StartBooks ==
  ASSUME IInv, IInv', Books, NEW r \in Requests, Start(r)
  PROVE  Books'
<1>1. /\ call' = call /\ draft' = draft /\ snapshot' = snapshot /\ info' = info
      /\ db' = db /\ told' = told
  BY DEF Start
<1>2. /\ At(r, "idle") /\ \A q \in Requests \ {r} : Kept(q)
      /\ pc'[r] \notin {"cancel", "store_cancellation"}
      /\ Writes(r) => pc'[r] \in {"rollback", "activate", "find_live"}
  BY <1>1, StartLabels DEF Kept
<1>3. CASE ~Writes(r)
  <2>1. overlaps' = overlaps
    BY <1>3 DEF Start
  <2> QED
    BY <1>1, <1>2, <1>3, <2>1, BesideKeeps DEF Beside, Bill
<1>4. CASE Writes(r)
  <2> DEFINE t == call[r].tenant
  <2>1. overlaps' = overlaps \cup { {q, r} : q \in Rivals(r) }
    BY <1>4 DEF Start
  <2>2. WriterInv(r) /\ draft[r] = NoDraft
    BY <1>2, <1>4 DEF Books, IInv, RequestInv, Placed, At
  <2>3. \A u : Subscriptions(u)' = Subscriptions(u)
    BY <1>1, TableKept
  <2>4. WriterInv(r)'
    BY <1>1, <1>2, <1>4, <2>2, <2>3 DEF WriterInv, Writes, Bill, WriterLabels
  <2>5. ASSUME t \in Calm' PROVE \A u : u = t => BookInv(u)'
    <3>1. t \in Tenants /\ BookInv(t)
      BY <1>1, <2>1, <2>5, CalmShrinks DEF Books, Calm
    <3>2. Rivals(r) = {}
      <4> SUFFICES ASSUME NEW q \in Rivals(r) PROVE FALSE
        OBVIOUS
      <4>1. {q, r} \in overlaps'
        BY <2>1
      <4>2. \A pair \in overlaps' : \A p \in pair : call'[p].tenant # t
        BY <2>5 DEF Calm, Undisturbed
      <4>3. r \in {q, r}
        OBVIOUS
      <4> QED
        BY <1>1, <4>1, <4>2, <4>3
    <3>3. \A q \in Requests : ~Writer(t, q)
      BY <1>2, <3>2 DEF Writer, Rivals, At, InFlight, Waiting
    <3>4. Lasting(t) /\ told'[t] = told[t] /\ Settled(t)
      BY <1>1, <3>1, TableKept DEF BookInv
    <3>5. SUFFICES ASSUME NEW u, u = t PROVE BookInv(u)'
      OBVIOUS
    <3>6. Settled(u)'
      BY <3>4, <3>5, SettledLasts
    <3>7. \A q \in Requests : Writer(u, q)' => q = r
      BY <1>1, <1>2, <3>3, <3>5 DEF Writer, Writes, InFlight, Waiting, Kept
    <3>8. OnBooks(r)'
      BY <1>1, <1>2, <1>4 DEF OnBooks
    <3> QED
      BY <3>6, <3>7, <3>8 DEF BookInv
  <2>6. ~Fresh(r)'
    BY <1>1, <1>2, <1>4, <2>2 DEF Fresh, Bill, NoDraft, Tables
  <2>7. Only(r) /\ overlaps \subseteq overlaps' /\ \A q \in Rivals(r) : {q, r} \in overlaps'
    BY <1>1, <1>2, <2>1 DEF Only
  <2>8. Pairs'
    BY <2>3, <2>4, <2>6, <2>7, PairsKept
  <2> QED
    BY <1>1, <2>3, <2>4, <2>5, <2>7, <2>8, TableKept, BooksKept
<1> QED
  BY <1>3, <1>4

\* It gives up, and its transaction is rolled back.
LEMMA RefuseBooks ==
  ASSUME IInv, IInv', Books, NEW r \in Requests, InFlight(r), NEW a, Refuse(r, a),
         UNCHANGED <<call, draft, snapshot, info, db, told, overlaps>>
  PROVE  Books'
<1>1. pc'[r] = "rollback" /\ \A q \in Requests \ {r} : Kept(q)
  BY DEF Refuse, Goto, IInv, Shapes, Kept
<1>2. CASE ~Writes(r)
  BY <1>2, AnswerBeside, BesideKeeps
<1>3. CASE Writes(r)
  <2>1. WriterInv(r)'
    <3>1. WriterInv(r) /\ Subscriptions(call[r].tenant)' = Subscriptions(call[r].tenant)
      BY TableKept DEF Books
    <3> QED
      BY <1>1, <1>3, <3>1 DEF WriterInv, Writes, Bill, WriterLabels
  <2>2. InFlight(r)' /\ (Fresh(r)' => Fresh(r))
    BY <1>1 DEF InFlight, Waiting, Fresh, Bill
  <2>3. Holds(r) => Holds(r)'
    <3>1. \A u : Settled(u) => Settled(u)'
      BY TableKept, SettledLasts
    <3>2. OnBooks(r) => OnBooks(r)'
      BY <1>1 DEF OnBooks
    <3> QED
      BY <3>1, <3>2 DEF Holds, Settled
  <2> QED
    BY <1>1, <1>3, <2>1, <2>2, <2>3, TableKept, WriterMoves DEF Only
<1> QED
  BY <1>2, <1>3

\* Its transaction is over, and lost.
LEMMA LossBooks ==
  ASSUME IInv, IInv', Books, NEW r \in Requests, InFlight(r), Close(r, FALSE), db' = db
  PROVE  Books'
<1>1. /\ call' = call /\ told' = told /\ overlaps' = overlaps
      /\ info'[r] = Absent /\ pc'[r] = "done" /\ \A q \in Requests \ {r} : Kept(q)
  BY DEF Close, Goto, Heard, IInv, Shapes, Kept
<1>2. Bill(r)' = Absent
  BY DEF Close, Bill, NoDraft, IInv, Shapes, Tables
<1>3. WriterInv(r)'
  BY <1>1, <1>2 DEF WriterInv, WriterLabels
<1>4. ~InFlight(r)' /\ ~Fresh(r)'
  BY <1>1 DEF InFlight, Waiting, Fresh
<1>5. CASE ~Writes(r)
  BY <1>1, <1>2, <1>5, Bystander DEF Only
<1>6. CASE Writes(r)
  <2>1. Holds(r) => \A u : u = call[r].tenant => Settled(u)'
    BY <1>1, TableKept, SettledLasts DEF Holds
  <2> QED
    BY <1>1, <1>3, <1>4, <1>6, <2>1, TableKept, WriterMoves DEF Only
<1> QED
  BY <1>5, <1>6

LEMMA InfoIsKnown ==
  ASSUME NEW what \in KnownInfos
  PROVE  what # Absent /\ DOMAIN what = InfoFields
  BY AbsentAssumption DEF KnownInfos, Infos, InfoFields

\* The provider has answered.
LEMMA InformedBooks ==
  ASSUME IInv, IInv', Books, NEW r \in Requests, Writes(r), InFlight(r), NEW what,
         NEW l \in {"find", "store_cancellation"},
         Informed(r, what), Goto(r, l), UNCHANGED <<call, draft, snapshot, db, told, overlaps>>,
         draft[r] = NoDraft,
         l = "find" => pc[r] = "activate",
         l = "store_cancellation" => call[r].op = "cancel" /\ pc[r] = "cancel"
  PROVE  Books'
<1> DEFINE t == call[r].tenant
<1>1. DOMAIN info = Requests /\ DOMAIN pc = Requests
  BY DEF IInv, Shapes
<1>2. /\ pc'[r] = l /\ info'[r] = what
      /\ \A q \in Requests \ {r} : Kept(q)
  BY <1>1 DEF Goto, Informed, Kept
<1>3. Bill(r)' = Absent
  BY DEF Bill, NoDraft, Tables
<1>4. \A u : Lasting(u) /\ Subscriptions(u)' = Subscriptions(u)
  BY TableKept
<1>5. WriterInv(r)
  BY DEF Books
<1>6. WriterInv(r)'
  BY <1>2, <1>3, <1>4, <1>5 DEF WriterInv, Writes, WriterLabels
<1>7. InFlight(r)' /\ ~Fresh(r)'
  BY <1>2, <1>3 DEF InFlight, Waiting, Fresh
<1>8. ASSUME Holds(r) PROVE Holds(r)'
  <2>1. Settled(t) /\ OnBooks(r)
    BY <1>8 DEF Holds
  <2>2. \A i, j \in Subscriptions(t) : i = j
    BY <2>1 DEF Settled
  <2>3. l = "store_cancellation" => Snapped(r)'
    <3>1. ASSUME l = "store_cancellation" PROVE Snapped(r)'
      <4>1. Snapped(r)
        BY <2>1, <3>1 DEF OnBooks
      <4> QED
        BY <4>1 DEF Snapped, Subscriptions, Subscription, Rows
    <3> QED
      BY <3>1
  <2>4. OnBooks(r)'
    BY <1>2, <1>4, <2>2, <2>3 DEF OnBooks
  <2>5. Settled(t)'
    BY <1>4, <2>1, SettledLasts
  <2> QED
    BY <2>4, <2>5 DEF Holds, Settled
<1> QED
  BY <1>2, <1>4, <1>6, <1>7, <1>8, WriterMoves DEF Only

\* What is among a tenant's rows is one of the latest when there is no other.
LEMMA LoneIsLatest ==
  ASSUME IInv, NEW t, \A i, j \in Subscriptions(t) : i = j, NEW i \in Subscriptions(t)
  PROVE  Latest(t, Statuses) = {i}
<1>1. i \in Rows("billing_subscriptions")
  BY DEF Subscriptions
<1>2. Subscription(i) \in BillingSubscriptionRows
  BY <1>1, RowsetsAre DEF IInv, Committed, Subscription, Tables
<1>3. Subscription(i).status \in Statuses /\ Subscription(i).created_at \in Nat
  BY <1>2 DEF BillingSubscriptionRows, Times
<1>4. Subscription(i).created_at <= Subscription(i).created_at
  BY <1>3
<1> QED
  BY <1>3, <1>4 DEF Latest

\* Of the rows of a tenant one is among the latest.
LEMMA LatestExists ==
  ASSUME IInv, NEW t, Subscriptions(t) # {}
  PROVE  Latest(t, Statuses) # {}
<1> DEFINE age(i) == MaxTime - Subscription(i).created_at
           ages == { age(i) : i \in Subscriptions(t) }
<1>1. \A i \in Subscriptions(t) : /\ Subscription(i).status \in Statuses
                                  /\ Subscription(i).created_at \in 0 .. MaxTime
  <2> SUFFICES ASSUME NEW i \in Subscriptions(t)
               PROVE  Subscription(i).status \in Statuses /\ Subscription(i).created_at \in 0 .. MaxTime
    OBVIOUS
  <2>1. Subscription(i) \in BillingSubscriptionRows
    BY RowsetsAre DEF IInv, Committed, Subscriptions, Subscription, Tables
  <2> QED
    BY <2>1 DEF BillingSubscriptionRows, Times
<1>2. \A i \in Subscriptions(t) : age(i) \in Nat
  BY <1>1
<1>3. ages \subseteq Nat /\ ages # {}
  BY <1>2
<1>4. PICK a \in ages : \A b \in ages : ~(b < a)
  <2> HIDE DEF ages
  <2>1. \E x \in ages : \A y \in ages : ~(<<y, x>> \in OpToRel(<, Nat))
    BY <1>3, NatLessThanWellFounded, WFMin
  <2>2. \A x, y \in Nat : y < x => <<y, x>> \in OpToRel(<, Nat)
    BY DEF OpToRel
  <2> QED
    BY <1>3, <2>1, <2>2
<1>5. PICK i \in Subscriptions(t) : a = age(i)
  BY <1>4
<1>6. \A j \in Subscriptions(t) : Subscription(j).created_at <= Subscription(i).created_at
  <2> SUFFICES ASSUME NEW j \in Subscriptions(t)
               PROVE  Subscription(j).created_at <= Subscription(i).created_at
    OBVIOUS
  <2>1. ~(age(j) < age(i))
    BY <1>4, <1>5
  <2>2. Subscription(i).created_at \in Int /\ Subscription(j).created_at \in Int /\ MaxTime \in Int
    BY <1>1
  <2>3. \A m, x, y \in Int : ~(m - y < m - x) => y <= x
    OBVIOUS
  <2> QED
    BY <2>1, <2>2, <2>3
<1>7. i \in Latest(t, Statuses)
  BY <1>1, <1>6 DEF Latest
<1> QED
  BY <1>7

\* A row is loaded.
LEMMA LoadBooks ==
  ASSUME IInv, IInv', Books, NEW r \in Requests, Writes(r), InFlight(r), NEW statuses, NEW l,
         Load(r, Latest(call[r].tenant, statuses), l),
         UNCHANGED <<call, draft, info, db, told, overlaps>>, draft[r] = NoDraft,
         \/ l = "store" /\ pc[r] = "find"
         \/ l = "cancel" /\ pc[r] = "find_live" /\ call[r].op = "cancel"
  PROVE  Books'
<1> DEFINE t == call[r].tenant
<1>1. DOMAIN snapshot = Requests /\ DOMAIN pc = Requests
  BY DEF IInv, Shapes
<1>2. PICK i \in Latest(t, statuses) : snapshot' = [snapshot EXCEPT ![r] = [id |-> i, row |-> Subscription(i)]]
  BY DEF Load
<1>3. i \in Subscriptions(t) /\ i \in Rows("billing_subscriptions") /\ i \in Requests
  BY DEF Latest, Subscriptions, Rows
<1>4. /\ pc'[r] = l /\ snapshot'[r] = [id |-> i, row |-> Subscription(i)]
      /\ \A q \in Requests \ {r} : Kept(q)
  BY <1>1, <1>2 DEF Load, Goto, Kept
<1>5. snapshot'[r] # Absent
  <2>1. Subscription(i) \in BillingSubscriptionRows
    BY <1>3, RowsetsAre DEF IInv, Committed, Subscription, Tables
  <2>2. snapshot'[r] \in [id : Requests, row : BillingSubscriptionRows]
    BY <1>3, <1>4, <2>1
  <2> QED
    BY <2>2, AbsentAssumption
<1>6. Bill(r)' = Absent
  BY DEF Bill, NoDraft, Tables
<1>7. /\ \A u : Lasting(u) /\ Subscriptions(u)' = Subscriptions(u)
      /\ \A j : Subscription(j)' = Subscription(j)
  BY TableKept
<1>8. WriterInv(r)
  BY DEF Books
<1>9. WriterInv(r)'
  BY <1>3, <1>4, <1>6, <1>7, <1>8 DEF WriterInv, Writes, WriterLabels
<1>10. InFlight(r)' /\ ~Fresh(r)'
  BY <1>4, <1>5, <1>6 DEF InFlight, Waiting, Fresh
<1>11. ASSUME Holds(r) PROVE Holds(r)'
  <2>1. \A j, k \in Subscriptions(t) : j = k
    BY <1>11 DEF Holds, Settled
  <2>2. Subscriptions(t) = {i}
    BY <1>3, <2>1
  <2>3. Snapped(r)'
    <3>1. \A j : j = i => Subscription(j)' = Subscription(i)
      BY <1>7
    <3>2. Subscription(snapshot[r].id)' = Subscription(i)
      BY <1>4, <3>1 DEF Subscription
    <3> QED
      BY <1>4, <1>5, <1>7, <2>2, <3>2 DEF Snapped
  <2>4. OnBooks(r)'
    BY <1>4, <1>11, <2>3 DEF OnBooks, Holds
  <2>5. \A u : u = t => Settled(u)'
    BY <1>7, <1>11, SettledLasts DEF Holds
  <2> QED
    BY <2>4, <2>5 DEF Holds, Settled
<1> QED
  BY <1>4, <1>7, <1>9, <1>10, <1>11, WriterMoves DEF Only

\* What the provider said is drafted, or stands in the table already.
LEMMA StoredBooks ==
  ASSUME IInv, IInv', Books, NEW r \in Requests, Writes(r), InFlight(r), NEW a, Succeed(r, a),
         UNCHANGED <<call, snapshot, info, db, told, overlaps>>, info[r] # Absent,
         \A q \in Requests \ {r} : draft'[q] = draft[q],
         NEW b, draft'[r]["billing_subscriptions"] = b,
         b # Absent =>
           \/ b.id = r /\ b.values.tenant = call[r].tenant
           \/ b.id \in Subscriptions(call[r].tenant) /\ "tenant" \notin DOMAIN b.values,
         b # Absent /\ b.id = r => Fresh(r),
         Holds(r) =>
           /\ DOMAIN Word(r) = InfoFields
           /\ \/ /\ b = Absent
                 /\ \E i \in Requests : /\ Subscriptions(call[r].tenant) = {i}
                                        /\ Agrees(Subscription(i), Word(r))
              \/ /\ b # Absent
                 /\ Subscriptions(call[r].tenant) \subseteq {b.id}
                 /\ Agrees(Patch(Subscription(b.id), b.values), Word(r))
  PROVE  Books'
<1> DEFINE t == call[r].tenant
<1>1. pc'[r] = "commit" /\ \A q \in Requests \ {r} : Kept(q)
  BY DEF Succeed, Goto, IInv, Shapes, Kept
<1>2. Bill(r)' = b
  BY DEF Bill
<1>3. /\ \A u : Lasting(u) /\ Subscriptions(u)' = Subscriptions(u)
      /\ \A i : Subscription(i)' = Subscription(i)
  BY TableKept
<1>4. WriterInv(r)
  BY DEF Books
<1>5. WriterInv(r)'
  BY <1>1, <1>2, <1>3, <1>4 DEF WriterInv, Writes, WriterLabels
<1>6. InFlight(r)' /\ (Fresh(r)' => Fresh(r))
  BY <1>1, <1>2 DEF InFlight, Waiting, Fresh
<1>7. ASSUME Holds(r) PROVE Holds(r)'
  <2>1. Word(r)' = Word(r) /\ DOMAIN Word(r) = InfoFields
    BY <1>7 DEF Word
  <2>2. Stored(r)'
    <3>1. CASE b = Absent
      <4>1. PICK i \in Requests : Subscriptions(t) = {i} /\ Agrees(Subscription(i), Word(r))
        BY <1>7, <3>1
      <4>2. Agrees(Subscription(i), Word(r))'
        BY <1>3, <2>1, <4>1 DEF Agrees
      <4> QED
        BY <1>2, <1>3, <2>1, <3>1, <4>1, <4>2 DEF Stored
    <3>2. CASE b # Absent
      <4>1. /\ Subscriptions(t) \subseteq {b.id}
            /\ Agrees(Patch(Subscription(b.id), b.values), Word(r))
        BY <1>7, <3>2
      <4>2. \A c : c = b => Patch(Subscription(c.id), c.values)' = Patch(Subscription(b.id), b.values)
        BY <1>3 DEF Patch
      <4>3. Patch(Subscription(Bill(r).id), Bill(r).values)' = Patch(Subscription(b.id), b.values)
        BY <1>2, <4>2 DEF Patch, Subscription
      <4> QED
        BY <1>2, <1>3, <2>1, <3>2, <4>1, <4>3 DEF Stored, Agrees
    <3> QED
      BY <3>1, <3>2
  <2>3. Settled(t)'
    BY <1>3, <1>7, SettledLasts DEF Holds
  <2> QED
    BY <1>1, <2>2, <2>3 DEF Holds, OnBooks, Settled
<1> QED
  BY <1>1, <1>3, <1>5, <1>6, <1>7, WriterMoves DEF Only

\* The loaded row is updated with what differs from what the provider said.
LEMMA UpdateBooks ==
  ASSUME IInv, IInv', Books, NEW r \in Requests, Writes(r), InFlight(r), NEW a, Succeed(r, a),
         UNCHANGED <<call, snapshot, info, db, told, overlaps>>,
         info[r] \in KnownInfos, draft[r] = NoDraft, Loaded(snapshot[r]),
         snapshot[r].id \in Subscriptions(call[r].tenant),
         NEW new, DOMAIN new \subseteq InfoFields,
         Changed(snapshot[r].row, new) \in Changes, Update(r, Changed(snapshot[r].row, new)),
         Holds(r) => /\ Snapped(r) /\ DOMAIN Word(r) = InfoFields
                     /\ \A f \in DOMAIN new : new[f] = Word(r)[f]
                     /\ \A f \in InfoFields \ DOMAIN new : snapshot[r].row[f] = Word(r)[f]
  PROVE  Books'
<1> DEFINE t == call[r].tenant
           s == snapshot[r]
           values == Changed(s.row, new)
<1>1. DOMAIN draft = Requests /\ DOMAIN draft[r] = Tables
  BY DEF IInv, Shapes
<1>2. info[r] # Absent /\ DOMAIN info[r] = InfoFields
  BY InfoIsKnown
<1>3. /\ DOMAIN values \subseteq InfoFields
      /\ DOMAIN values \subseteq DOMAIN new
      /\ \A f \in DOMAIN values : values[f] = new[f]
      /\ \A f \in DOMAIN new \ DOMAIN values : s.row[f] = new[f]
  BY DEF Changed
<1>4. s.row \in BillingSubscriptionRows /\ s.row # Absent /\ s.id \in Requests
  BY RowsetsAre, StoredRowsAre DEF Loaded, Rows, Tables
<1>5. InfoFields \subseteq DOMAIN s.row
  BY <1>4 DEF BillingSubscriptionRows, InfoFields
<1> HIDE DEF values
<1>6. ASSUME Holds(r)
      PROVE  /\ Subscriptions(t) = {s.id} /\ Subscription(s.id) = s.row
             /\ DOMAIN Word(r) = InfoFields
             /\ \A f \in DOMAIN values : values[f] = Word(r)[f]
             /\ \A f \in InfoFields \ DOMAIN values : s.row[f] = Word(r)[f]
  BY <1>3, <1>6 DEF Snapped
<1>7. CASE DOMAIN values = {}
  <2>1. draft' = draft
    BY <1>7 DEF Update, values
  <2>2. draft'[r]["billing_subscriptions"] = Absent
    BY <2>1 DEF NoDraft, Tables
  <2>3. Holds(r) => Agrees(Subscription(s.id), Word(r))
    BY <1>6, <1>7 DEF Agrees
  <2> QED
    BY <1>2, <1>4, <1>6, <2>1, <2>2, <2>3, StoredBooks
<1>8. CASE DOMAIN values # {}
  <2> DEFINE b == [id |-> s.id, values |-> values]
  <2>1. draft' = [draft EXCEPT ![r]["billing_subscriptions"] = b]
    BY <1>8 DEF Update, Write, values
  <2>2. /\ draft'[r]["billing_subscriptions"] = b
        /\ \A q \in Requests \ {r} : draft'[q] = draft[q]
    BY <1>1, <2>1 DEF Tables
  <2>3. b # Absent
    <3>1. b \in [ id : Requests,
                  values : TenantRows \cup SubscriptionRows \cup BillingSubscriptionRows \cup Changes ]
      BY <1>4 DEF values
    <3> QED
      BY <3>1, AbsentAssumption
  <2>4. "tenant" \notin DOMAIN b.values
    BY <1>3 DEF InfoFields
  <2>5. Holds(r) => Agrees(Patch(Subscription(b.id), b.values), Word(r))
    <3> SUFFICES ASSUME Holds(r), NEW f \in InfoFields
                 PROVE  Patch(s.row, values)[f] = Word(r)[f]
      BY <1>6 DEF Agrees
    <3>1. Patch(s.row, values)[f] = IF f \in DOMAIN values THEN values[f] ELSE s.row[f]
      BY <1>4, <1>5 DEF Patch
    <3> QED
      BY <1>6, <3>1
  <2> HIDE DEF b
  <2>6. b.id = s.id /\ s.id # r
    BY NoRowYet DEF b
  <2> QED
    BY <1>2, <1>6, <2>2, <2>3, <2>4, <2>5, <2>6, StoredBooks
<1> QED
  BY <1>7, <1>8

LEMMA StoreBooks ==
  ASSUME IInv, IInv', Books, NEW r \in Requests, Store(r)
  PROVE  Books'
<1> DEFINE t == call[r].tenant
<1>1. /\ pc[r] = "store" /\ Writes(r) /\ InFlight(r) /\ info[r] \in KnownInfos /\ draft[r] = NoDraft
      /\ snapshot[r] = Absent \/ Loaded(snapshot[r])
      /\ t \in Tenants
  BY CallTypes DEF Store, At, IInv, RequestInv, Placed, Writes, InFlight, Waiting
<1>2. Succeed(r, "activated") /\ UNCHANGED <<call, snapshot, info, db, told, overlaps>>
  BY DEF Store, history
<1>3. info[r] # Absent /\ DOMAIN info[r] = InfoFields
  BY <1>1, InfoIsKnown
<1>0. Word(r) = info[r]
  BY <1>1 DEF Word, Store, At, IInv, RequestInv, Placed
<1>4. CASE snapshot[r] = Absent /\ Write(r, "billing_subscriptions", r, NewSubscription(r))
  <2> DEFINE b == [id |-> r, values |-> NewSubscription(r)]
  <2>1. NewSubscription(r) \in BillingSubscriptionRows
    BY <1>1 DEF NewSubscription, BillingSubscriptionRows, KnownInfos, Infos, IInv, Shapes
  <2>2. b # Absent
    BY <2>1, AbsentAssumption
  <2>3. DOMAIN draft = Requests /\ DOMAIN draft[r] = Tables
    BY DEF IInv, Shapes
  <2>4. /\ draft'[r]["billing_subscriptions"] = b
        /\ \A q \in Requests \ {r} : draft'[q] = draft[q]
    BY <1>4, <2>3 DEF Write, Tables
  <2>5. Subscription(r) = Absent
    BY <1>1, NoRowYet
  <2>6. Agrees(Patch(Subscription(r), NewSubscription(r)), info[r])
    BY <1>3, <2>5 DEF Agrees, Patch, NewSubscription, InfoFields
  <2>7. (Holds(r) => Subscriptions(t) \subseteq {r}) /\ Fresh(r)
    BY <1>1, <1>4 DEF Holds, OnBooks, Snapped, Fresh
  <2>8. b.id = r /\ b.values = NewSubscription(r) /\ b.values.tenant = t
    BY DEF NewSubscription
  <2> HIDE DEF b
  <2> QED
    BY <1>0, <1>1, <1>2, <1>3, <2>2, <2>4, <2>6, <2>7, <2>8, StoredBooks
<1>5. CASE snapshot[r] # Absent /\ Update(r, Changed(snapshot[r].row, info[r]))
  <2>1. Loaded(snapshot[r])
    BY <1>1, <1>5
  <2>2. Changed(snapshot[r].row, info[r]) \in Changes
    BY <1>1, <2>1, RowsetsAre DEF Changes, Loaded, KnownInfos
  <2>3. snapshot[r].id \in Subscriptions(t)
    BY <1>1, <1>5 DEF Books, WriterInv
  <2>4. Holds(r) => Snapped(r)
    BY <1>1, <1>5 DEF Holds, OnBooks
  <2> QED
    BY <1>0, <1>1, <1>2, <1>3, <1>5, <2>1, <2>2, <2>3, <2>4, UpdateBooks
<1> QED
  BY <1>4, <1>5 DEF Store

LEMMA StoreCancellationBooks ==
  ASSUME IInv, IInv', Books, NEW r \in Requests, StoreCancellation(r)
  PROVE  Books'
<1> DEFINE new == [status |-> info[r].status, cancel_at_period_end |-> info[r].cancel_at_period_end]
           row == snapshot[r].row
           whole == [ provider_subscription_id |-> row.provider_subscription_id, plan |-> row.plan,
                      status |-> info[r].status,
                      cancel_at_period_end |-> info[r].cancel_at_period_end ]
<1>1. /\ pc[r] = "store_cancellation" /\ InFlight(r) /\ info[r] \in KnownInfos /\ draft[r] = NoDraft
      /\ Loaded(snapshot[r])
  BY DEF StoreCancellation, At, IInv, RequestInv, Placed, InFlight, Waiting
<1>2. snapshot[r].id \in Subscriptions(call[r].tenant)
  BY <1>1 DEF Books, WriterInv
<1>3. row \in BillingSubscriptionRows
  BY <1>1, RowsetsAre DEF Loaded
<1>4. DOMAIN new = {"status", "cancel_at_period_end"} /\ \A f \in DOMAIN new : new[f] = info[r][f]
  OBVIOUS
<1>5. Changed(row, new) \in Changes
  <2>1. whole \in Infos
    BY <1>1, <1>3 DEF KnownInfos, Infos, BillingSubscriptionRows
  <2>2. Changed(row, whole) = Changed(row, new)
    BY DEF Changed
  <2> QED
    BY <1>3, <2>1, <2>2 DEF Changes
<1>6. /\ Update(r, Changed(row, new)) /\ Succeed(r, "cancelled")
      /\ UNCHANGED <<call, snapshot, info, db, told, overlaps>>
  BY DEF StoreCancellation, history
<1> HIDE DEF new
<1>7. call[r].op = "cancel" /\ Writes(r)
  BY <1>1 DEF Books, WriterInv, Writes
<1>8. ASSUME Holds(r)
      PROVE  /\ Snapped(r) /\ DOMAIN Word(r) = InfoFields
             /\ \A f \in DOMAIN new : new[f] = Word(r)[f]
             /\ \A f \in InfoFields \ DOMAIN new : row[f] = Word(r)[f]
  <2> DEFINE t == call[r].tenant
  <2>1. Snapped(r)
    BY <1>1, <1>8 DEF Holds, OnBooks
  <2>2. DOMAIN told[t] = InfoFields /\ Agrees(row, told[t])
    BY <1>8, <2>1 DEF Holds, Settled, Snapped
  <2>3. Word(r) = [told[t] EXCEPT !.status = info[r].status,
                                  !.cancel_at_period_end = info[r].cancel_at_period_end]
    BY <1>7 DEF Word
  <2>4. \A f \in InfoFields \ DOMAIN new : row[f] = Word(r)[f]
    BY <1>4, <2>2, <2>3 DEF Agrees, InfoFields
  <2>5. \A f \in DOMAIN new : new[f] = Word(r)[f]
    BY <1>4, <2>2, <2>3 DEF InfoFields
  <2> QED
    BY <2>1, <2>2, <2>3, <2>4, <2>5
<1> QED
  BY <1>1, <1>2, <1>4, <1>5, <1>6, <1>7, <1>8, UpdateBooks DEF InfoFields

LEMMA ActivateBooks ==
  ASSUME IInv, IInv', Books, NEW r \in Requests, ActivateSubscription(r)
  PROVE  Books'
<1>1. /\ pc[r] = "activate" /\ Writes(r) /\ InFlight(r) /\ draft[r] = NoDraft
  BY DEF ActivateSubscription, At, IInv, RequestInv, Placed, Writes, InFlight, Waiting
<1>2. UNCHANGED <<call, draft, snapshot, db, told, overlaps>>
  BY DEF ActivateSubscription, history
<1>3. \/ \E what : Informed(r, what) /\ Goto(r, "find")
      \/ (\E a : Refuse(r, a)) /\ UNCHANGED info
  BY DEF ActivateSubscription, MockActivates, StripeActivates
<1> QED
  BY <1>1, <1>2, <1>3, InformedBooks, RefuseBooks

LEMMA FindBooks ==
  ASSUME IInv, IInv', Books, NEW r \in Requests, FindExisting(r)
  PROVE  Books'
<1> DEFINE t == call[r].tenant
<1>1. /\ pc[r] = "find" /\ Writes(r) /\ InFlight(r) /\ draft[r] = NoDraft /\ snapshot[r] = Absent
      /\ info[r] \in KnownInfos
  BY DEF FindExisting, At, IInv, RequestInv, Placed, Writes, InFlight, Waiting
<1>2. UNCHANGED <<call, draft, info, db, told, overlaps>>
  BY DEF FindExisting, history
<1>3. CASE Load(r, Latest(t, Statuses), "store")
  BY <1>1, <1>2, <1>3, LoadBooks
<1>4. CASE Latest(t, Statuses) = {} /\ Goto(r, "store") /\ UNCHANGED <<snapshot, reply>>
  <2>1. pc'[r] = "store" /\ \A q \in Requests \ {r} : Kept(q)
    BY <1>2, <1>4 DEF Goto, Kept, IInv, Shapes
  <2>2. /\ \A u : Lasting(u) /\ Subscriptions(u)' = Subscriptions(u)
    BY <1>2, TableKept
  <2>3. WriterInv(r)
    BY DEF Books
  <2>4. WriterInv(r)' /\ InFlight(r)'
    BY <1>1, <1>2, <1>4, <2>1, <2>2, <2>3 DEF WriterInv, Writes, Bill, WriterLabels, InFlight, Waiting
  <2>5. Subscriptions(t) = {}
    BY <1>4, LatestExists
  <2>6. Subscriptions(call[r].tenant)' = {}
    BY <1>2, <2>2, <2>5
  <2>7. ASSUME Holds(r) PROVE Holds(r)'
    <3>1. Settled(t)'
      BY <1>2, <2>2, <2>7, SettledLasts DEF Holds
    <3> QED
      BY <1>1, <1>4, <2>1, <2>6, <3>1 DEF Holds, OnBooks, Settled
  <2> QED
    BY <1>1, <1>2, <2>1, <2>2, <2>4, <2>6, <2>7, WriterMoves DEF Only
<1> QED
  BY <1>3, <1>4 DEF FindExisting

LEMMA FindLiveBooks ==
  ASSUME IInv, IInv', Books, NEW r \in Requests, FindLive(r)
  PROVE  Books'
<1>1. /\ pc[r] = "find_live" /\ InFlight(r) /\ draft[r] = NoDraft
  BY DEF FindLive, At, IInv, RequestInv, Placed, InFlight, Waiting
<1>2. UNCHANGED <<call, draft, info, db, told, overlaps>>
  BY DEF FindLive, history
<1>3. CASE call[r].op = "cancel" /\ Load(r, Latest(call[r].tenant, LiveStatuses), "cancel")
  BY <1>1, <1>2, <1>3, LoadBooks DEF Writes
<1>4. CASE call[r].op = "generate_invoice" /\ Load(r, Latest(call[r].tenant, LiveStatuses), "invoice")
  <2>1. pc'[r] = "invoice" /\ \A q \in Requests \ {r} : Kept(q)
    BY <1>2, <1>4 DEF Load, Goto, Kept, IInv, Shapes
  <2> QED
    BY <1>2, <1>4, <2>1, BesideKeeps DEF Beside, Bill, Writes
<1>5. CASE Refuse(r, "not_found") /\ UNCHANGED snapshot
  BY <1>1, <1>2, <1>5, RefuseBooks
<1> QED
  BY <1>3, <1>4, <1>5 DEF FindLive

LEMMA CancelBooks ==
  ASSUME IInv, IInv', Books, NEW r \in Requests, Cancel(r)
  PROVE  Books'
<1>1. /\ pc[r] = "cancel" /\ InFlight(r) /\ draft[r] = NoDraft
  BY DEF Cancel, At, IInv, RequestInv, Placed, InFlight, Waiting
<1>2. call[r].op = "cancel" /\ Writes(r)
  BY <1>1 DEF Books, WriterInv, Writes
<1>3. UNCHANGED <<call, draft, snapshot, db, told, overlaps>>
  BY DEF Cancel, history
<1>4. \/ \E what : Informed(r, what) /\ Goto(r, "store_cancellation")
      \/ (\E a : Refuse(r, a)) /\ UNCHANGED info
  BY DEF Cancel, MockCancels, StripeCancels
<1> QED
  BY <1>1, <1>2, <1>3, <1>4, InformedBooks, RefuseBooks

\* What it drafted becomes the tenant's row.
LEMMA CommitBooks ==
  ASSUME IInv, IInv', Books, DOMAIN told = Tenants, NEW r \in Requests, At(r, "commit"), db' = Merged(r), Close(r, TRUE)
  PROVE  Books'
<1> DEFINE t == call[r].tenant
           b == Bill(r)
           table == "billing_subscriptions"
<1>1. /\ call' = call /\ info'[r] = Absent /\ overlaps' = overlaps /\ provider' = provider
      /\ pc'[r] = "done" /\ \A q \in Requests \ {r} : Kept(q)
      /\ told' = IF info[r] # Absent THEN [told EXCEPT ![t] = Word(r)] ELSE told
  BY DEF Close, Goto, Heard, IInv, Shapes, Kept, world
<1>0. /\ info[r] = Absent => told' = told
      /\ \A u \in Tenants \ {t} : told'[u] = told[u]
      /\ t \in Tenants /\ info[r] # Absent => told'[t] = Word(r)
  BY <1>1
<1>2. Bill(r)' = Absent
  BY DEF Close, Bill, NoDraft, IInv, Shapes, Tables
<1>3. InFlight(r) /\ ~InFlight(r)' /\ ~Fresh(r)'
  BY <1>1 DEF InFlight, Waiting, At, Fresh
<1>4. WriterInv(r)'
  BY <1>1, <1>2 DEF WriterInv, WriterLabels
<1>5. \A i \in Requests : Subscription(i)' = IF b # Absent /\ b.id = i
                                             THEN Patch(Subscription(i), b.values) ELSE Subscription(i)
  BY DEF Merged, Subscription, Bill, Tables
<1>6. CASE b = Absent
  <2>1. DOMAIN db[table] = Requests /\ DOMAIN db'[table] = Requests
    BY DEF IInv, Shapes, Tables
  <2>2. \A i \in Requests : Subscription(i)' = Subscription(i)
    BY <1>5, <1>6
  <2>3. \A u : Lasting(u) /\ Subscriptions(u)' = Subscriptions(u)
    BY <2>2 DEF Lasting, Subscriptions, Rows, Subscription
  <2>4. CASE Writes(r)
    <3>1. ASSUME t \in Tenants, Holds(r) PROVE \A u : u = t => Settled(u)'
      <4>1. CASE info[r] = Absent
        BY <1>0, <2>3, <3>1, <4>1, SettledLasts DEF Holds
      <4>2. CASE info[r] # Absent
        <5>1. Stored(r) /\ told'[t] = Word(r)
          BY <1>0, <3>1, <4>2 DEF Holds, OnBooks, At
        <5>2. DOMAIN Word(r) = InfoFields
          BY <5>1 DEF Stored
        <5>3. PICK i \in Requests : Subscriptions(t) = {i} /\ Agrees(Subscription(i), Word(r))
          BY <1>6, <5>1 DEF Stored
        <5>4. Subscription(i)' = Subscription(i)
          BY <2>2
        <5> QED
          BY <2>3, <5>1, <5>2, <5>3, <5>4 DEF Settled, Agrees
      <4> QED
        BY <4>1, <4>2
    <3> QED
      BY <1>0, <1>1, <1>3, <1>4, <2>3, <2>4, <3>1, WriterMoves DEF Only
  <2>5. CASE ~Writes(r)
    <3>1. info[r] = Absent /\ told' = told
      BY <1>0, <2>5 DEF Books, WriterInv
    <3>2. Pairs'
      BY <1>1, <1>3, <1>4, <2>3, PairsKept DEF Only
    <3> QED
      BY <1>1, <1>4, <2>3, <2>5, <3>1, <3>2, BooksKept DEF Only
  <2> QED
    BY <2>4, <2>5
<1>7. CASE b # Absent
  <2>1. /\ Writes(r) /\ info[r] # Absent
        /\ \/ b.id = r /\ b.values.tenant = t
           \/ b.id \in Subscriptions(t) /\ "tenant" \notin DOMAIN b.values
    BY <1>7 DEF Books, WriterInv
  <2>2. Subscription(r) = Absent
    BY <1>3, NoRowYet
  <2>3. PICK k \in Requests : k = b.id
    BY <2>1 DEF Subscriptions, Rows
  <2>4. PICK v : v = b.values
    OBVIOUS
  <2> DEFINE new == Patch(Subscription(k), v)
  <2>5. db'[table][k] = new /\ \A i \in Requests \ {k} : db'[table][i] = db[table][i]
    BY <1>7, <2>3, <2>4 DEF Merged, Bill, Subscription, Tables
  <2>6. new # Absent
    <3>1. Inserts(r, table) \/ Updates(r, table)
      BY <1>7 DEF IInv, RequestInv, Drafted, Bill, Tables
    <3>2. CASE Inserts(r, table)
      <4>1. k = r /\ v \in StoredRows(table)
        BY <2>3, <2>4, <3>2 DEF Inserts, Bill
      <4> QED
        BY <2>2, <4>1, StoredRowsAre DEF Patch, Tables
    <3>3. CASE Updates(r, table)
      <4>1. k \in Rows(table) /\ Fits(table, v)
        BY <2>3, <2>4, <3>3 DEF Updates, Bill
      <4>2. Subscription(k) \in StoredRows(table)
        BY <4>1 DEF IInv, Committed, Subscription, Tables
      <4> QED
        BY <4>1, <4>2, StoredRowsAre DEF Fits, Tables
    <3> QED
      BY <3>1, <3>2, <3>3
  <2>7. new.tenant = t /\ (Subscription(k) = Absent \/ k \in Subscriptions(t))
    <3>1. CASE k = r /\ v.tenant = t
      BY <2>2, <3>1 DEF Patch
    <3>2. CASE k \in Subscriptions(t) /\ "tenant" \notin DOMAIN v
      <4>1. Subscription(k) \in BillingSubscriptionRows /\ Subscription(k).tenant = t
        BY <3>2, RowsetsAre DEF IInv, Committed, Subscriptions, Subscription, Tables
      <4>2. Subscription(k) # Absent
        BY <3>2 DEF Subscriptions, Rows, Subscription
      <4>3. "tenant" \in DOMAIN Subscription(k)
        BY <4>1 DEF BillingSubscriptionRows
      <4> QED
        BY <3>2, <4>1, <4>2, <4>3 DEF Patch
    <3> QED
      BY <2>1, <2>3, <2>4, <3>1, <3>2
  <2> HIDE DEF new
  <2>8. \A u : u # t => Lasting(u) /\ Subscriptions(u)' = Subscriptions(u)
    <3> SUFFICES ASSUME NEW u, u # t PROVE Lasting(u) /\ Subscriptions(u)' = Subscriptions(u)
      OBVIOUS
    <3>1. \A i \in Requests : i \in Subscriptions(u)' <=> i \in Subscriptions(u)
      <4>1. k \notin Subscriptions(u) /\ k \notin Subscriptions(u)'
        BY <2>5, <2>6, <2>7 DEF Subscriptions, Subscription, Rows
      <4> QED
        BY <2>5, <4>1 DEF Subscriptions, Subscription, Rows
    <3>2. k \notin Subscriptions(u)
      BY <2>7 DEF Subscriptions, Subscription, Rows
    <3>3. Subscriptions(u) \subseteq Requests /\ Subscriptions(u)' \subseteq Requests
      BY DEF Subscriptions, Rows
    <3> QED
      BY <2>5, <3>1, <3>2, <3>3 DEF Lasting, Subscription
  <2>9. Subscriptions(t)' = Subscriptions(t) \cup {k}
    <3>1. \A i \in Requests : i \in Subscriptions(t)' <=> i \in Subscriptions(t) \cup {k}
      BY <1>1, <2>5, <2>6, <2>7 DEF Subscriptions, Subscription, Rows
    <3>2. Subscriptions(t) \subseteq Requests /\ Subscriptions(t)' \subseteq Requests
      BY DEF Subscriptions, Rows
    <3> QED
      BY <3>1, <3>2
  <2>10. \A u : Subscriptions(u) \subseteq Subscriptions(u)'
    <3>1. \A u : u = t => Subscriptions(u)' = Subscriptions(u) \cup {k}
      BY <1>1, <2>9 DEF Subscriptions
    <3> QED
      BY <2>8, <3>1
  <2>11. ASSUME t \in Tenants, Holds(r) PROVE \A u : u = t => Settled(u)'
    <3>1. Stored(r) /\ told'[t] = Word(r)
      BY <1>0, <2>1, <2>11 DEF Holds, OnBooks, At
    <3>2. /\ Subscriptions(t) \subseteq {k} /\ Agrees(new, Word(r))
          /\ DOMAIN Word(r) = InfoFields
      BY <1>7, <2>3, <2>4, <3>1 DEF Stored, new
    <3>3. Subscriptions(t)' = {k}
      BY <2>9, <3>2
    <3>4. Agrees(Subscription(k), told[t])'
      BY <1>1, <2>5, <3>1, <3>2 DEF Agrees, Subscription
    <3> QED
      BY <1>1, <3>1, <3>2, <3>3, <3>4 DEF Settled
  <2>12. k \in Subscriptions(t) \/ (k = r /\ Fresh(r))
    BY <1>3, <1>7, <2>1, <2>3 DEF Fresh
  <2>13. \A u : \A i \in Subscriptions(u)' :
           i \in Subscriptions(u) \/ (i = r /\ Fresh(r) /\ u = t)
    <3> SUFFICES ASSUME NEW u, NEW i \in Subscriptions(u)'
                 PROVE  i \in Subscriptions(u) \/ (i = r /\ Fresh(r) /\ u = t)
      OBVIOUS
    <3>1. CASE u # t
      BY <2>8, <3>1
    <3>2. CASE u = t
      <4>1. i \in Subscriptions(t)'
        BY <1>1, <3>2 DEF Subscriptions
      <4> QED
        BY <2>9, <2>12, <3>2, <4>1
    <3> QED
      BY <3>1, <3>2
  <2> QED
    BY <1>0, <1>1, <1>3, <1>4, <2>1, <2>8, <2>10, <2>11, <2>13, WriterMoves DEF Only
<1> QED
  BY <1>6, <1>7

-----------------------------------------------------------------------------
(* Every step *)

BooksInv == IInv /\ Books /\ DOMAIN told = Tenants

LEMMA ToldTenants ==
  ASSUME DOMAIN told = Tenants, [Next]_vars
  PROVE  DOMAIN told' = Tenants
<1>1. ASSUME NEW r \in Requests, TenancyStep(r) PROVE told' = told
  BY <1>1 DEF TenancyStep, LookupSlug, InsertTenant, InsertTrial, InviteMember, GetMember, ListMembers,
       CreateProject, GetProject, ListProjects, CreateApiKey, GetApiKey, ListApiKeys, RevokeApiKey,
       VerifyApiKey, PersistAuditEvent, PersistSecurityEvent, PersistSqlAirlockEvent,
       PersistRateLimitEvent, GetTenant, GetTrial, ReadTenant, Add, Reply, Found, history
<1>2. ASSUME NEW r \in Requests, BillingStep(r) PROVE told' = told
  BY <1>2 DEF BillingStep, CreateCheckout, ActivateSubscription, FindExisting, Store, FindLive, Cancel,
       StoreCancellation, GenerateInvoice, ListInvoices, HandleWebhook, GetSubscription, GetQuotaStatus,
       Tell, CheckApiRequest, CountRequests, CheckFeature, CheckProjectLimit, Check, history
<1>3. ASSUME NEW r \in Requests, Start(r) \/ StatementFails(r) \/ ProviderFails(r) PROVE told' = told
  BY <1>3 DEF Start, StatementFails, ProviderFails, history
<1>4. ASSUME NEW r \in Requests, NEW kept, Close(r, kept) PROVE DOMAIN told' = DOMAIN told
  BY <1>4 DEF Close, Heard
<1>5. ASSUME NEW r \in Requests, Commit(r) \/ Rollback(r) \/ CommitFails(r) \/ ProcessDies(r)
      PROVE  DOMAIN told' = DOMAIN told
  BY <1>4, <1>5 DEF Commit, Rollback, CommitFails, ProcessDies
<1>6. ASSUME \/ \E s \in Sessions : ContractMoves(s)
             \/ \E table \in {"tenants", "projects"}, i \in Requests : SoftDelete(table, i)
             \/ Tick
             \/ UNCHANGED vars
      PROVE  told' = told
  BY <1>6 DEF ContractMoves, SoftDelete, Tick, vars, history
<1> QED
  BY <1>1, <1>2, <1>3, <1>5, <1>6 DEF Next, Step, Fault

LEMMA RequestBooks ==
  ASSUME IInv, IInv', Books, DOMAIN told = Tenants, NEW r \in Requests, Step(r) \/ Fault(r)
  PROVE  Books'
<1>1. CASE Start(r)
  BY <1>1, StartBooks
<1>2. CASE TenancyStep(r)
  BY <1>2, TenancyBeside, BesideKeeps
<1>3. CASE BillingStep(r)
  BY <1>3, BillingBeside, BesideKeeps, ActivateBooks, FindBooks, StoreBooks, FindLiveBooks, CancelBooks,
     StoreCancellationBooks DEF BillingStep
<1>4. CASE Commit(r)
  BY <1>4, CommitBooks DEF Commit
<1>5. CASE Rollback(r) \/ ProcessDies(r)
  BY <1>5, LossBooks DEF Rollback, ProcessDies, At, InFlight, Waiting
<1>6. CASE CommitFails(r)
  <2>1. InFlight(r)
    BY <1>6 DEF CommitFails, At, InFlight, Waiting
  <2> QED
    BY <1>6, <2>1, CommitBooks, LossBooks DEF CommitFails
<1>7. CASE StatementFails(r) \/ ProviderFails(r)
  <2>1. InFlight(r)
    BY <1>7 DEF StatementFails, ProviderFails, Asking, InFlight, Waiting
  <2> QED
    BY <1>7, <2>1, RefuseBooks DEF StatementFails, ProviderFails, history
<1> QED
  BY <1>1, <1>2, <1>3, <1>4, <1>5, <1>6, <1>7 DEF Step, Fault

\* Nobody moves, and no subscription's row changes.
LEMMA WorldBooks ==
  ASSUME IInv, IInv', Books, UNCHANGED <<call, pc, draft, snapshot, info, told, overlaps>>,
         db'["billing_subscriptions"] = db["billing_subscriptions"]
  PROVE  Books'
<1>1. \A q \in Requests : Kept(q)
  BY DEF Kept
<1>2. \A q \in Requests : WriterInv(q)'
  BY <1>1, TableKept, WriterLasts DEF Books
<1>3. Calm' = Calm
  BY DEF Calm, Undisturbed
<1>4. \A u \in Calm' : BookInv(u)'
  BY <1>1, <1>3, TableKept, BookLasts DEF Books, Calm
<1>5. \A r \in Requests : /\ Writes(r)' <=> Writes(r)
                          /\ InFlight(r)' <=> InFlight(r)
                          /\ Fresh(r)' <=> Fresh(r)
  BY DEF Writes, InFlight, Waiting, Fresh, Bill
<1>6. \A u : Subscriptions(u)' = Subscriptions(u)
  BY TableKept
<1>7. \A r \in Requests : Subscriptions(call[r].tenant)' = Subscriptions(call[r].tenant)
  BY <1>6, TableKept
<1>8. Pairs'
  BY <1>5, <1>6, <1>7 DEF Books, Pairs
<1> QED
  BY <1>2, <1>4, <1>8 DEF Books

LEMMA InitBooks == Init => Books /\ DOMAIN told = Tenants
<1> SUFFICES ASSUME Init PROVE Books /\ DOMAIN told = Tenants
  OBVIOUS
<1>1. \A r \in Requests : pc[r] = "idle" /\ info[r] = Absent /\ Bill(r) = Absent
  BY DEF Init, Bill, NoDraft, Tables
<1>2. Rows("billing_subscriptions") = {}
  BY DEF Init, Rows, Tables
<1>3. \A t : Subscriptions(t) = {}
  BY <1>2 DEF Subscriptions
<1>4. \A r \in Requests : WriterInv(r)
  BY <1>1 DEF WriterInv, WriterLabels
<1>5. \A t \in Tenants : told[t] = Absent
  BY DEF Init
<1>6. \A t \in Tenants : BookInv(t)
  BY <1>1, <1>3, <1>5 DEF BookInv, Settled, Writer, InFlight, Waiting
<1>7. Pairs
  BY <1>1, <1>3 DEF Pairs, InFlight, Waiting, Fresh
<1> QED
  BY <1>4, <1>6, <1>7 DEF Books, Calm, Init

LEMMA NextBooks == BooksInv /\ [Next]_vars => BooksInv'
<1> SUFFICES ASSUME BooksInv, [Next]_vars PROVE BooksInv'
  OBVIOUS
<1>1. IInv' /\ DOMAIN told' = Tenants
  BY NextIInv, ToldTenants DEF BooksInv
<1>2. ASSUME NEW r \in Requests, Step(r) \/ Fault(r) PROVE Books'
  BY <1>1, <1>2, RequestBooks DEF BooksInv
<1>3. ASSUME NEW s \in Sessions, ContractMoves(s) PROVE Books'
  BY <1>1, <1>3, WorldBooks DEF BooksInv, ContractMoves, request, history
<1>4. ASSUME NEW table \in {"tenants", "projects"}, NEW i \in Requests, SoftDelete(table, i)
      PROVE  Books'
  <2>1. db'["billing_subscriptions"] = db["billing_subscriptions"]
    BY <1>4 DEF SoftDelete, BooksInv, IInv, Shapes, Tables
  <2> QED
    BY <1>1, <1>4, <2>1, WorldBooks DEF BooksInv, SoftDelete, request, history
<1>5. ASSUME Tick PROVE Books'
  BY <1>1, <1>5, WorldBooks DEF BooksInv, Tick, request, history
<1>6. ASSUME UNCHANGED vars PROVE Books'
  BY <1>1, <1>6, WorldBooks DEF BooksInv, vars
<1>7. Books'
  BY <1>2, <1>3, <1>4, <1>5, <1>6 DEF Next
<1> QED
  BY <1>1, <1>7 DEF BooksInv

\* Whatever calls are made, and whatever fails, at the provider too: the table has one
\* row for a tenant whose changes came one after the other, and the row says what the
\* committed ones came to; more than one row are of activations that overlapped.
THEOREM BooksHold == Spec => []BooksAgree
<1>1. BooksInv => BooksAgree
  <2> SUFFICES ASSUME BooksInv, NEW t \in Tenants
               PROVE  /\ \A i, j \in Subscriptions(t) : i # j => {i, j} \in overlaps
                      /\ Undisturbed(t) => Settled(t)
    BY DEF BooksAgree, Settled
  <2>1. \A i, j \in Subscriptions(t) : i # j => {i, j} \in overlaps
    BY DEF BooksInv, Books, Pairs
  <2>2. Undisturbed(t) => Settled(t)
    BY DEF BooksInv, Books, BookInv, Calm
  <2> QED
    BY <2>1, <2>2
<1>2. Init => BooksInv
  BY InitIInv, InitBooks DEF BooksInv
<1> QED
  BY <1>1, <1>2, NextBooks, PTL DEF Spec
=============================================================================
