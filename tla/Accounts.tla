------------------------------ MODULE Accounts ------------------------------
(***************************************************************************)
(* A tenant's account as a whole: the operations of Tenancy and Billing,   *)
(* each in a transaction of its own, side by side on the same tables.      *)
(***************************************************************************)
EXTENDS Tenancy, Billing

CONSTANT Strangers  \* user ids that are not in the table of users

RoutedCalls ==
  CreateCheckoutRequest \cup ActivateSubscriptionRequest \cup SubscriptionCalls \cup WebhookCalls
DirectCalls ==
  TenantCreate \cup MemberCalls(Users \cup Strangers) \cup ProjectCalls \cup ApiKeyCreate
  \cup KeyCalls \cup EventCreate \cup TenantCalls \cup LimitCalls \cup FeatureCalls

ASSUME MixesAssumption ==
  Mixes \subseteq [calls : [Requests -> RoutedCalls \cup DirectCalls], provider : Providers]

Rowsets ==
  [ tenants |-> TenantRows, subscriptions |-> SubscriptionRows, tenant_members |-> MemberRows,
    projects |-> ProjectRows, api_keys |-> ApiKeyRows,
    audit_events |-> AuditEvents, security_events |-> SecurityEvents,
    sql_airlock_events |-> SqlAirlockEvents, rate_limit_events |-> RateLimitEvents,
    billing_subscriptions |-> BillingSubscriptionRows, billing_invoices |-> BillingInvoiceRows,
    billing_events |-> BillingEventRows ]

\* What a provider says, and what of it a row may lack.
Infos ==
  [ provider_subscription_id : Contracts, plan : Plans, status : Statuses,
    cancel_at_period_end : BOOLEAN ]
Changes == { Changed(row, i) : row \in BillingSubscriptionRows, i \in Infos }

\* What is missing is none of these.
ASSUME AbsentAssumption ==
  /\ \A t \in Tables : Absent \notin Rowsets[t]
  /\ Absent \notin Infos
  /\ Absent \notin [id : Requests, row : BillingSubscriptionRows]
  /\ Absent \notin [ id : Requests,
                     values : TenantRows \cup SubscriptionRows \cup BillingSubscriptionRows \cup Changes ]

\* What is called by no route begins at once.
Call(r) ==
  /\ At(r, "idle")
  /\ call[r] \in DirectCalls
  /\ Goto(r, IF call[r].op = "create_tenant" THEN "slug" ELSE call[r].op)
  /\ UNCHANGED reply

Revoked(k) == k \in Rows("api_keys") /\ db["api_keys"][k].revoked_at # Never

Start(r) ==
  /\ Call(r) \/ BillingRoute(r)
  /\ overlaps' = IF Writes(r) THEN overlaps \cup { {q, r} : q \in Rivals(r) } ELSE overlaps
  /\ closed' = IF call[r].op = "verify_api_key" /\ Revoked(call[r].subject)
               THEN closed \cup {r} ELSE closed
  /\ UNCHANGED <<call, draft, snapshot, info, db, world, told>>

-----------------------------------------------------------------------------
Init ==
  /\ \E mix \in Mixes : call = mix.calls /\ provider = mix.provider
  /\ pc = [r \in Requests |-> "idle"]
  /\ reply = [r \in Requests |-> "none"]
  /\ draft = [r \in Requests |-> NoDraft]
  /\ snapshot = [r \in Requests |-> Absent]
  /\ info = [r \in Requests |-> Absent]
  /\ db = [t \in Tables |-> [i \in Requests |-> Absent]]
  /\ clock = 0
  /\ contracts = [s \in Sessions |-> [status |-> "active", ending |-> FALSE]]
  /\ told = [t \in Tenants |-> Absent]
  /\ overlaps = {}
  /\ closed = {}

Step(r) == Start(r) \/ TenancyStep(r) \/ BillingStep(r) \/ Commit(r) \/ Rollback(r)
Fault(r) == CommitFails(r) \/ StatementFails(r) \/ ProviderFails(r) \/ ProcessDies(r)

Next ==
  \/ \E r \in Requests : Step(r) \/ Fault(r)
  \/ \E s \in Sessions : ContractMoves(s)
  \/ \E table \in {"tenants", "projects"}, i \in Requests : SoftDelete(table, i)
  \/ Tick

\* The event loop resumes a request whose statement has an answer.
Fairness == \A r \in Requests : WF_vars(InFlight(r) /\ Step(r))

Spec == Init /\ [][Next]_vars /\ Fairness

-----------------------------------------------------------------------------
(* Properties *)

\* Every table holds rows of its columns only.  All but a billing event's have a tenant,
\* though the context's may be missing: a webhook that names none is recorded with the
\* UUID 0.  An event keeps no secret whose label gives it away; a bare one it keeps.
TypeOK ==
  \A t \in Tables, i \in Requests : db[t][i] = Absent \/ db[t][i] \in Rowsets[t]

\* A slug is one tenant's for good, and a tenant has its trial from its first moment
\* on: create_tenant writes both or neither, whoever else asks for the slug.  Who is
\* refused a slug has lost it to a tenant: two requests are never both turned away.
OnboardingWhole ==
  /\ \A i, j \in Rows("tenants") : db["tenants"][i].slug = db["tenants"][j].slug => i = j
  /\ Rows("tenants") = Rows("subscriptions")
  /\ \A r \in Requests :
       call[r].op = "create_tenant" /\ reply[r] \in {"taken", "integrity"} =>
         Bearing(call[r].subject) # {}

\* A key is refused from the moment its revocation is committed, to whoever asks
\* after that, and only its own tenant has revoked it.
RevokedRefused ==
  /\ \A r \in closed : reply[r] # "valid"
  /\ \A r \in Requests :
       reply[r] = "revoked" => db["api_keys"][call[r].subject].tenant = call[r].tenant

Agrees(row, word) == \A f \in DOMAIN word : row[f] = word[f]

Undisturbed(t) == \A pair \in overlaps : \A r \in pair : call[r].tenant # t

\* Whatever the provider has done with the contract, and whichever changes were lost
\* half-way after it had: a tenant whose changes came one after the other has one row,
\* which says what the committed ones came to, each of them in whole.  One whose
\* changes overlapped may have more, two of them only where the very activations that
\* wrote them did.
BooksAgree ==
  \A t \in Tenants :
    /\ \A i, j \in Subscriptions(t) : i # j => {i, j} \in overlaps
    /\ Undisturbed(t) =>
         \/ told[t] = Absent /\ Subscriptions(t) = {}
         \/ \E i \in Requests : Subscriptions(t) = {i} /\ Agrees(Subscription(i), told[t])

\* Row locks and unique keys make requests wait for each other, never for good.
RequestsEnd == \A r \in Requests : InFlight(r) ~> pc[r] = "done"
=============================================================================
