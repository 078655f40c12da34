------------------------------ MODULE Billing ------------------------------
(***************************************************************************)
(* Plans, checkout, the subscription of a tenant, invoices, webhooks and   *)
(* the plan the quota is taken from (app/billing).                         *)
(*                                                                         *)
(* A change of the subscription asks the provider first and writes the     *)
(* row afterwards; nothing compensates the provider when the write is      *)
(* lost, and two changes of one tenant are kept apart by nothing.  The     *)
(* mock provider lives as long as its request: what another request        *)
(* activated it does not know.                                             *)
(***************************************************************************)
EXTENDS AccountStore

-----------------------------------------------------------------------------
(* Plans.  A limit of this model stands for the plan's, far above it; -1 is none. *)

PlanFeatures ==
  [ free |-> [requests |-> 1, projects |-> 1, enabled |-> {"rag_search"}],
    pro |-> [requests |-> 2, projects |-> 2, enabled |-> {"rag_search", "vision", "workflow"}],
    enterprise |-> [requests |-> -1, projects |-> -1,
                    enabled |-> {"rag_search", "vision", "workflow"}] ]
Plans == DOMAIN PlanFeatures
Features == {"rag_search", "vision", "workflow", "other"}
Counts == 0 .. 2

-----------------------------------------------------------------------------
(* Calls *)

CreateCheckoutRequest == Request({"checkout"}, Tenants, {Never}, Plans)
ActivateSubscriptionRequest == Request({"activate"}, Tenants, Sessions \cup {Never}, Plans)
SubscriptionCalls ==
  Request({"get_subscription", "cancel", "generate_invoice", "list_invoices", "quota"},
          Tenants, {Never}, {"free"})
WebhookCalls ==
  Request({"webhook"}, Tenants \cup {Nil}, Events \cup {Never, "garbled"}, {"free"})
LimitCalls == Request({"check_request", "check_projects"}, Tenants, Counts, {"free"})
FeatureCalls == Request({"check_feature"}, Tenants, Features, {"free"})

-----------------------------------------------------------------------------
(* Rows *)

Contracts == Requests \cup Sessions
LiveStatuses == {"active", "trialing", "past_due"}
Statuses == LiveStatuses \cup {"canceled"}

BillingSubscriptionRows ==
  [ tenant : Tenants, created_at : Times, plan : Plans, status : Statuses,
    provider_subscription_id : Contracts, cancel_at_period_end : BOOLEAN ]
BillingInvoiceRows == [tenant : Tenants, subscription : Requests]
BillingEventRows == [tenant : Tenants \cup {Nil}, event : Requests \cup Events]

Subscription(i) == db["billing_subscriptions"][i]
Subscriptions(tenant) ==
  { i \in Rows("billing_subscriptions") : Subscription(i).tenant = tenant }

\* ORDER BY created_at DESC LIMIT 1: one of the latest.
Latest(tenant, statuses) ==
  LET among == { i \in Subscriptions(tenant) : Subscription(i).status \in statuses }
  IN  { i \in among : \A j \in among : Subscription(j).created_at <= Subscription(i).created_at }

\* A query that loads one of the rows, and where the request goes from there.
Load(r, rows, label) ==
  /\ \E i \in rows : snapshot' = [snapshot EXCEPT ![r] = [id |-> i, row |-> Subscription(i)]]
  /\ Goto(r, label)
  /\ UNCHANGED reply

-----------------------------------------------------------------------------
(* The routes: a permission first, then a provider, which Stripe without its key is not. *)

Route(r, op, needed, label) ==
  /\ At(r, "idle") /\ call[r].op = op
  /\ \/ ~(needed \subseteq call[r].permissions) /\ Refuse(r, "forbidden")
     \/ needed \subseteq call[r].permissions /\ provider = "stripe_unset" /\ Refuse(r, "error")
     \/ needed \subseteq call[r].permissions /\ provider # "stripe_unset"
        /\ Goto(r, label) /\ UNCHANGED reply

CheckoutRoute(r) == Route(r, "checkout", {"billing.manage"}, "checkout")
ActivateRoute(r) == Route(r, "activate", {"billing.manage"}, "activate")
SubscriptionRoute(r) ==
  Route(r, "get_subscription", {"billing.read"}, "get_subscription")
CancelRoute(r) == Route(r, "cancel", {"billing.manage"}, "find_live")
InvoiceRoute(r) == Route(r, "generate_invoice", {"billing.manage"}, "find_live")
InvoicesRoute(r) == Route(r, "list_invoices", {"billing.read"}, "list_invoices")
WebhookRoute(r) == Route(r, "webhook", {}, "webhook")
QuotaRoute(r) == Route(r, "quota", {"billing.read"}, "quota")

BillingRoute(r) ==
  \/ CheckoutRoute(r) \/ ActivateRoute(r) \/ SubscriptionRoute(r) \/ CancelRoute(r)
  \/ InvoiceRoute(r) \/ InvoicesRoute(r) \/ WebhookRoute(r) \/ QuotaRoute(r)

-----------------------------------------------------------------------------
(* The provider *)

\* SubscriptionInfo.
Described(contract, plan, status, ending) ==
  [ provider_subscription_id |-> contract, plan |-> plan, status |-> status,
    cancel_at_period_end |-> ending ]

\* Stripe ends a contract that has been cancelled, and misses payments.
ContractMoves(s) ==
  /\ provider = "stripe"
  /\ contracts[s].status = "active"
  /\ contracts' = [contracts EXCEPT ![s].status =
                     IF contracts[s].ending THEN "canceled" ELSE "past_due"]
  /\ UNCHANGED <<request, db, clock, provider, history>>

Marked(id) == [contracts EXCEPT ![id].ending = TRUE]

\* Stripe raises what no route expects (the mock provider raises BillingError), or has
\* done what it was asked to and only its answer is lost.
ProviderFails(r) ==
  /\ "provider" \in Faults
  /\ provider = "stripe"
  /\ pc[r] \in Asking
  /\ Refuse(r, "error")
  /\ \/ UNCHANGED contracts
     \/ /\ pc[r] = "cancel"
        /\ LET id == snapshot[r].row.provider_subscription_id
           IN  contracts[id].status # "canceled" /\ contracts' = Marked(id)
  /\ UNCHANGED <<call, draft, snapshot, info, db, clock, provider, history>>

Informed(r, what) == info' = [info EXCEPT ![r] = what]

-----------------------------------------------------------------------------
(* Checkout and activation *)

MockCheckout(r) == provider = "mock" /\ Succeed(r, "session")

\* The free plan has no price at Stripe.
StripeCheckout(r) ==
  /\ provider = "stripe"
  /\ IF call[r].plan = "free" THEN Refuse(r, "unavailable") ELSE Succeed(r, "session")

CreateCheckout(r) ==
  /\ At(r, "checkout")
  /\ MockCheckout(r) \/ StripeCheckout(r)
  /\ UNCHANGED <<call, draft, snapshot, info, db, world, history>>

\* The mock provider takes any id with its prefix and makes a new subscription.
MockActivates(r) ==
  /\ provider = "mock"
  /\ IF call[r].subject \in Sessions
     THEN Informed(r, Described(r, call[r].plan, "active", FALSE)) /\ Goto(r, "find")
          /\ UNCHANGED reply
     ELSE Refuse(r, "rejected") /\ UNCHANGED info

\* The plan is the one the request names.
StripeActivates(r) ==
  /\ provider = "stripe"
  /\ IF call[r].subject \in Sessions
     THEN LET c == contracts[call[r].subject]
          IN  Informed(r, Described(call[r].subject, call[r].plan, c.status, c.ending))
              /\ Goto(r, "find") /\ UNCHANGED reply
     ELSE Refuse(r, "error") /\ UNCHANGED info

ActivateSubscription(r) ==
  /\ At(r, "activate")
  /\ MockActivates(r) \/ StripeActivates(r)
  /\ UNCHANGED <<call, draft, snapshot, db, world, history>>

\* Faulty variant: a subscription that is not active is not found.
FindExistingActive(r) ==
  /\ At(r, "find")
  /\ LET rows == Latest(call[r].tenant, {"active"})
     IN  \/ rows # {} /\ Load(r, rows, "store")
         \/ rows = {} /\ Goto(r, "store") /\ UNCHANGED <<snapshot, reply>>
  /\ UNCHANGED <<call, draft, info, db, world, history>>

FindExisting(r) ==
  /\ At(r, "find")
  /\ LET rows == Latest(call[r].tenant, Statuses)
     IN  \/ rows # {} /\ Load(r, rows, "store")
         \/ rows = {} /\ Goto(r, "store") /\ UNCHANGED <<snapshot, reply>>
  /\ UNCHANGED <<call, draft, info, db, world, history>>

NewSubscription(r) ==
  [ tenant |-> call[r].tenant, created_at |-> clock,
    plan |-> info[r].plan, status |-> info[r].status,
    provider_subscription_id |-> info[r].provider_subscription_id,
    cancel_at_period_end |-> info[r].cancel_at_period_end ]

\* An UPDATE of a loaded row, which waits for the row; without a difference there is none.
Update(r, values) ==
  IF DOMAIN values = {}
  THEN UNCHANGED draft
  ELSE /\ RowFree(r, "billing_subscriptions", snapshot[r].id)
       /\ Write(r, "billing_subscriptions", snapshot[r].id, values)

\* _upsert_subscription: inserts, or updates what differs from the row it loaded.
Store(r) ==
  /\ At(r, "store")
  /\ \/ snapshot[r] = Absent /\ Write(r, "billing_subscriptions", r, NewSubscription(r))
     \/ snapshot[r] # Absent /\ Update(r, Changed(snapshot[r].row, info[r]))
  /\ Succeed(r, "activated")
  /\ UNCHANGED <<call, snapshot, info, db, world, history>>

-----------------------------------------------------------------------------
(* Cancellation *)

\* _fetch_active_subscription.
FindLive(r) ==
  /\ At(r, "find_live")
  /\ LET rows == Latest(call[r].tenant, LiveStatuses)
     IN  \/ rows # {} /\ call[r].op = "cancel" /\ Load(r, rows, "cancel")
         \/ rows # {} /\ call[r].op = "generate_invoice" /\ Load(r, rows, "invoice")
         \/ rows = {} /\ Refuse(r, "not_found") /\ UNCHANGED snapshot
  /\ UNCHANGED <<call, draft, info, db, world, history>>

\* A mock provider that is asked to cancel has activated nothing.
MockCancels(r) ==
  provider = "mock" /\ Refuse(r, "rejected") /\ UNCHANGED <<info, contracts>>

\* Stripe marks the contract and says what it is: until the period ends, active.  The
\* plan is _safe_plan of the contract's metadata, where nothing names one: checkout
\* puts it on the session.
StripeCancels(r) ==
  LET id == snapshot[r].row.provider_subscription_id
  IN  /\ provider = "stripe"
      /\ IF contracts[id].status = "canceled"
         THEN Refuse(r, "error") /\ UNCHANGED <<info, contracts>>
         ELSE /\ contracts' = Marked(id)
              /\ Informed(r, Described(id, "free", contracts[id].status, TRUE))
              /\ Goto(r, "store_cancellation") /\ UNCHANGED reply

Cancel(r) ==
  /\ At(r, "cancel")
  /\ MockCancels(r) \/ StripeCancels(r)
  /\ UNCHANGED <<call, draft, snapshot, db, clock, provider, history>>

\* Of what the provider said, the status and the end of the period: not the plan.
StoreCancellation(r) ==
  /\ At(r, "store_cancellation")
  /\ Update(r, Changed(snapshot[r].row,
                       [ status |-> info[r].status,
                         cancel_at_period_end |-> info[r].cancel_at_period_end ]))
  /\ Succeed(r, "cancelled")
  /\ UNCHANGED <<call, snapshot, info, db, world, history>>

-----------------------------------------------------------------------------
(* Invoices *)

\* The amount is the provider's: Stripe does not look at the plan's price, which
\* generate_invoice computes, and asks for an upcoming invoice by an id it may not have.
NewInvoice(r) == [tenant |-> call[r].tenant, subscription |-> snapshot[r].id]

MockInvoices(r) == provider = "mock" /\ Refuse(r, "rejected") /\ UNCHANGED draft
StripeInvoices(r) ==
  provider = "stripe" /\ Write(r, "billing_invoices", r, NewInvoice(r)) /\ Succeed(r, "invoiced")

GenerateInvoice(r) ==
  /\ At(r, "invoice")
  /\ MockInvoices(r) \/ StripeInvoices(r)
  /\ UNCHANGED <<call, snapshot, info, db, world, history>>

ListInvoices(r) ==
  /\ At(r, "list_invoices")
  /\ Succeed(r, "listed")
  /\ UNCHANGED <<call, draft, snapshot, info, db, world, history>>

-----------------------------------------------------------------------------
(* Webhooks *)

\* The mock provider names each delivery anew, Stripe the event.
MockEvent(r) == r
StripeEvent(r) == call[r].subject

NewEvent(r) ==
  [tenant |-> call[r].tenant, event |-> IF provider = "mock" THEN MockEvent(r) ELSE StripeEvent(r)]

\* No JSON, or forged; or "garbled", with a tenant's id that is none or JSON that is no
\* object, which no handler expects; or an event of some tenant or none: it is recorded,
\* whether it has been before or not, and changes no subscription.
HandleWebhook(r) ==
  /\ At(r, "webhook")
  /\ IF call[r].subject = "garbled" THEN Refuse(r, "error") /\ UNCHANGED draft
     ELSE IF call[r].subject \notin Events THEN Refuse(r, "rejected") /\ UNCHANGED draft
     ELSE Write(r, "billing_events", r, NewEvent(r)) /\ Succeed(r, "processed")
  /\ UNCHANGED <<call, snapshot, info, db, world, history>>

-----------------------------------------------------------------------------
(* What is only read *)

Tell(r, a) == Succeed(r, a) /\ UNCHANGED <<call, draft, snapshot, info, db, world, history>>

GetSubscription(r) ==
  /\ At(r, "get_subscription")
  /\ IF Latest(call[r].tenant, LiveStatuses) = {}
     THEN Refuse(r, "not_found")
     ELSE Succeed(r, "found")
  /\ UNCHANGED <<call, draft, snapshot, info, db, world, history>>

\* QuotaEnforcer._get_plan: without an active subscription, the free plan.
PlansServed(tenant) ==
  LET rows == Latest(tenant, {"active"})
  IN  IF rows = {} THEN {"free"} ELSE { Subscription(i).plan : i \in rows }

GetQuotaStatus(r) ==
  At(r, "quota") /\ \E p \in PlansServed(call[r].tenant) : Tell(r, p)

Within(count, limit) == limit = -1 \/ count < limit

Check(r, passes) ==
  /\ Answer(r, IF passes THEN "passed" ELSE "exceeded")
  /\ Goto(r, IF passes THEN "commit" ELSE "rollback")
  /\ UNCHANGED <<call, draft, snapshot, info, db, world, history>>

\* The labels between the two statements of check_api_request: which plan was read.
Counting == [p \in {"free", "pro"} |-> IF p = "free" THEN "count_free" ELSE "count_pro"]

\* A plan without a limit asks for no count.
CheckApiRequest(r) ==
  /\ At(r, "check_request")
  /\ \E p \in PlansServed(call[r].tenant) :
       \/ PlanFeatures[p].requests = -1 /\ Check(r, TRUE)
       \/ /\ PlanFeatures[p].requests # -1
          /\ Goto(r, Counting[p])
          /\ UNCHANGED <<call, reply, draft, snapshot, info, db, world, history>>

\* _get_monthly_requests: the subject is the sum of the usage records this finds.
CountRequests(r) ==
  \E p \in DOMAIN Counting :
    At(r, Counting[p]) /\ Check(r, call[r].subject < PlanFeatures[p].requests)

CheckFeature(r) ==
  /\ At(r, "check_feature")
  /\ \E p \in PlansServed(call[r].tenant) :
       Check(r, call[r].subject \in PlanFeatures[p].enabled \cup {"other"})

\* The caller says how many projects there are.
CheckProjectLimit(r) ==
  /\ At(r, "check_projects")
  /\ \E p \in PlansServed(call[r].tenant) : Check(r, Within(call[r].subject, PlanFeatures[p].projects))

BillingStep(r) ==
  \/ CreateCheckout(r) \/ ActivateSubscription(r) \/ FindExisting(r) \/ Store(r)
  \/ FindLive(r) \/ Cancel(r) \/ StoreCancellation(r)
  \/ GenerateInvoice(r) \/ ListInvoices(r) \/ HandleWebhook(r)
  \/ GetSubscription(r) \/ GetQuotaStatus(r)
  \/ CheckApiRequest(r) \/ CountRequests(r) \/ CheckFeature(r) \/ CheckProjectLimit(r)
=============================================================================
