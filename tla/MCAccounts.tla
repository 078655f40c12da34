----------------------------- MODULE MCAccounts -----------------------------
(***************************************************************************)
(* Accounts on small instances: three calls of one or two tenants.         *)
(***************************************************************************)
EXTENDS Accounts, TLC

CONSTANTS r1, r2, r3, t1, t2, slug, user, nobody, s1, s2, e1

MCFaults == FaultKinds

Ask(op, t, subject, plan) ==
  [op |-> op, tenant |-> t, subject |-> subject, plan |-> plan, permissions |-> Permissions]
Plain(op, t, subject) == Ask(op, t, subject, "free")
Mix(a, b, c) == (r1 :> a) @@ (r2 :> b) @@ (r3 :> c)

Create == Plain("create_tenant", Nil, slug)
Pro == Ask("activate", t1, s1, "pro")
Free == Ask("activate", t1, s2, "free")
Enterprise == Ask("activate", t1, s1, "enterprise")
Stop == Plain("cancel", t1, Never)
Own1(op) == Plain(op, t1, r1)

TenancyMixes ==
  { Mix(Create, Create, Create),
    Mix(Create, Plain("get_tenant", Nil, r1), Plain("get_trial", Nil, r1)),
    Mix(Plain("create_api_key", t1, 0), Own1("revoke_api_key"), Plain("verify_api_key", Nil, r1)),
    Mix(Plain("create_api_key", t1, Never), Plain("revoke_api_key", t2, r1), Own1("revoke_api_key")),
    Mix(Plain("create_api_key", t1, 0), Own1("get_api_key"), Own1("list_api_keys")),
    Mix(Plain("invite_member", t1, user), Plain("invite_member", t1, user), Plain("get_member", t1, user)),
    Mix(Plain("invite_member", t1, nobody), Plain("invite_member", Nil, user), Plain("list_members", t1, user)),
    Mix(Plain("create_project", t1, r1), Own1("get_project"), Plain("list_projects", Nil, r1)),
    Mix(Plain("persist_audit_event", t1, "labelled"), Plain("persist_security_event", t1, "labelled"),
        Plain("persist_audit_event", Nil, "plain")),
    Mix(Plain("persist_audit_event", t1, "bare"), Plain("persist_security_event", t2, "bare"),
        Plain("persist_rate_limit_event", t1, "plain")),
    Mix(Plain("persist_sql_airlock_event", t1, "labelled"), Plain("persist_security_event", t1, "plain"),
        Plain("persist_sql_airlock_event", t2, "nothing")) }

QuotaMixes ==
  { Mix(Pro, Free, Plain("quota", t1, Never)),
    Mix(Pro, Plain("check_projects", t1, 1), Plain("check_request", t1, 1)),
    Mix(Enterprise, Plain("check_request", t1, 2), [Free EXCEPT !.tenant = t2]),
    Mix(Pro, Plain("check_feature", t1, "vision"), Plain("list_projects", t1, r1)) }

BillingMixes ==
  { Mix(Pro, Stop, Free),
    Mix(Pro, Stop, Plain("get_subscription", t1, Never)),
    Mix(Pro, Plain("generate_invoice", t1, Never), Plain("list_invoices", t1, Never)),
    Mix(Plain("webhook", t1, e1), Plain("webhook", Nil, e1), Plain("webhook", t1, Never)),
    Mix(Plain("webhook", t1, e1), Plain("webhook", Nil, "garbled"), Plain("list_invoices", t1, Never)),
    Mix(Ask("checkout", t1, Never, "pro"), Ask("checkout", t1, Never, "free"),
        [Stop EXCEPT !.permissions = {"billing.read"}]),
    Mix(Ask("activate", t1, Never, "pro"), Stop, Pro) }

With(mixes, providers) == [calls : mixes, provider : providers]

MCMixes ==
  With(TenancyMixes \cup QuotaMixes, {"mock"}) \cup With(BillingMixes, {"mock", "stripe"})
  \cup With({Mix(Pro, Plain("quota", t1, Never), Stop)}, {"stripe_unset"})
=============================================================================
