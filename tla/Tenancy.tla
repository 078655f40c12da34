------------------------------ MODULE Tenancy ------------------------------
(***************************************************************************)
(* Tenants, their members, projects and API keys, and the events that are  *)
(* recorded for them (app/saas/service.py, app/saas/repository.py).        *)
(***************************************************************************)
EXTENDS AccountStore

-----------------------------------------------------------------------------
(* Calls: what the schemas admit.  The ids come from the caller's context. *)

Someone == Tenants \cup {Nil}

\* What a caller gives to be recorded: among other things "labelled", a secret that its
\* label (password=...), its entry's name or its shape (a JWT) gives away, or "bare", one
\* that nothing the field's sanitiser looks at does, such as an API key by itself.
Texts == {"nothing", "plain", "labelled", "bare"}

TenantCreate == Request({"create_tenant"}, {Nil}, Slugs, {"free"})
MemberCalls(users) ==
  Request({"invite_member", "get_member", "list_members"}, Someone, users, {"free"})
ProjectCalls ==
  Request({"create_project", "get_project", "list_projects"}, Someone, Requests, {"free"})
ApiKeyCreate == Request({"create_api_key"}, Someone, OptionalTimes, {"free"})
KeyCalls ==
  Request({"get_api_key", "revoke_api_key", "verify_api_key", "list_api_keys"},
          Someone, Requests, {"free"})
EventCreate ==
  Request({"persist_audit_event", "persist_security_event", "persist_sql_airlock_event",
           "persist_rate_limit_event"}, Someone, Texts, {"free"})
TenantCalls == Request({"get_tenant", "get_trial"}, {Nil}, Requests, {"free"})

-----------------------------------------------------------------------------
(* The columns the operations tell apart *)

TenantRows == [slug : Slugs, deleted : BOOLEAN]
SubscriptionRows == [tenant : Requests, status : {"trialing"}, trial_from : Times]
MemberRows == [tenant : Tenants, user : Users]
ProjectRows == [tenant : Tenants, deleted : BOOLEAN]
ApiKeyRows == [tenant : Tenants, expires_at : OptionalTimes, revoked_at : OptionalTimes]
Recorded == {"nothing", "plain", "bare", "redacted"}
AuditEvents == [tenant : Tenants, extra : Recorded \ {"redacted"}]
SecurityEvents == [tenant : Tenants, detail : Recorded]
SqlAirlockEvents ==
  [ tenant : Tenants, block_reason : Recorded,
    query_fingerprint : {"nothing", "digest"} ]
RateLimitEvents == [tenant : Tenants]

-----------------------------------------------------------------------------
(* create_tenant *)

Bearing(slug) == { i \in Rows("tenants") : db["tenants"][i].slug = slug }

\* get_by_slug.
Taken(slug) == \E i \in Bearing(slug) : ~db["tenants"][i].deleted

LookupSlug(r) ==
  /\ At(r, "slug")
  /\ \/ Taken(call[r].subject) /\ Refuse(r, "taken")
     \/ ~Taken(call[r].subject) /\ Goto(r, "insert_tenant") /\ UNCHANGED reply
  /\ UNCHANGED <<call, draft, snapshot, info, db, world, history>>

\* Another transaction has inserted the slug and is not over.
SlugHeld(r) ==
  \E q \in Requests \ {r} :
    draft[q]["tenants"] # Absent /\ draft[q]["tenants"].values.slug = call[r].subject

NewTenant(r) == [slug |-> call[r].subject, deleted |-> FALSE]

\* Faulty variant: no unique key on the slug.
InsertTenantUnchecked(r) ==
  /\ At(r, "insert_tenant")
  /\ Write(r, "tenants", r, NewTenant(r)) /\ Goto(r, "insert_trial") /\ UNCHANGED reply
  /\ UNCHANGED <<call, snapshot, info, db, world, history>>

\* The unique key knows the slugs of deleted tenants too.
InsertTenant(r) ==
  /\ At(r, "insert_tenant")
  /\ ~SlugHeld(r)
  /\ IF Bearing(call[r].subject) # {}
     THEN Refuse(r, "integrity") /\ UNCHANGED draft
     ELSE Write(r, "tenants", r, NewTenant(r)) /\ Goto(r, "insert_trial") /\ UNCHANGED reply
  /\ UNCHANGED <<call, snapshot, info, db, world, history>>

NewTrial(r) == [tenant |-> r, status |-> "trialing", trial_from |-> clock]

InsertTrial(r) ==
  /\ At(r, "insert_trial")
  /\ Write(r, "subscriptions", r, NewTrial(r))
  /\ Succeed(r, "created")
  /\ UNCHANGED <<call, snapshot, info, db, world, history>>

-----------------------------------------------------------------------------
(* Rows that are only added, and read with the tenant's id *)

\* _require_tenant.
Isolated(r) == call[r].tenant = Nil

Add(r, table, row) ==
  /\ At(r, call[r].op)
  /\ IF Isolated(r)
     THEN Refuse(r, "isolation") /\ UNCHANGED draft
     ELSE Write(r, table, r, row) /\ Succeed(r, "created")
  /\ UNCHANGED <<call, snapshot, info, db, world, history>>

Reply(r, a) ==
  /\ At(r, call[r].op)
  /\ IF Isolated(r) THEN Refuse(r, "isolation") ELSE Succeed(r, a)
  /\ UNCHANGED <<call, draft, snapshot, info, db, world, history>>

\* The row a call names, if it is the tenant's.
Own(r, table) ==
  call[r].subject \in Rows(table) /\ db[table][call[r].subject].tenant = call[r].tenant

Found(r, is) == Reply(r, IF is THEN "found" ELSE "none")

NewMember(r) == [tenant |-> call[r].tenant, user |-> call[r].subject]

\* The user must exist; nothing is asked of the tenant.
InviteMember(r) ==
  /\ call[r].op = "invite_member"
  /\ \/ (Isolated(r) \/ call[r].subject \in Users) /\ Add(r, "tenant_members", NewMember(r))
     \/ /\ ~Isolated(r) /\ call[r].subject \notin Users
        /\ At(r, call[r].op) /\ Refuse(r, "integrity")
        /\ UNCHANGED <<call, draft, snapshot, info, db, world, history>>

Memberships(c) ==
  { i \in Rows("tenant_members") :
      db["tenant_members"][i].tenant = c.tenant /\ db["tenant_members"][i].user = c.subject }

\* scalar_one_or_none raises when the user has been invited twice.
GetMember(r) ==
  /\ call[r].op = "get_member"
  /\ IF Cardinality(Memberships(call[r])) > 1
     THEN /\ At(r, call[r].op) /\ Refuse(r, "error")
          /\ UNCHANGED <<call, draft, snapshot, info, db, world, history>>
     ELSE Found(r, Memberships(call[r]) # {})

ListMembers(r) == call[r].op = "list_members" /\ Reply(r, "listed")

NewProject(r) == [tenant |-> call[r].tenant, deleted |-> FALSE]

CreateProject(r) == call[r].op = "create_project" /\ Add(r, "projects", NewProject(r))

GetProject(r) ==
  /\ call[r].op = "get_project"
  /\ Found(r, Own(r, "projects") /\ ~db["projects"][call[r].subject].deleted)

ListProjects(r) == call[r].op = "list_projects" /\ Reply(r, "listed")

-----------------------------------------------------------------------------
(* API keys *)

NewApiKey(r) ==
  [tenant |-> call[r].tenant, expires_at |-> call[r].subject, revoked_at |-> Never]

CreateApiKey(r) == call[r].op = "create_api_key" /\ Add(r, "api_keys", NewApiKey(r))

GetApiKey(r) == call[r].op = "get_api_key" /\ Found(r, Own(r, "api_keys"))

ListApiKeys(r) == call[r].op = "list_api_keys" /\ Reply(r, "listed")

\* UPDATE ... WHERE id AND tenant_id waits for the row; revoked twice, a key is dated anew.
RevokeApiKey(r) ==
  /\ call[r].op = "revoke_api_key"
  /\ IF ~Isolated(r) /\ Own(r, "api_keys")
     THEN /\ At(r, call[r].op)
          /\ RowFree(r, "api_keys", call[r].subject)
          /\ Write(r, "api_keys", call[r].subject, [revoked_at |-> clock])
          /\ Succeed(r, "revoked")
          /\ UNCHANGED <<call, snapshot, info, db, world, history>>
     ELSE Found(r, FALSE)

\* Faulty variant: only the expiry is looked at.
IsActiveUntilExpiry(key) == key.expires_at # Never => clock <= key.expires_at

IsActive(key) ==
  /\ key.revoked_at = Never
  /\ key.expires_at # Never => clock <= key.expires_at

\* Whoever holds the raw key names no tenant.
VerifyApiKey(r) ==
  /\ call[r].op = "verify_api_key" /\ At(r, call[r].op)
  /\ LET k == call[r].subject
         good == k \in Rows("api_keys") /\ IsActive(db["api_keys"][k])
     IN  Succeed(r, IF good THEN "valid" ELSE "invalid")
  /\ UNCHANGED <<call, draft, snapshot, info, db, world, history>>

-----------------------------------------------------------------------------
(* Events *)

\* Faulty variant: a secret is recorded as it is.
DetailKept(text) == text

\* sanitize_detail overwrites what matches one of its two patterns, sanitize_extra
\* leaves out the entries whose names speak of a secret and keeps the values of the
\* others as they are; of a query only the digest is kept.
Detail(text) == IF text = "labelled" THEN "redacted" ELSE text
Extra(text) == IF text = "labelled" THEN "nothing" ELSE text
Fingerprint(text) == IF text = "nothing" THEN "nothing" ELSE "digest"

AuditEvent(r) == [tenant |-> call[r].tenant, extra |-> Extra(call[r].subject)]
SecurityEvent(r) == [tenant |-> call[r].tenant, detail |-> Detail(call[r].subject)]
SqlAirlockEvent(r) ==
  [ tenant |-> call[r].tenant, block_reason |-> Detail(call[r].subject),
    query_fingerprint |-> Fingerprint(call[r].subject) ]
RateLimitEvent(r) == [tenant |-> call[r].tenant]

PersistAuditEvent(r) ==
  call[r].op = "persist_audit_event" /\ Add(r, "audit_events", AuditEvent(r))
PersistSecurityEvent(r) ==
  call[r].op = "persist_security_event" /\ Add(r, "security_events", SecurityEvent(r))
PersistSqlAirlockEvent(r) ==
  call[r].op = "persist_sql_airlock_event" /\ Add(r, "sql_airlock_events", SqlAirlockEvent(r))
PersistRateLimitEvent(r) ==
  call[r].op = "persist_rate_limit_event" /\ Add(r, "rate_limit_events", RateLimitEvent(r))

-----------------------------------------------------------------------------
(* Reads of the tenant itself, and deletions by another program *)

ReadTenant(r, op, table) ==
  /\ call[r].op = op /\ At(r, op)
  /\ LET there == call[r].subject \in Rows(table)
     IN  Succeed(r, IF there /\ (table = "tenants" => ~db[table][call[r].subject].deleted)
                    THEN "found" ELSE "none")
  /\ UNCHANGED <<call, draft, snapshot, info, db, world, history>>

GetTenant(r) == ReadTenant(r, "get_tenant", "tenants")
GetTrial(r) == ReadTenant(r, "get_trial", "subscriptions")

SoftDelete(table, i) ==
  /\ i \in Rows(table) /\ ~db[table][i].deleted
  /\ db' = [db EXCEPT ![table][i].deleted = TRUE]
  /\ UNCHANGED <<request, world, history>>

TenancyStep(r) ==
  \/ LookupSlug(r) \/ InsertTenant(r) \/ InsertTrial(r)
  \/ InviteMember(r) \/ GetMember(r) \/ ListMembers(r)
  \/ CreateProject(r) \/ GetProject(r) \/ ListProjects(r)
  \/ CreateApiKey(r) \/ GetApiKey(r) \/ ListApiKeys(r) \/ RevokeApiKey(r) \/ VerifyApiKey(r)
  \/ PersistAuditEvent(r) \/ PersistSecurityEvent(r)
  \/ PersistSqlAirlockEvent(r) \/ PersistRateLimitEvent(r)
  \/ GetTenant(r) \/ GetTrial(r)
=============================================================================
