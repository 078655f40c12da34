# Mythos Aegis: specifications and proofs

TLA+ specifications of the backend in `src/app`, the TLC configurations that
check them on small instances, and theorems about them that TLAPS proves for
every value of their constants.

`PROJECT.json` ties every definition to the lines of source it models, every run
to its properties, and every hazard of the code to the properties that watch it.

    tlc -config Workflow_safety.cfg MCWorkflow     # check a model
    tlapm WorkflowProofs.tla                       # check its proofs

## 1. The system

The backend is one FastAPI application, run as several replicas on one
PostgreSQL database and one Redis. Each request is a coroutine. What makes it
hard is common to all parts:

* **One session per request** (`app/db/session.py`). Everything a handler writes
  is flushed into one transaction. `get_session` commits it when the handler has
  returned and the response has gone out, and rolls it back when the handler
  raises, an `HTTPException` included. A statement that fails makes the session
  unusable until the rollback: each later flush raises.
* **READ COMMITTED and no row locks.** A SELECT sees what is committed; an UPDATE
  waits for the transaction that holds the row, and an INSERT for one that is
  inserting the same unique key. Decisions are taken on reads that may be stale
  when the write comes.
* **Awaits in the middle of transactions**: AI providers, the MFA challenge,
  back-off sleeps.
* **Per-process state**: signing keys, the Redis client, the mock billing
  provider live in one replica's memory and vanish with it.

| component | keeps | operations | meets | what makes it correct |
|---|---|---|---|---|
| workflow execution (`workflow/`) | definitions, executions, step rows | create, deactivate, execute, read | every tool service a step calls, in the same session | the audit trail is whole, truthful, ordered, and agrees with the answer |
| AI gateway, usage (`ai_gateway/`, `saas/repository.py`, `rag/service.py` ask) | one usage counter per tenant, month and project; the quota reads one project's | generate, ask, increment, quota check | calls that overlap on one row | counted once, refused only after the limit |
| key rotation (`secrets/rotation.py`, `auth/jwt.py`) | current and previous key per process | promote, retire, validate, restart | replicas, the deployment's secrets | a live token is accepted, a retired key is not, and only a restart that undoes a rotation changes that |
| order cancellation (`pathways/write/`) | order rows | cancel: read, validate, challenge, update | fulfilment, other cancellations | only the owner, once, in time, and the answer is true |
| middleware (`auth/middleware.py`, `rate_limit/`) | a counter and an expiry per key in Redis | authenticate, count, allow or refuse | replicas that share the counters, a Redis that fails | refused only for one's own requests, or one's address's, never for good |
| billing (`billing/`) | subscriptions, invoices, events; the contracts at Stripe | checkout, activate, cancel, invoice, webhook, quota | changes of one tenant that overlap, a provider that is asked before the row is written | the table says what the committed changes came to |
| tenants (`saas/`) | tenants with their trial, members, projects, API keys, events | create, invite, issue, revoke, verify, append | two creations of one slug, checks beside a revocation | one tenant per slug, whole from the first moment; a revoked key stays revoked |
| agent (`agent/`) | sessions and messages | run a turn: store, read history, loop over model and tools, store | turns of one session that overlap, tools in the same database session | a turn is stored whole or not, the model sees whole turns, the loop ends |
| documents (`rag/`) | documents with a status, chunks | upload, search, ask, list | vision and workflows, that call upload inside their own transaction | a document is searchable exactly when it is indexed |
| vision (`vision/`) | audit events | analyse, OCR, extract, index | documents, in one transaction | what is logged as indexed is |
| routing and permissions (`orchestrator.py`, `intent/`, `auth/permissions.py`, `response/`, `pathways/`) | nothing | classify, permit, dispatch, phrase | every pathway | nothing runs without its permission, nothing internal is told |
| SQL airlock (`pathways/sql_airlock/`) | nothing | validate, rewrite, execute with a timeout | the analytics database | not modelled, see section 5 |
| secrets provider, configuration, observability, migrations, admin front end, deployment | see `PROJECT.json` | | | |

`PROJECT.json` lists all of them, with the reason where one is not modelled, and
40 hazards with the line at which each bites.

## 2. Modules

| module | what it is | proofs |
|---|---|---|
| `Workflow` | workflow definitions and their execution | `WorkflowProofs` |
| `ExecutionLedger` | what the workflow component promises to everybody else; `Workflow` implements it | `WorkflowProofs` |
| `UsageMeter` | metering of AI calls and the monthly quota | `UsageMeterProofs` |
| `KeyRotation` | rotation of JWT keys, in the process and by redeployment | `KeyRotationProofs` |
| `OrderCancel` | cancellation of orders | `OrderCancelProofs` |
| `RateLimit` | authentication and rate limiting | `RateLimitProofs` |
| `Chunker` | how a text is cut into pieces | `DocumentsProofs` |
| `Documents` | uploads by every door, search, vision and its audit events; extends `Chunker` | `DocumentsProofs` |
| `DocumentLibrary` | what the document store promises to those who search; `Documents` implements it | `DocumentsProofs` |
| `AccountStore` | the tables of a tenant's account and the transactions on them | |
| `Tenancy`, `Billing` | the operations of `saas/` and of `billing/` on these tables | |
| `Accounts` | both, composed, with their properties | `AccountsProofs` |
| `AgentTools` | what each tool of the agent can come to | |
| `AgentSession` | the routes, the memory and the turns of the agent; extends `AgentTools` | |
| `Routing` | a routed message from its rules to its sentence | |
| `Assistant` | `AgentSession` and `Routing`, composed, with their properties | `AssistantProofs` |
| `MC...` | the small instance of each that TLC checks | |

### Conventions

Each process of the code (a request, a call, a connection) has a `pc` that names
the point at which it can be overtaken by others: a statement, an await, a
commit. What the code does between two such points is one action. Names are the
code's own. Failures of the environment are actions that need a member of
`Faults`; fairness never makes one due. Variables marked *history* are read by
properties only, no action's guard looks at them. Definitions marked *faulty
variant* are plausible slips of the definition below them, used to see that a
property notices the slip; no specification uses them.

### Workflow and ExecutionLedger

`defs` and `committed` are the tables; `status`, `rows`, `index`, `last_error`
and `output` are what one request holds in its session and in the locals of
`WorkflowEngine._run_step`. `Receive`, `Refuse` and `TriggerExecution` are
`WorkflowService.trigger_execution`; `StartExecution` to `FinishExecution` are the engine's
loop, with `AttemptStep`, `RetryStep` and `RecordStep` for the attempts of one step;
`Respond`, `Commit`, `CommitFails` and `Rollback` are the route and `get_session`.
`StatementRaises` is a flush on a session that a failed statement has spoilt.
Readers fetch an execution and its steps in two statements. Four kinds of
failure: a statement inside a step's service, one of the engine's own, the
commit, the process.

`ExecutionLedger` says what others may see: an execution is absent, and then, in
one step and for ever, there with its outcome. `LedgerView` maps the committed
table to it, and `LedgerSpec` is the refinement.

### UsageMeter

`usage_records` is the table of one tenant and month; a row is named by the call
that inserted it. `CheckQuota` and `Generate` are `AIGatewayService.generate`
with its quota check, `Search` and `AnswerQuestion` `RAGService.ask`, and
`FetchRecord`, `InsertRecord`, `InsertCollides` and `UpdateRecord` the statements
of `UsageRepository.increment`, which both call. `inserted` and `updated` are the
key and the row a transaction holds. A project of NULL does not collide in the
unique key, so `NoProject` may have two rows, and then the quota check raises
(`CheckRaises`), although `ai_gateway/service.py:79` says "Never raises". A call may be
refused by its permission gate (`CallGenerate`, `CallAsk`), and `quota_enabled`, chosen
at the start, is `AI_QUOTA_ENABLED`. The check reads the row of the request's own
project, so the quota's properties are about a project; that the limit is documented
as the tenant's is among the disagreements below.

### KeyRotation

`keys[p]` is the pair in a process's memory, `deployed` the pair in the
deployment's secrets. `PromoteNewKey` and `RetireOldKey` are the service,
`Configure`, `ClearPrevious` and `Restart` the rotation by secrets, `Verdict` is
`validate_token`. No code calls the service or signs a token, so the operators
and the issuer are the environment: they keep the documented wait of
`JWT_EXPIRY_SECONDS` between two changes (`Waited`, `RolledOut`). The operators use
the service, the secrets, or both (`operations`, chosen at the start).

The rotated pair is in memory only. `rotated[p]` says that a process has rotated and
the secrets do not show it; `Record` is the operators' edit that makes them. A restart
before that edit undoes the rotation (`Undo`): it brings a retired key back
(`revived`), and drops the promoted one with its tokens (`lost`). The two
properties say that nothing else does either.

### OrderCancel

`Lookup`, `Challenge`, `Mutate` and `Commit` are the statements and the await of
`execute_cancel_order`; `updating` is the row lock its UPDATE takes. `Fulfil`,
`SoftDelete` and `Tick` are the rest of the world. The order is read and validated
before the challenge and written after it without a second look. A history
variable, `overtaken`, records the requests during which the order or the clock
moved, so that the properties can say exactly how much the code guarantees.

A row's `text` is how its status column spells the status. `order.py:43` reads and
writes the names of `OrderStatus` (`PENDING`), and the migration's CHECK and default
have its values (`pending`). A row that holds a value cannot be loaded (`Loads`), and the
request ends with a system error, so that the properties of cancellations are those of
a table that holds names.

### RateLimit

A connection sends one request after another through `JWTAuthMiddleware` and
`RateLimitMiddleware`. `Connect` is `_get_redis`, `Allow` and `Refuse` are a run of
the Lua script (`Script`) with the comparison after it, `GivesUp`, `Unreached` and
`AnswerLost` the ways in which the Redis client's attempts fail, after which the
request passes. The clock ticks `Second` times a second, because Redis keeps
times to live more finely than it reports them. How often the client library
tries again depends on its version, which is not pinned: `MaxAttempts`. An anonymous
request is counted by `ClientIp`: what X-Forwarded-For says, whoever wrote it, or else the
connection's host, or else `Unknown`, which all of those share that have neither.

`tried` and `admitted` keep the ages of the last runs of the script and of the
last admissions for a connection's party, up to a window's length. They make the
bounds over sliding spans properties of one step, with no counter that grows.

### Chunker, Documents and DocumentLibrary

An upload comes by one of eight doors: `POST /v1/rag/upload`, the three vision
routes, and the workflow steps that call the same services inside the workflow's
transaction. `CreateDocument`, `EmbedChunk`, `StoreChunks` and `MarkIndexed` are
`RAGService.upload_document`, `EmbedFails` and `MarkFailed` its failure branch;
`ValidateFile`, `Analyze` and `LogEvent` are `VisionService`; `Raise` and
`RecordStep` are what the engine makes of a step that raises or fails. The point
of the model is that one upload ends differently by each door: a route that
answers an error rolls everything back, whereas vision swallows the errors of
indexing and a workflow retries in the same transaction, so that both may commit
what an unfinished upload has left (rows of failed attempts are the copies in
`rows`). A project is one, none, or `BadProject`, a text that is no UUID: `Incomplete` and
`Unprocessable` say which door refuses which, and when. A text is its length, a piece the set of positions it holds.

`DocumentLibrary` puts one whole book, or none, on a shelf after an answer that
promises it. `Shelf` maps the committed rows to it.

### AccountStore, Tenancy, Billing and Accounts

A request is one operation of `TenantService` or one billing route, in a
transaction of its own. `draft` holds the row it has written in each table;
`RowFree` is the row lock, and the slug's unique key makes an insert wait in the
same way. `LookupSlug`, `InsertTenant` and `InsertTrial` are the statements of
`create_tenant`. `ActivateSubscription`, `FindExisting` and `Store` are
`activate_subscription` with `_upsert_subscription`, `FindLive` and the provider's
step after it are `cancel` and `generate_invoice`. `contracts` are Stripe's
subscriptions, which move by themselves (`ContractMoves`); the mock provider is
made anew by every request and therefore knows nothing that an earlier request
activated. A write of the ORM is the attributes that differ from the row it
loaded (`Changed`), merged into the row that is there when it commits (`Merged`).
`told`, what a tenant's committed changes came to (a cancellation's plan is no part of
it: Stripe's answer names the plan of metadata that checkout never sets, and the service
does not store it), `overlaps`, the changes of one tenant that were side by side, and
`closed` are history.

The quota's request check is two statements, the plan and then the count
(`CheckApiRequest`, `CountRequests`). A text to be recorded is nothing, plain, a secret
whose label, entry or shape gives it away, or a bare one, which the sanitisers keep.
Stripe may have done what it was asked to although its answer is lost
(`ProviderFails`).

No route calls `TenantService`: its requests are what its signatures admit.

### AgentTools, AgentSession, Routing and Assistant

`AgentSession` follows a request from its route (`CreateRoute`, ..., `RunRoute`)
through `GetSession`, `AddQuestion`, `Recall` (the history the model is shown, with
the budget of characters, `Kept`), the loop `Think`, `CallTool`, `ForceAnswer` of
`AgentRuntime.run`, and `StoreTurn`, one message after the other, to the commit. What
the model writes is a member of a repertoire: an action, well formed or not, an
answer, and which of them comes first. A session is
found by its id and its tenant (`Finds`): it has a project and a user, and any user of
the tenant may read it and go on with it. Every tool runs in the turn's own
database session. A tool whose statement fails spoils it (`spoilt`), although the
runtime catches the error: a turn is then refused when it is stored, and a
question outside a session is answered, and its commit stores nothing.

Messages are ordered by `created_at`, which PostgreSQL sets to the start of the
transaction: `began` orders the turns, and the messages of one turn may be
listed in any order (`Orders`), so that a listing is one such block after the
other (`Listings`, `Concatenations`). The events a tool writes are rows named after
the call that wrote them (`Event`).

`Routing` has the rules in the order in which they are tried, the threshold, the
permission, the dispatch and the sentence. `setup` is what `route()` is given:
nothing, by `main.py`, or all its providers.

## 3. Runs

All numbers are distinct states.

| run | instance | shows |
|---|---|---|
| `workflow_safety` (262 089) | two executions, permitted or not, two tenants, one definition id, six step lists of at most two steps, a reader, every fault | committed audit trails are consistent, truthful, in dependency order and agree with the answer; a reader never sees a part; requests end; the ledger is implemented |
| `workflow_audit` | one execution, statements of a step's service may fail | **violated**: the code promises that the execution is committed even on failure |
| `usage_race` (433 591) | three calls, one project or none, limit 1, apart or overlapping, with the quota on or off, every fault | one row per project, never counted too high; counter exact and a project kept to its quota while nothing overlaps; calls end |
| `usage_quota` | four calls, two at a time, limit 3, no fault | **violated**: the quota lets a call through after the limit |
| `rotation` (393 332 up to symmetry) | two processes, four keys, expiry 2, time to 6, each procedure and their mixture | no live token refused by its signer's process and no retired key accepted, but where a restart undoes a rotation |
| `rotation_replicas` | two processes, a rollout | **violated**: zero-downtime rotation; a replica that has not restarted refuses the new key |
| `orders_race` (425 592) | two requests of any of two users and two tenants or of none, one order with a window or without, spelt as a name or as a value, every fault | only the owner; the answer is true; late or double only when overtaken |
| `orders_twice` | two requests, nothing fails | **violated**: an order that is cancelled cannot be cancelled |
| `rate_gate` (93 612) | two connections: of one user, of one user id in two tenants, of a visitor that claims an address and a health probe, of one without an address and a token that is refused; limits 1 and 2, windows of 1 and 2 seconds at three ticks, every fault | counters expire; nobody is refused for another's requests or for good; at most twice the limit in a window's length; a client that waits as told is refused at most once more |
| `documents` (174 585) | an upload by any door, with each reason to refuse it, a malformed project among them, beside a plain upload of the same or another tenant, a reader, every fault | what can be found is whole; what a commit made permanent has its audit event, a failed workflow step apart, and events are true; the library is implemented; uploads end |
| `accounts` (188 778) | 30 mixes of three calls of one or two tenants, with the mock provider, Stripe and Stripe without its key, every fault, two instants | rows are of their tables, without a secret that is labelled; a slug is one tenant's; a revoked key is refused; the subscription table says what the committed changes came to, in one row but after overlapping activations; requests end |
| `assistant` (304 500) | two turns of up to two iterations in one session with a reader or a turn of another user, or another tenant; questions outside it; every routed message, with and without its permission, wired or not, at two thresholds; every fault | a turn is stored whole or not; events are those the tools reported; who reads a session, of whichever user, is shown its committed turns in order and whole, the model a tail of them; nothing succeeds without its permission; turns end |

### Bounds

* *Workflow*: two steps are what a dependency needs, and what it takes for the
  first step's rows and locals to be there when the second begins. One list is a
  chain with a retry, one is misordered, one depends on itself, three are refused.
  Two requests suffice for interference: they share definitions only.
* *UsageMeter*: a lost update takes two calls, a wait behind a wait three. With
  `Limit = 1` the quota is used up by the first call.
* *KeyRotation*: three keys are two rotations, the second of which would drop the
  first key, and the fourth is there for the other process's own; time to 6 leaves room for
  two full waits of 2. Tokens do not meet, so that one at a time is enough
  (`MaxTokens`). Processes are alike, and so are keys but the first: the run takes them up
  to symmetry.
* *OrderCancel*: the window closes at 1 and the clock goes to 1, so that it closes
  at any moment of a request. The nil identities are those of an incomplete
  context.
* *RateLimit*: windows of three and six ticks are crossed at every phase. Counts
  beyond `CountTop`, one more than the larger limit, are not told apart; ages
  end at the window's length.
* *Documents*: a piece is 12 characters, the stride 8; a text of 15 has two pieces
  that overlap, one of 1 a single short one, one of 0 none. Two attempts are what
  a retry needs. The second upload is there so that a search has something of
  another tenant, or of another document, to mix up. `TopK = 1` is less than one
  document's pieces.
* *Accounts*: a mix is a set of calls that meet in a row or a key: three creations
  of one slug (one wins, one waits behind it, one waits behind that), a key with
  its revocation and its check, two activations with a cancellation. The limits of
  the plans are scaled down to 1 and 2; the comparison is the code's. `MaxTime = 1`
  separates before and after an expiry or a revocation.
* *Assistant*: two iterations are one that calls a tool and one more. Questions of
  one or two characters with a budget of three are cut at every place. Five
  rules and two thresholds make each rule trusted or not.
* Constants that bound a model but not the code: `MaxSteps`, `MaxTime`,
  `MaxInFlight`, `MaxLost`, `MaxAttempts` of `RateLimit`, `Mixes`, `Inputs`,
  `MaxTokens`, `Repertoire`, `Sizes`, and the finite sets of requests and calls. The theorems
  hold for all of their values. Where requests
  are finitely many the system really stops and the configuration says so.

### Fairness

One weak-fairness condition per request, call or connection, on what the server
does for it. The event loop resumes each coroutine that can run; provider and
Redis clients have timeouts; sleeps and attempts are finite; PostgreSQL grants a
lock that was released. No failure is ever due, so no liveness property holds
because something breaks. `RateLimit` adds that time passes and that clients come
again. In `Accounts` the condition is on a request that is in flight, and covers
waiting for a row: a lock's holder is itself due to end. In `Assistant` it covers
the model's client, which has a timeout. `OrderCancel` claims no liveness: the MFA provider is awaited without a
timeout, and nothing in the code would justify it.

### Where documents and code disagree

Four that a run shows:

1. A database error in a step's service is caught like any failure of a step,
   but the session is spoilt: the execution is not recorded
   (`workflow/engine.py:16,77,197`).
2. The counter behind the quota is read, added to in the process and written
   back: calls that overlap count once (`saas/repository.py:324`,
   `ai_gateway/quota.py:39`).
3. During a rollout replicas disagree on the keys (`README.md:428`,
   `secrets/rotation.py:112`).
4. Two overlapping cancellations of one order both succeed
   (`pathways/write/service.py:112`, `tests/test_write_lifecycle.py:139`).

Each is the counterexample of a run, and for 2 and 4 the run beside it says
what does hold: `ProjectQuotaKept`, `CounterExact`, `CancelledOnceAlone`. The fourth
concerns a table whose status column holds names, see `OrderCancel` above.

Those of the following kind are in the models, or plain in the code, and a property
that touches one says what the code does keep:

* The monthly limit is the tenant's (`ai_gateway/quota.py:1-6,25,37`), the row that is
  compared with it is that of the request's project (`quota.py:79`): a tenant gets the
  limit once for each project. `QuotaEnforced` and `ProjectQuotaKept` are about a
  project. The limit may be 0 or less (`core/config.py:71`), and then the first call of a
  project, which has no row yet, passes all the same.
* "Only current key is accepted for verification from this point on"
  (`secrets/rotation.py:14`), until the process ends: the next one reads the settings
  (`rotation.py:112,118`), where the retired key may still be. `RetiredKeyRefused` excepts
  the keys that such a restart brings back, and nothing else.
* "Every operation is recorded in the vision_events audit table" (`vision/service.py:9`).
  A vision step that a committed workflow records as failed has no event, and a route
  that fails is rolled back with its event: `EventTruth`.
* An agent's session is "scoped to a tenant + project + user" (`db/models/agent_session.py:20`),
  and `agent/orchestrator.py:67-73` finds it by its id and tenant: any user of the tenant
  reads and continues it. `ShownWhole` says so.
* "Patterns that must never appear in persisted audit/security events"
  (`saas/service.py:52`): `sanitize_extra` (`:96-101`) looks at the names of entries and
  not at their values, `sanitize_detail` at two patterns, neither of which a bare API key
  matches. `TypeOK` promises as much as they keep out.
* A billing event has a tenant; that of a webhook that names none is the UUID 0
  (`billing/service.py:168`).
* A cancellation at Stripe answers the plan of the contract's metadata
  (`stripe_provider.py:126`), which checkout puts on the session alone, hence FREE;
  `billing/service.py:122-123` does not store it, and the row keeps its plan.
* `README.md:432` has rate-limit windows per tenant; they are per user of a tenant
  (`rate_limit/limiter.py:81`), and per address for those without a token, which is what
  X-Forwarded-For claims (`rate_limit/middleware.py:58-65`).
* `list_documents` returns "all indexed documents" (`rag/service.py:358`) and lists every
  status.
* `db/models/order.py:43` spells a status by its name, the migration
  (`aef8c3b72d1a:108-118`) by its value, with a CHECK: on a migrated database an order
  cannot be loaded, and every cancellation of an existing one ends in a system error.

Smaller ones:

* The window of an order may close during its challenge
  (`tests/test_write_lifecycle.py:189` tests it before).
* Retry-After may end up to half a second before the window, though
  `rate_limit/limiter.py:45` says "seconds until the window resets". A request
  refused with 401 is not counted, and on public paths a user with a valid token is
  counted by address.
* OCR writes its audit event from the request's flag, not from what indexing came to
  (`vision/service.py:183`): `EventTruth` excepts it.
* With the mock provider cancelling a subscription and generating an invoice are
  always refused, since `billing/routes.py:49` makes a new provider for every
  request; `docs/DEMO.md:156`, `docs/release/PORTFOLIO_SUMMARY.md:78` and
  `docs/release/PRODUCTION_READINESS_REVIEW.md:279` go through a cancellation.
* Webhooks change no subscription, and one that is delivered again is recorded again.
* The trial that `create_tenant` writes is in `subscriptions`, the quota reads
  `billing_subscriptions`: a trial counts as the free plan. No route calls the
  quota's checks.
* `revoke_api_key` dates a key that is revoked again anew. `get_member` raises once a
  user has been invited twice.
* `agent/memory.py` says messages come "chronologically"; those of one turn share
  their time. The data of a tool's result are stored with its message as "null".
* A question outside a session is answered with 200 although a tool has spoilt its
  transaction: the events of the tools before it are then lost (`EventsAsReported`
  says exactly when).
* Over `/v1/route` every write, analytics and document request that is permitted is
  answered with "system error": `main.py` gives `route()` neither a session nor
  providers.
* `vision_analyze` lists `filename` as required and takes a missing one for
  `image.png`.

## 4. Proofs

Every theorem holds for all values of the constants that satisfy the named
assumptions beside their declaration, which TLC evaluates on the instances.
Each proofs module shows `Init => IInv`, `IInv /\ [Next]_vars => IInv'` (one step
per action) and what `IInv` implies.

* **Workflow.** The properties of the committed rows follow from what each `pc`
  says about the rows and locals in the session: `IInv` adds `ControlInv` (where
  the request is and how far the execution has come), `TrailInv` (steps before
  `index` have completed, those after it have no row), `AttemptInv` (how
  `last_error` and `output` relate to the last attempt; this is what makes
  `StepTruthful` inductive, as `last_error` outlives a good retry) and
  `CommitInv`. The lemma `OtherRequest` disposes of the requests that a step does
  not touch. `ImplementsLedger` is the refinement: only `Commit` maps to a step
  of the ledger.
* **UsageMeter.** `OneRecordPerProject` rests on the unique key: `KeyInv` says
  that a transaction that has inserted a key is alone with it and no row has it,
  `LockInv` that what it updates is its own row or a committed one of its project.
  The counting properties need more (`Counts`): `CountInv` bounds what a call has read
  and written by what was metered on the row, which only grows, and gives
  `NeverOvercounts`; `AloneInv` says that a call that overlaps with no other has read
  exactly what was metered, in the only row of its project, and gives `CounterExact`.
  `ProjectQuotaKept` follows for every limit; its exception, a project for which nothing
  is metered, is what the code does when there is no row yet, and matters for a limit of 0.
* **KeyRotation.** `TokenInv` says that an unexpired token was signed with the
  current key, or with the previous one before the pair last changed, unless a restart
  has dropped its key. `PendingInv` says what a process that has not seen the last edit
  of the secrets has, so that its restart loses no key and brings none back, as long as
  it has no rotation to undo. No procedure is assumed.
* **OrderCancel.** `PlaceInv` ties the place a request has reached to what it has
  checked; `WaitInv` says that a request that was not overtaken would validate the
  order again. `CancelledInTimeAlone`, an action property, follows.
* **Documents.** `PiecesCoverText`: for every size, overlap and length the pieces
  hold every character and no other. `IInv` is `Placed` (what the place of an upload
  says about its input and answer), `RowsRight` (what its transaction holds while it
  can be committed: nothing half-written once an attempt is over) and `EventRight`.
  `LibraryRefined` is the refinement: answers map to `Tell`, a commit to `Shelve`,
  a search to `Look`, the rest stutters.
* **Accounts.** `Shapes` types the variables; `Placed` says which drafts, snapshots
  and provider's words a place comes with; `Drafted` that each draft is an insert
  of a whole row or an update of a committed one, and that a tenant is drafted
  together with its trial by the time it can be committed; `Answered` what a reply
  says of the committed rows; `Committed` that the rows are of their tables and that
  trials and tenants come in pairs; `SlugsApart` that no two rows or drafts bear one
  slug. Merging a draft keeps `Committed`, because what an update names is there.
  `RevokedKeysStayRefused` follows from a revocation never being taken back.
  `BooksAgree` needs the invariant `Books`. Of a tenant none of whose changes overlapped
  (`Calm`) at most one request is changing the subscription; the row says what the
  committed changes came to (`Settled`), the row that request has loaded is the tenant's only
  one and as it was (`Snapped`), and what it has stored will agree with what its change
  comes to (`Stored`), whether it is committed or lost. For the others `Pairs` follows who
  is about to insert a row (`Fresh`): beside every row that is there, and every other
  such request, it has overlapped, and so have any two rows of a tenant. `AbsentAssumption` says that the marker for "no row" is none of the rows,
  drafts and provider's words.
* **Assistant.** `Stored` says that a draft is the opening of the request's turn,
  which its own length determines (`Opening`, `Writing`), so that what is committed
  is the turn; `Recorded` that every recorded call was allowed (`Allowed`); `Sent`
  that the answer to a routed message is one of those its rule, the threshold, the
  permissions and the wiring leave (`Told`). `EventInv` says that until a request is
  over nothing of it is committed and its draft holds one event for each recorded
  success of a writing tool, and that the transaction of a turn that commits is sound:
  `EventsAsReported`. `SessionInv` is behind `ShownWhole`: no turn begins twice (`Turns`),
  whoever takes a turn has begun (`Begun`), and whoever takes a turn or reads has found
  the session, hence all turns of a session are of one tenant, if not of one user (`Found`, with the
  `AbsentAssumption` of `AgentSession`, that a row is not the marker for "no row"); rows
  that are committed never change. From it follows what any end of a listing is: each message is
  the tenant's own and committed, the turns come in the order in which they began
  (`EndIsOwn`), a committed turn is whole unless the end begins within it or after it
  (`EndIsWhole`), and a question that is asked is last among what began before it
  (`EndAsks`). What the budget keeps is an end of the listing, whatever the sizes are
  (`KeptIsEnd`), and not an empty one, because a single question fits (`QuestionFits`,
  from `BudgetAssumption`: 4096 characters and a budget of 8000).
  That a listing consists of whole turns in the order of `began`
  (`ConcatenationsOrdered`) is an induction on the number of turns. It goes over the
  set of the lengths for which the claim holds (`SetInduction`), from the
  well-foundedness of `<`, and first shows that the function which `Concatenations`
  defines recursively exists (`ListsExist`).
* **RateLimit.** `RecentTries`: the youngest `count` runs of a party lie within
  the window of its key. A refusal comes with a count of at least the limit, so
  that many runs are younger than a window: `RefusedForOwn`. `OldAdmissions`:
  an admission beyond the first `count` precedes the window of the key, and one
  beyond the first `Limit + count` is at least a window old. An admission comes with `count < Limit`,
  so that the one `2 * Limit` back is a window old: `BurstBounded`. The two
  invariants are per connection, and `PartyIsKey`, that keys separate exactly the
  parties, brings them together. `RetryWorks` rests on `RetryInv`: the first refusal
  leaves less than half a second of the window after the wait it tells, because the
  time to live is rounded to whole seconds (`Rounding`), and the second none, because
  such a rest is reported as one second.

Every invariant and every action property that a configuration checks is proved. Only
model-checked: liveness (`RequestsTerminate`, `CallsEnd`, `NotRefusedForever`,
`UploadsEnd`, `RequestsEnd`, `TurnsEnd`), which is beyond the prover.

Only proved, and in no configuration: the type invariants of `Workflow`, `UsageMeter`
and `KeyRotation`, and the inductive invariants except those of `OrderCancel` and
`Documents`; what they imply is checked as well.

## 5. Not modelled, and what could follow

Left out for good: HTTP and model providers beyond their outcomes, the choice of a
provider and the cost estimate of the AI gateway, log lines, metrics, headers,
migrations, the front end, scripts. They hold no state that the rest depends on.
The token's signature and claims are one verdict; prompts and the texts of messages
are model values; a vector search returns any nearest pieces, although the index
PostgreSQL uses for it is approximate.

The SQL airlock is not modelled. It is a decision on syntax trees that an external
parser makes, followed by one SELECT, and no route reaches it with a query: `route()`
is called without a session, and the intent parser's entities are always empty.
`Routing` has the answer that remains, and the agent's own SQL tool is in
`AgentTools`.

Hazards of the code that no property here states, and why:

* The response is out before the commit (`db/session.py:33`). Every model has it, and
  the properties say what is so in spite of it; that a client may hold a 200 for
  something that was rolled back is the design, not a property to check.
* A month's end between the quota check and the count (`ai_gateway/service.py:55`):
  the period is computed once per call, and one period is modelled.
* The MFA provider is awaited without a timeout inside the transaction
  (`pathways/write/service.py:86`): no liveness is claimed.
* `session.begin()` needs a session that has not begun (`pathways/write/service.py:66`):
  its only caller has none to give.
* Two first requests may each connect a Redis client, and one of them is never closed
  (`rate_limit/limiter.py:54`): a leak, without effect on what is counted.
* A webhook that is delivered twice is recorded twice (`billing/service.py:170`):
  modelled, and no promise of the code contradicts it.

Could follow: several projects of one tenant in `UsageMeter`, once the code says whose the
limit is; the airlock as a pure module over abstract trees, once a route reaches it.
