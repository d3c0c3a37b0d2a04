# Verification of AgentOps Monitor

This directory holds TLA+ models of AgentOps Monitor, the TLC configurations
that check them on small instances, and proofs that TLAPS checks for every value
of the constants. The models are translated from the code; the documents of the
repository are used only as the source of some statements the code is held
against.

    tlc -workers 2 -config MCApprovals.cfg MCApprovals.tla
    tlapm ApprovalsProofs.tla

`PROJECT.json` lists the components, the runs, the map from every definition to
the source lines it models, a mutant per property, the hazards and the theorems.

## 1. The system

A FastAPI backend on PostgreSQL and Redis (`src/backend/app`), a Python SDK that
instruments agents (`src/sdk-python/agentops_monitor`), and a Next.js interface
(`src/frontend`). The SDK opens traces and spans in the agent's process, posts
telemetry to `/ingest`, and asks `/ingest/policy/check-tool` before a governed tool runs.
Users review approvals, edit policies, manage members and read what was recorded
through `/api/v1`.

What decides most of the hard behaviour is how a request uses the database:

* one session and one transaction for each request (`db/session.py`): the handler
  commits, and `get_db` rolls back on an exception, so nothing of a request that
  fails or dies is visible. Redis is outside that transaction;
* READ COMMITTED, no `SELECT ... FOR UPDATE`: each statement sees what was
  committed when it started, and a decision taken on one statement may be stale at
  the next. A row already in the session keeps the columns it was loaded with;
* a few unique constraints and a few conditional UPDATEs carry the protocols:
  `tool_approvals (organization_id, external_request_id)`,
  `tool_calls.approval_id`, `organization_members (organization_id, user_id)`,
  `alert_incidents.dedupe_key`, `evaluation_results (run_id, case_id)`. There is
  none on the external ids of traces and spans, on findings or on price windows;
* the SDK's calls are retried by `Transport.post`, so that one call may be served by
  several handlers at once, in any order, and served after its caller gave up.

### Components

| component | state | operations | how it interacts, what is hard | what makes it correct |
|---|---|---|---|---|
| policy engine, `services/policy.py` | none | tool, domain and usage decisions, preflight | used by the check, by the revalidation and by findings | a block wins, then approval, then allow |
| tool approvals, `services/approvals.py`, half of `create_tool_call` | `tool_approvals`, `tool_calls`, audit events, findings | check, read, consume, approve/reject, policy edits | several handlers of one request; a policy edited between read and use; a handler that dies | one decision, one execution, no grant without approval, complete audit |
| SDK tool execution, `_span.py`, `_transport.py` | locals of `run_tool`, HTTP attempts | check, wait, recheck, execute, report | timeouts with late effects, retries, a deadline that races a decision | never executes past a wait without approval; always ends |
| trace ingestion, `services/ingest.py`, `ingest_security.py` | traces, spans, model calls, cost records, events, findings | start, finish, span, update, model call, event, batch | check-then-insert without constraint; read-modify-write of the risk; order of arrival | span forest, totals of one moment, findings once, risk covers findings |
| SDK client and queue, `client.py`, `_trace.py`, `_span.py`, `_transport.py` | span stack, bounded queue, flush threads, HTTP attempts | trace and span blocks, enqueue, flush, close | threads share the queue; overflow; an attempt that timed out is served all the same | an item is in one place; the span tree is that of the blocks; threads end |
| members and roles, `core/deps.py`, `organizations.py` | `organization_members`, `audit_logs` | invite, change role, remove | a role read at the start of a request; owners counted before the write | an owner remains, only owners elevate, the audit log tells the roles |
| accounts and sign-in, `services/auth.py` | users (PostgreSQL), refresh keys (Redis) | login with lockout, refresh, logout | two stores, one transaction; read-modify-write of the failure count | lockout after the limit; a logged-out session is gone |
| runtime alerts, `services/alerts.py` | rules, incidents, transitions | evaluate an event, acknowledge, resolve | dedupe key with savepoint; conditional UPDATE | one incident for each rule and event; transitions only forward |
| model pricing, `services/pricing.py`, `api/v1/metrics.py` | price windows | create, change, resolve | check-then-write of windows, without a constraint | windows of one model never overlap |
| evaluations, `services/evaluation.py`, `evaluator.py` | datasets, cases, runs, results | create, execute, compare, review | one long transaction that reads cases and prices while others change them | a summary is that of its results; a comparison mixes no cases |
| privacy and retention, `services/privacy.py` | retention policy, requests, traces, audit log | retention, export, requests of subjects (anonymisation always fails) | deletes and changes what ingestion writes | what retention says is gone is gone, and nothing goes before its time |
| API keys, `core/ingest_auth.py`, `services/api_key.py` | keys | create, revoke, delete, authenticate | a key revoked, deleted or left without its project during a request | a dead key stays dead; a key of a project writes to no other |
| projects, agents, environments, `api/v1/projects.py` and others | their rows | create, change, version, state, delete | deletions race with what refers to the row; lost updates of a version | no reference dangles; the log tells the history of an agent |
| scanner, metrics, listings, interface, migrations | none or read-only | | no protocol | |

## 2. The modules

| module | what it is |
|---|---|
| `Policy` | the decisions of `services/policy.py` as operators; no state |
| `OneTimeGrant` | abstract specification of the approval workflow |
| `Approvals` | the approval workflow, a step for each statement of a handler |
| `ToolRun` | `run_tool` and the HTTP attempts of the SDK, composed with `Approvals` |
| `Handlers` | requests in progress: what each has read, its answer, and whether any two overlapped |
| `TraceIngest` | ingestion and the findings it persists, on `Handlers` and `Policy` |
| `Members` | guards, invitations, role changes and removals, on `Handlers` |
| `Accounts` | login, refresh, logout, on `Members` |
| `Access` | `Members` and `Accounts` composed: one specification |
| `Alerts` | alert rules, evaluation of events and incidents, on `Handlers` |
| `Telemetry` | trace and span blocks, the queue and its threads, the retries of `post`, and the batch endpoint |
| `AuditLog` | the audit log, its clock, and how a session writes a row; on `Handlers` |
| `Pricing` | price windows, on `AuditLog` |
| `Projects` | projects, agents and environments, on `AuditLog` |
| `Evaluators`, `Evaluations` | the assertions of an evaluation as operators; datasets, runs, comparison and review, on `Pricing` and `Projects` |
| `Privacy` | retention, requests of data subjects, export, the refused anonymisation, on `AuditLog` |
| `ApiKeys` | keys and the trace start they admit, on `Privacy` and `Projects` |
| `Deletions` | what goes or stays with a project, an agent or an environment, on `Evaluations` and `ApiKeys` |
| `Governance` | the seven modules above composed: one specification |
| `ApprovalsProofs`, `ToolRunProofs`, `TraceIngestProofs`, `AccessProofs`, `AlertsProofs`, `TelemetryProofs`, `GovernanceProofs`, `EvaluationsProofs` | proofs, see section 5 |
| `MC*` | small instances |

Some operators are marked in their comment, or by their name and place, as bug
variants (`SameCallAnySpan` beside `SameCall`, `OwnerCheckOffByOne` beside
`OwnerCheck`, and so on). No specification uses them. They state how a plausible
slip in that code would look, and each is paired in `PROJECT.json` with the
property it breaks.

### Handlers and steps

A handler's program counter names the next statement whose result it relies on.
What other requests can change between two statements is between two steps of the
model; what they cannot is one step. What a handler writes becomes visible in its
last step, its commit. An `Abort` drops a handler before any of its steps, which
is the rollback of `get_db` on an exception or on a process that dies. A handler
that dies after its commit and before its answer is, for everyone else, an answer
that was lost: `ToolRun` models that with `TimeOut`.

### Approvals

| variable | code |
|---|---|
| `policy` | the active row of `agent_policies` for the agent |
| `usage` | the sums `evaluate_trace_limits` computes |
| `approval` | `tool_approvals` by external request id |
| `toolCalls`, `findings` | the tables |
| `audit` | audit entries of each approval |
| `pc`, `req`, `resp` | the request served |
| `base`, `seen` | the outcome of the preflight and the policy object a session holds |

`Receive`, `CheckPreflight`, `CheckLookup` and `CheckInsert` are
`POST /ingest/policy/check-tool`; `RecordReadCall`, `RecordReadApproval`,
`RecordRevalidate` and `RecordCommit` are `POST /ingest/spans/{id}/tool-calls`; `Review` is
the approve and reject endpoints, `SetPolicy` the policy endpoint and
`IngestModelCall` what telemetry does to usage. `CheckInsert` answers 500 where the
unique constraint is violated, as the code does, and `RecordCommit` answers 409
where the conditional UPDATE finds no row.

`OneTimeGrant` knows for each request only where it stands, which callers were
told that they may run, and its executions. `Approvals` implements it under the
mapping `state <- GrantState(row)`, `granted <- Granted`, `executions <- CallsOf`.

### ToolRun

`stage` follows the body of `run_tool`: check, the poll loop of
`_wait_for_approval`, the recheck, the callable, and the telemetry sent when the
span ends. An attempt of `Transport.post` occupies a handler of `Approvals`. It may
fail before it arrives (`SendFails`), be answered, or time out (`TimeOut`) while its
handler goes on and commits later. `Deadline` may pass at any moment of a wait.

### TraceIngest

Each handler has three steps: it loads its rows, compares its findings with those
on record (`Scan`, which also adds up the usage), and writes and commits. Rows
inserted by a handler are read by nobody before. External ids are constants, and
rows are numbered in insertion order. When two rows answer one lookup,
`scalar_one_or_none` raises, and the answer is 500 (`Ambiguous`). The matches of
the scanner in a body are an input. A row that the session has modified is locked
from its flush, which only matters for the column `risk_level` (`RowLocked`).

### Access

A request names its user, since access tokens are stateless, and passes
`current_user` and `require_role` in `Guard`. A login that fails counts on the
value it loaded. A refresh or a logout can only name a session whose cookie was
given out (`Given`). Keys of Redis change when the code calls Redis, even if the
transaction later aborts.

### Alerts

An ingest request reads the rules that match the event it raises (`MatchRules`). For
each of them, in no particular order, it looks for an incident that was committed
(`ProbeIncident`) and inserts one (`FlushIncident`). The unique index on `dedupe_key`
makes that INSERT wait while another request holds the same key uncommitted. If the
other commits, the `IntegrityError` is swallowed with its savepoint; if it is
rolled back, the INSERT goes through. Two requests may wait for each other, and
PostgreSQL then fails one INSERT (`Victim`). Conditions are the set of values they
accept. An update loads the rule, validates, and writes only the columns that differ
from the loaded row, as SQLAlchemy does (`Written`).

### Telemetry

Each thread of the application runs the calls of its script (`next`), and posts what
a call has to post (`todo`) before it makes the next one; a flush thread takes the
queue and posts its chunks. `stack` is `Trace._span_stack`, `queue` the bounded deque
of `Transport`. A request that is being served is in `net`. When its sender stops waiting,
it is moved to a place in `Late`, and served there or never (`TimeOut`). The
backend serves one item after the other, each in its savepoint (`ServeItem`), and what
they wrote becomes visible with `Commit`. `Accepts` says when a handler stores an item: the
lookup of a span's parent raises where the parent was stored twice, as that of a trace
does. `gone` keeps where the items of the queue went, for the properties.

### Governance

The requests of an organisation on prices, evaluations, keys, privacy and projects share
the log and the clock (`AuditLog`), projects (`Projects!catalog`), traces
(`Privacy!traces`) and prices (`Pricing!pricing`). A behaviour draws its requests from
one of several `Workloads`, so that TLC meets the requests that have to do with each
other. Rows are numbered in insertion order, and one that is deleted turns `Null`; ids
are never used again, as UUIDs are not. A session writes the columns that it changed and
no others (`Changed`). `Holds` says which requests hold the row of a key: `_touch_key`
updates it, and who revokes or deletes the key, or deletes its project, waits. The
provider of an evaluation run is an external service that answers with any member of
`Answers`.

`Deletions` has what the relationships of the ORM delete beside what the foreign keys
do. The two differ for API keys, and so do the outcomes: the keys the session loaded stay
without their project, the others go with it. For datasets `models/evaluation.py:25` says
SET NULL, but no migration brings that to the schema (see Findings), and the model follows
the schema: datasets go with their project. What belongs to a dataset that is gone stays in
the tables of the model and is reached by nothing (`HasDataset`, `HasRun`).

## 3. Runs

| run | configuration | bounds | shows |
|---|---|---|---|
| `approvals` | `MCApprovals.cfg` | 3 handlers, 1 request id, 2 spans of 1 trace, 1 reviewer, 3 policies, 1 model call | one-time execution, provenance, complete audit, true answers, final decisions, and the refinement of `OneTimeGrant` |
| `tool_run` | `MCToolRun.cfg` | 1 invocation, 2 attempts a request, 4 requests in all | no execution past a wait without an approval; in fail-closed mode none without an ALLOW; records are of executions |
| `tool_run_ends` | `MCToolRunEnds.cfg` | the same, 3 requests | every invocation ends |
| `tool_run_pending` | `MCToolRunPending.cfg` | the same, begun by a check that is to ask for approval | **violated**: see Findings |
| `tool_run_audit` | `MCToolRunAudit.cfg` | no faults | **violated** |
| `trace_ingest` | `MCTraceIngest.cfg` | 4 handlers, 2 traces that share external span ids, 12 bodies | forest and totals in every interleaving; idempotency, risk, limits and finality when requests do not overlap |
| `trace_risk` | `MCTraceIngestRisk.cfg` | 2 handlers | **violated** |
| `access` | `MCAccess.cfg` | 3 handlers, 4 users, lockout after 2 failures | unique memberships and ended sessions in every interleaving; an owner, the audit log, elevation and lockout when requests do not overlap |
| `access_owner` | `MCAccessOwner.cfg` | 2 handlers, the requests of two owners on each other | **violated** |
| `alerts` | `MCAlerts.cfg` | 3 requests, 2 stored rules, a finish with its retry, a finding | one incident for each rule and source, no match lost, incidents move on, the log tells their state, every request answered; rules stay valid when updates do not overlap |
| `telemetry` | `MCTelemetry.cfg` | 4 programs of 2 threads (one with nested spans, one that ends in an exception), 2 flush threads, a queue of 3, chunks of 2, 2 attempts, 1 late request | an item is in one place, an answer tells what is stored, copies come from retries alone, the span tree is that of the blocks, up to parents that came late, everything comes to rest |
| `governance` | `MCGovernance.cfg` | 3 requests of one of 8 workloads, a clock of 3 | references, summaries, comparisons, retention and dead keys in every interleaving; prices and the history of agents when requests do not overlap |

*Why the bounds are enough to be of interest.* The conflicts of this code are
between two statements of one handler and one other transaction; three handlers
give each of the two sides of a race a third request (a retry, a review of what was
done) that observes the outcome. Requests of different ids touch different rows, so
one request id suffices where the theorems below cover any number. In `ToolRun`
two attempts for each HTTP request are the least with a retry, and four served
requests allow a check, its retry, the recheck and the telemetry. In `TraceIngest`
four requests can build a chain of spans, add a model call and finish, in any order.
In `alerts` two requests suffice for a circle of waiting INSERTs, and
three for an event and the two users who handle its incident. With three handlers
in `access`, two wrong passwords reach the limit and a third login meets the lock. In
`telemetry` a queue of three overflows and makes two chunks, and one late request is
enough for a copy. In `governance` three requests are a pair that races and one
that observes, and a clock of three passes the ends of windows and of retention.

*Properties under "Quiet".* Some properties hold only when no two requests were
ever in progress at once (`overlap = FALSE`), and say so. They are not empty:
requests still come in any order, repeat, fail and die. That they fail under
overlap is the subject of `trace_risk` and `access_owner`, and is otherwise noted
in the hazards.

*Deadlock.* Each handler of `MCTraceIngest`, `MCAccess`, `MCAlerts` and `MCGovernance` serves
one request, and the programs of `MCTelemetry` end, so these instances stop when all is
done, and the check for deadlock is off there.
It is on in `approvals` and `tool_run`, where policies can always be edited.

*Symmetry.* Handlers are interchangeable in the runs that declare it. None of these
has a liveness property.

*Fairness.* `tool_run_ends` assumes weak fairness of the agent's own thread
(`Step`, which includes the HTTP timeout of an attempt) and of its clock
(`Deadline`). `httpx` bounds every attempt, and `time.monotonic` advances. Nothing is
assumed of the backend, the network or reviewers. `alerts` assumes weak fairness of
each request's own steps: the event loop runs every coroutine, and PostgreSQL looks
for circles of waiting statements after `deadlock_timeout`. The steps after a wait
stay enabled, so weak fairness is enough. `telemetry` assumes weak fairness of the threads
of the application, of flush threads and of whoever posts, whose attempts have a
timeout; the backend owes nothing.

## 4. Findings

* `tool_run_pending`: a repeated check whose approval is pending is answered
  `ALLOW` when the policy has been loosened (`services/approvals.py:133`), so a tool
  executes while a reviewer may still reject its request. A plan in `docs` says that
  a pending approval never executes a tool. In the trace the first attempt of the check is
  given up on, its handler creates the request, the policy is loosened, and the retry
  finds the request pending.
* `tool_run_audit`: `create_tool_call` evaluates the policy again *after* the tool
  has run and answers 403 before it stores anything. If the policy or the usage turned
  in between, an approved execution leaves neither an audit event nor a ToolCall.
* `trace_risk`: the risk of a trace is a read-modify-write without a lock; of two
  overlapping requests the later commit can lower it. `docs/SECURITY.md` says findings
  can only raise it.
* `access_owner`: owners are counted in one statement and removed in another; two
  owners who demote or remove each other at once leave none.

Seen while modelling, and in the models as the code has them; no run is about them.

* A trace start or a span that is retried while its first delivery has not committed is
  stored twice, and every later lookup of its external id answers 500
  (`services/ingest.py:201` and `:339`).
* Wrong passwords that are tried at once count as one (`repositories/user.py:28`).
* Two valid PATCHes of an alert rule at once can leave a rule that matches nothing
  (`services/alerts.py:391`), and two prices set at once can leave windows that overlap
  (`api/v1/metrics.py:194`).
* Two overlapping bumps of an agent write and tell the same version
  (`api/v1/agents.py:163`).
* `delete_project` leaves the keys its session loaded to the organisation, where they
  may write to any project, and deletes the others (`models/project.py:41`).
* `anonymize_subject` never anonymises: its UPDATE of `traces` sets `input_data` and
  `output_data` (`services/privacy.py:278-289`), columns that table does not have
  (`models/trace.py:37-85`, migration 0002), so that the statement raises and the endpoint
  answers 500. `Anonymize` does just that.
* `run_retention` deletes entries of the audit log, those of approvals and of data subjects
  included, though its docstring says "Audit logs are never deleted here"
  (`services/privacy.py:308`).
* Retention reads its policy and its clock before it deletes: a policy that is replaced in
  between still applies, and a trace that is committed after the DELETE stays although it
  is as old (`services/privacy.py:315`).
* A project that is deleted takes its datasets, their cases and runs along: the
  migrated foreign key has CASCADE (`alembic/versions` 0002:300; 0007:36 only makes the column
  nullable), where `models/evaluation.py:25` says SET NULL.
* A span is stored without its parent when the parent came late, and not at all when the
  parent was stored twice (`services/ingest.py:347`).
* The endpoint for requests of data subjects takes four types, of which the column knows
  one; the others answer 500.

## 5. Proofs

All theorems are about any sets of requests, handlers, users, rules, ids and values: no
bound of a run enters them. Each run checks the same properties on its instance. In
the list below a theorem is followed by the property it states.

| module | theorems |
|---|---|
| `ApprovalsProofs` | `TypeCorrectness` (`TypeOK`), `OneExecution` (`ConsumedOnce`), `ExecutionWasApproved` (`CallProvenance`), `AuditIsComplete` (`AuditTellsState`), `AnswersAreTrue` (`GrantsAreApproved`), `AcceptedStays` (`AcceptedIsRecorded`), `DecisionsStand` (`DecisionsFinal`), `Refinement` (`ImplementsOneTimeGrant`) |
| `ToolRunProofs` | `RunImplementsApprovals` (`RunSpec => Spec`), `WaitingIsForApproval` (`WaitIsForApproval`), `ClosedModeIsClosed` (`ClosedModeAsks`), `RecordsAreTrue` (`RecordsAreExecutions`) |
| `TraceIngestProofs` | `SpansFormForest` (`SpanForest`), `TotalsAreSnapshots` (`TotalsAreASnapshot`), `RetriesAreStoredOnce` (`RetriesStoreOnce`), `RisksAreCovered` (`RiskCoversFindings`), `LimitsAreRecorded` (`LimitsAreNoticed`), `FinishesAreFinal` (`FinishIsFinal`) |
| `AccessProofs` | `AccessTypes` (`AccessTypeOK`), `LogoutIsFinal` (`LogoutEndsSession`), `MembersStaySound` (`MembersAreSound`), `OnlyOwnersElevate` (`OwnersElevate`), `AuditTellsRoles` (`AuditTellsRole`), `LockoutsFollow` (`LockoutFollowsFailures`) |
| `AlertsProofs` | `AlertsTypes` (`AlertsTypeOK`), `MatchesRaised` (`MatchesAreRaised`), `LogTellsIncidents` (`LogTellsIncident`), `IncidentsOnlyMoveOn` (`IncidentsMoveOn`), `RulesKeepValid` (`RulesStayValid`) |
| `TelemetryProofs` | `SpansKeepTheirParents` (`ParentsEnclose`), `NothingIsForgotten` (`ItemsHaveOnePlace`), `CopiesComeFromRetries` (`CopiesAreRetries`), `AnswersAreTrue` (`AnswersTellRows`) |
| `GovernanceProofs` | `GovernanceIsTyped` (`GovernanceTypeOK`), `OnePriceAtATime` (`WindowsStayApart`), `DeadKeysStayDead` (`RevokedKeysAreDead`), `ReferencesStayInScope` (`TracesStayInScope`), `HistoriesAreChains` (`AgentsTellTheirHistory`), `RetentionIsKept` (`RecordsGoInTime`) |
| `EvaluationsProofs` | `RunsAreTold` (`RunsTellResults`), `ComparisonsAreRight` (`ComparisonsAgree`) |

### The inductive invariants

None of these properties is inductive: whether a commit is right depends on what its
handler read some statements before, while others ran. Each proof first says what a
handler at each statement still knows, and that no step of another handler makes it
untrue. The proof that a step preserves an invariant has a lemma for each action, and in
it a step for each part that the action can disturb.

* **Approvals** (`IInv`): `HandlersInStep` says above all that an approval whose
  provenance was checked is the same approval later, for its trace, span, tool and target
  never change; `RowsSound`, that a used row is an approved one with a reviewer. The
  conditional UPDATE then gives `ConsumedOnce`: a handler that commits sees the row
  unused, hence no call with this id on record. The refinement maps `CheckInsert` to
  `Ask`, `Review` to `Decide`, the answer of `CheckLookup` to `Grant`, `RecordCommit` to
  `Use`, and everything else to a stutter.
* **ToolRun** (`RunIInv`): every step of the SDK with the workflow is a step of
  `Approvals` or leaves it alone, so `IInv` holds, and an approval once granted stays.
  `SentBy` says that the requests are those of an invocation, `FlightFits` that the
  attempt in flight carries what its stage sends, `StageFits` what the locals say.
* **TraceIngest**: `Basics` says that the rows in a session exist and still belong
  together, which is enough for `SpanForest`, since spans never change trace.
  `TotalsFit` carries the snapshot from the scan of a finish to its commit. The other
  theorems are about requests that do not overlap: `Fresh` says that the one in progress
  has read what is still there, and `QuietFits` joins it to the properties. Usage is a sum
  over a table that grows, and a recursive function. That it is defined, and that a call
  adds to it, is proved along the behaviour, one row at a time (`SumsFit`, `SumOneMore`).
* **Access**: for unique memberships it is enough that the INSERT of `Invite` looks again.
  `LogoutEndsSession` needs that the key of a session is known only of a request that is
  done (`LogoutFits`), hence that no request in progress opens a session that was logged out.
  The rest is for requests that do not overlap, and rests on `SessionsAreFresh`: the role,
  the failures and the owners a request has read are those there are.
* **Alerts** (`KeysFit`): a request holds an incident of a key once, no two requests hold
  one of the same key, none holds one that is committed, and what a request owes it still
  has to do, holds, or has found committed. This is what the unique index and the
  savepoint give, and `OneIncidentEach` and `MatchesAreRaised` follow from it. `LogFits`
  ties the status of an incident to who handled it, `RulesFit` a loaded rule to its row.
* **Telemetry**: what a thread posts, what is on its way and what is stored all carry the
  call that made them, so that each part of the invariant follows items along that path.
  - `StacksFit` says that the stack of a trace holds the blocks that its thread has entered
    and not left (`Tracks`), and `ItemsMade` that an item says what its call says: a span
    carries the innermost block around it. So a parent that is stored is the right one, whatever
    is lost. As to spans stored without one: a thread posts a span while the blocks
    around it are open, and waits for each post, so that the request of the parent is done or
    given up on (`AimsFit`); the rows of the parent that were not there when the span was served
    then came by late requests (`OrphansFit`). The two halves are `ParentsEnclose`.
  - `PlacesFit` says that the queue and the posts of all threads share no item, and
    `GoneFit` that whatever was enqueued waits there or is gone in one way
    (`NothingIsForgotten`).
  - `AttemptsFit` tells attempts at the same post apart by a tag: the request a thread waits
    for is its latest attempt, those in `Late` are earlier ones. `RowsFit` says that a
    request writes an item once, and that of the rows of one item all but one are by
    late requests. Mapping rows to these gives the bound (`CopiesComeFromRetries`).
  - `AnswersFit` says of each item that a request has served what it came to (`Fate`): what
    it wrote is with the request, or in the table after the commit, or it was refused for a
    reason that still holds. Rows are only ever added (`Grows`), so it stays true.
* **Governance**: seven modules share the log, and a step belongs to one of them. A frame
  lemma for each module says which tables its steps leave alone and how they move a
  handler, so that each part of the invariant is proved of the steps that touch it.
  - `TablesFit` says what the sessions on a key still know (`KeySession`): a trace start
    that has touched its key finds it there until it commits, since whoever deletes the
    key waits. Revocation is one column, which no other session writes.
  - `ScopesFit` ties what a trace start was admitted to (`AdmittedTo`) and what a run or a
    dataset was made for to the catalog. A row keeps its parent until it is deleted
    (`CatalogKept`), and ids are not used again, so that a row found later under the same
    id is the row that was checked.
  - `PriceFits` is for requests that do not overlap: a price about to be written was
    compared with the windows as they are.
  - `HistoryFits` says for the entries of one agent that each begins where the last one
    ended, and that the last tells the row (`Chained`), and of the agent that a session
    holds that it is the row (`RowsFresh`).
  - `RetentionFits`: an entry of retention stays true, because nothing that is deleted comes
    back, a trace that is stored later has a higher number than the entry tells of
    (`upto`, which the model keeps for this property only), and the entries before it were
    judged in the same commit. `LossesAreTold` says that the last entry of a step explains
    each row that the step deletes.
* **Evaluations**, part of the same specification, in a module of their own:
  - `Session` says what the request of a run holds at each label: each case is still to do or
    has one result (`OnceEach`), the counters are those of the results (`Counts`), and the
    costs so far are a sum of theirs (`Totals`). What it commits is `Summed`, and stays so in
    the table (`RunsSummed`): a review touches one column of a result, a deletion the agent
    of a run, and results of another run have other ids.
  - The property adds costs up by a fold over a set, in an order nobody knows. `Sums` is a
    fold that picks any row first; `AnyOrder` shows that the order does not matter, so that a
    cost is added where the code does it, and `TotalIsSum` that the fold is that sum.
    `MeanOfFractions` shows that the mean of fractions is full only if each of them is,
    whence a verdict is that of its score.
  - `TalesFit` ties the entries on runs and reviews to the rows, and says, of requests that
    do not overlap, that the last review told is the one the result has: the commit does
    not write a status equal to the one loaded, and that is the one there is (`ReviewsFresh`).
  - `ComparesFit`: the snapshot of the first run still fits when the second is read, and
    both when the answer is looked at later, since a stored run and its results do not change.

### Assumptions

They are named in the modules that declare the constants, and TLC evaluates them.

* Shapes of the constants, and that NULL is none of the values: `ConstantsAssumption`,
  `NullAssumption`, `RunAssumption`, `RunNullAssumption`, `IngestAssumption`,
  `AccessAssumption`, `AlertsAssumption`, `AlertsNullAssumption`, `TelemetryAssumption`. Among them: a span named with
  a trace belongs to it (`ConstantsAssumption`), the limits of a policy are not
  negative (`IngestAssumption`, from `ge=0` in the schema of the endpoint), and neither are
  the costs and the tokens a provider reports (`EvaluationsAssumption`).
* The rows there are at the start are rows that the program leaves: traces without model
  calls whose spans form a forest (`TraceIngest!StoredAssumption`), with unique external
  ids (`StoredIdsAssumption`, used for the theorems without overlap only), members once each
  and with an owner (`Access!StoredAssumption`), valid rules (`StoredRulesAssumption`),
  price windows that do not overlap (`PricingAssumption`), keys, datasets and children
  whose projects are there (`ApiKeysAssumption`, `EvaluationsAssumption`,
  `ProjectsAssumption`).
* The programs that use the SDK (`ProgramsAssumption`): blocks nest, each `Trace` and each
  `Span` is a new object with one block, and a trace is used by the thread that entered it.
  Python's `with` gives the first two; the code does not enforce the last.
* Requests carry what the schemas of their endpoints let through (`PricingAssumption`,
  `PrivacyAssumption`, `ApiKeysAssumption`, `EvaluationsAssumption`, `ProjectsAssumption`,
  `GovernanceAssumption`). Periods of retention are
  any integers, as the code does not look at them.

### Only model-checked

Liveness (`EveryRunEnds`, `EveryRequestIsAnswered`, `EverythingSettles`) is beyond this
prover. Every other property of a passing run is proved. Where that needs induction, over the
results of a run or the verdicts on one, it is by the least counterexample (`SetInduction`),
as the prover cannot instantiate the induction theorems of the library.

## 6. What is abstracted

* Approvals: one organisation and one agent. A trace that is not found, and the
  mismatch of its project, answer before anything is read and are left out. The
  policy row and the usage that `CheckPreflight` reads are one step; so is the
  ingestion of a model call, which `TraceIngest` has in steps. The scan of the
  reviewer context is a set of contexts that a detector matches. A target is a host,
  a path and whether it carries secrets.
* ToolRun: backoff and durations. A poll is one step, since it writes nothing.
* TraceIngest: names and payloads. Project scope and the references to agents are in
  `ApiKeys`, the batch endpoint in `Telemetry`, and the incidents that handlers raise in
  `Alerts`.
* Access: one organisation; `is_active` does not change; an unknown email only answers
  401; creating and renaming the organisation. The audit entry of a login to a locked
  account is rolled back in the model because it is in the code.
* Alerts: one organisation, users with at least the role ANALYST; names, severities
  and the context of an incident. A request raises one event; legacy conditions are
  normalised already. What the ingest request writes besides is in `TraceIngest`.
* Telemetry: times are left out: backoff, and the interval of flushes, which the code
  only takes on `enqueue`. The span stack belongs to one trace, and the programs use
  each trace from one thread, though nothing in the code asks for that. Decorators and
  what they capture of inputs and outputs are left out.
* Pricing: provider and model are one value; a row has one price for all tokens.
* Evaluations: names, tags and texts; latencies are compared but not averaged.
  `create_run` looks its dataset and agent up and flushes the run in one step.
* Privacy: the rows below a trace, which the foreign keys delete with it. The export
  reads and only writes its entry. The statements of `run_retention` are one step, after the
  one that reads the policy and the clock.
* ApiKeys: a key is found by its identity instead of prefix and hash. Trace start is in
  two steps, and the finding and the alerts it may raise are in `TraceIngest` and `Alerts`.
* Projects: of the columns a PATCH may change, the name and one other stand for all.
* Deletions: the session loads all that refers to the row in one step, and the flush
  with the commit is one step. Rows below a trace are left out.
* Not modelled: the **security scanner** is text matching on one input, without state,
  and the models take what it matches as an input. **Metrics, listings and exports** read
  in one request and change nothing. The **interface** keeps no state that another part
  relies on but the token of its session. **Migrations, the demo and deployment** are
  run by hand; the constraints of the schema are in the models.

## 7. Plan

What is worth modelling of the code is modelled, and every safety property of a passing run
is proved. What changes in the code is to be followed here: first the action, then the run,
then the lemma of that action in the proofs.
