# BidSystem: a TLA+ verification project

This directory models the parts of the BidSystem backend
(`src/backend/src/bid_system`) whose correctness depends on the order in which
concurrent requests, transactions, threads and failures take effect. TLC checks
the models on small instances; TLAPS proves the most important properties for
every value of the constants. Paths below are relative to
`src/backend/src/bid_system` unless they start with `src/`.

## 1. Inventory

| Component | State it keeps | Operations | What is hard |
|---|---|---|---|
| Refresh sessions (`modules/identity`, `entrypoints/api/routes/auth.py`) | table `identity.refresh_session`: family, user, idle and absolute expiry, consumed, revoked | login, refresh (rotate, detect a replay), logout, resolve a principal | requests on one family interleave under READ COMMITTED; row locks; rollback after a flush; expiry |
| Document upload (`modules/documents`, `platform/object_store`) | MinIO bucket, tables `document` and `document_version` | create a document, append a version | work outside the transaction, threads that outlive their request, concurrent appends, failing services |
| Outbox (`platform/database/outbox.py`) | table `platform.outbox_event`: status, attempts, availability, lease, token | append, claim a batch, mark published, apply a failure | leases, crashes, late workers, retry limits |
| Registration and bootstrap (`modules/identity/application/register.py`, `bootstrap/identity.py`) | accounts, memberships, roles | register, create the first manager | processes that start at once |
| Access tokens and principals (`platform/security`) | none; reads the session table | issue, verify, resolve, evaluate permissions | a principal is older than the work it authorises |
| Rate limiter (`platform/security/rate_limit.py`) | Redis counters | check | outage modes, window boundary |
| Container, lifespan (`bootstrap`) | resources, a lifecycle state | start, probe, close | partial start, failing or hanging close |
| Worker (`entrypoints/worker`) | event loop, container, state | run, close, register tasks | failed start and retry; time limits at any line; delivery by Celery and RabbitMQ |
| Tool runtime (`agent_runtime`) | none between calls | execute with timeout and retry | a retry of what already happened |
| HTTP shell (`entrypoints/api`) | request context | limits, error mapping, health | a body that crosses its limit in mid-stream |
| Document elements (`modules/documents/domain/elements.py`) | none | validation of value objects | boundaries |
| Telemetry, configuration | none that behaviour depends on | | |

The components meet in the database. Every auth request runs in one
`AsyncTransactionManager` transaction that commits when the handler returns and
rolls back when it raises. An upload resolves its principal in a transaction of
its own, works on files, clamd, LibreOffice and MinIO without a transaction,
and opens a short one at the end. `PROJECT.json` lists every component, and
under `hazards` what can go wrong at which line.

What makes each modelled component correct:

* *Refresh sessions*: a rotation consumes one credential if and only if it
  creates its only replacement; a family never outlives its login's absolute
  expiry; a logout or a replay ends the family; no request waits for ever.
* *Uploads*: a row refers only to stored objects; refused content is never
  stored; versions are contiguous and distinct; a hanging service blocks no
  other upload in the database.
* *Outbox*: one live lease per event; a late worker changes nothing; reported
  failures are bounded; every event is settled in the end.
* *Provisioning and passwords*: one initial manager however many processes start
  at once; logins unique whatever their spelling; disabled managers create
  nothing; a rehash undoes no other update.
* *Tokens and principals*: a principal had all its rights at one instant; a token
  lives as long as it says; a refresh retires the token before it.
* *Rate limiter*: the capacity holds per account and window, in an outage too.
* *HTTP shell*: one answer per request, which the log tells truly; no oversized
  body succeeds; a failed commit is not reported as success.
* *Container, readiness*: everything that was opened is closed, once and in
  reverse, whatever fails or hangs; "ready" is fresh, and is said again after an
  outage.
* *Worker, delivery*: no task disappears, none runs for ever; tasks run in the one
  recorded container, which is open, and a failed start leaves none open; every call
  returns.
* *Tools*: an effect that must not be repeated is not; invocations and delays are
  bounded.
* *Elements*: accepted values can be used; every symbol is found and traceable.

## 2. Modules

| Module | Models |
|---|---|
| `SessionFamilies` | abstract: what session families promise, transactions atomic |
| `RefreshSessions` | login, refresh and logout statement by statement |
| `DocumentHistory` | abstract: the aggregate `Document` |
| `DocumentUpload` | the upload use case, the bucket, the tables |
| `Outbox` | the outbox store and the dispatchers that use it |
| `IdentityProvisioning` | concurrent starts that look for a manager, and registrations |
| `PasswordRehash` | concurrent logins that upgrade one password hash |
| `Principals` | access tokens against the clock, and the three reads that resolve one |
| `RateLimiter` | the login limit: script, key, window, outages |
| `ErrorMapping` | the exception classes and the ordered table of statuses (constants) |
| `RequestPipeline` | one request through the middlewares, its transaction, and back |
| `ContainerLifecycle` | start, probes, cleanup and close of resources, lifespan, telemetry |
| `Readiness` | `/readiness` with its timeouts and the shared thread pool |
| `WorkerRuntime` | lock, event loop and container of one pool process |
| `TaskDelivery` | a task between publisher, quorum queue, workers and dead-letter queue |
| `ToolExecutor` | attempts, timeouts, retries and events of one tool call |
| `DocumentElements` | validation of parser output, and the scan for comparison symbols |
| `MCRefreshSessions`, `MCDocumentUpload`, `MCOutbox` | one component each, with symmetry |
| `MCAccounts`, `MCHttpEdge`, `MCApiProcess`, `MCWorkerTasks`, `MCProgress` | several components each |
| `RefreshSessions_proofs`, `DocumentUpload_proofs`, `Outbox_proofs`, `TaskDelivery_proofs` | the inductive invariant of a component and the theorems about it |
| `IdentityProvisioning_proofs`, `ApiProcess_proofs`, `HttpEdge_proofs`, `WorkerTasks_proofs` | the same for every component of `MCAccounts`, `MCApiProcess`, `MCHttpEdge` and `MCWorkerTasks`, and their composition (the uploads of `MCApiProcess` are proved about in `DocumentUpload_proofs`) |

The modules of several components put parts side by side that share no state. A variable
`part`, chosen in `MCInit`, names the one that moves; the others stand still. The
state spaces add up instead of multiplying, and a property of one component is
checked in the behaviours of that component. One of the components is extended,
the others are instances, so their assumptions are definitions that the MC module
assumes (`ASSUME Limiter!LoginAssumption`).

Most components state their safety as one invariant that is a conjunction of
named parts (`ResourcesAccounted`, `PrincipalsSound`, ...). Each part has its own
comment in the module.

Operators whose comment begins with *Variant* are not part of a
specification. Each is the changed form of the definition that follows it, a
mistake the code could plausibly contain, and shows that the property it is
paired with in `PROJECT.json` notices it.

### RefreshSessions

A `Session` stands for a session id and the token whose digest the row stores.
`rows` is the committed table; `draft[r]` holds the uncommitted row versions of
request `r`; `lock` the row locks. One action is one SQL statement or the end of
a transaction:

| Action | Code |
|---|---|
| `Login` | `auth.login`, `AuthenticateLocalAccountHandler.handle` |
| `RefreshBegin` | `auth.refresh` up to the call of the store: the time and the replacement are taken before the row lock |
| `RefreshUnknown`, `RefreshReplay`, `RefreshInvalid`, `RefreshRotate` | the outcomes of `rotate_refresh_session` after `SELECT ... FOR UPDATE` (`SelectForUpdate`) |
| `RefreshResolve` | flush, then `ResolveIdentityHandler`; a refused identity raises and rolls back |
| `LogoutBegin`, `LogoutFind` | `auth.logout`, the unlocked read of `revoke_refresh_family_by_digest` |
| `UpdateFamily`, `UpdateRow`, `UpdateDone` | the family `UPDATE`: snapshot, one row at a time in any order, end |
| `Commit`, `Rollback` | `AsyncTransactionManager.__aexit__`, `get_database_transaction`; `Rollback` may happen at any point |
| `DeadlockVictim`, `SetEnabled`, `Tick` | PostgreSQL, an operator, the clock |

PostgreSQL is external. At READ COMMITTED (the engine sets no other level) a
statement sees the rows committed when it starts. An `UPDATE` that waited for a
row looks again at that row only; rows inserted since its snapshot are not seen.
`UpdateFamily` and `Unfinished` model exactly this. `consumed_at` and
`revoked_at` are Booleans, because no decision reads their values. Account and
membership status are one flag, because every reader requires both.

### DocumentUpload

A file is identified by its SHA-256, and so is the canonical PDF. A PDF is its
own canonical PDF; converting an office file may give any `Rendition`. Sets of
files say what each check refuses. The actions follow
`UploadDocumentHandler.handle`: `Receive`, `Stage`, `Detect`, `Inspect`, `Scan`,
`Parse`, then `MinioDocumentBlobStore.put` in two halves (`Stat...`, `Put...`)
for the source and for the canonical PDF, then `CreateDocument`, or
`LockDocument`, `ReadLatest` and `InsertVersion`, then `Commit`. `Abandon` is a
cancellation, an unavailable service, a failed commit or a crash at any point; a
thread in `put_object` may go on, and `LateWrite` is what it does. `Alter` is
the external replacement that the code's size comparison looks for; a
replacement of equal size is invisible to the code and is left out.

`InsertVersion` waits for an uncommitted clashing row and fails on a committed
one, as the two unique constraints demand. `AppendsNeverConflict` shows that
this never happens while the document row is locked.

### Outbox

The repository has the store and no dispatcher. The model has dispatchers that
claim a batch in one transaction (`ClaimBatch`, `ClaimCommit`), publish, and
settle each claim in a transaction that locks the row; whoever writes the real
dispatcher has to do the same. Deadlines are countdowns, so the clock needs no
bound. `order_by(available_at, created_at)` is abstracted to a free choice of
batch, and returns in the fairness assumption. `attempts` is counted to
`MaxAttempts + 1`, after which no decision distinguishes values.

### IdentityProvisioning and PasswordRehash

One row of `accounts` stands for account, membership and role, which only a
commit makes visible, together. `manager_exists_for_update` locks the manager
role row (`FOR UPDATE`); inserting an assignment of that role takes a
`KEY SHARE` lock on the same row through its foreign key, so a registration of a
manager waits for a start and a start for it (`HoldsRole`, `RoleRowFree`). The
unique index on the normalized login makes an insert wait for an uncommitted
clash and fail on a committed one. A registration resolves its actor in an
earlier transaction, as `dependencies.py` does. `PasswordRehash` reads the
account without a lock and updates two columns.

### Principals

Login and refresh issue a token per session; its integer claims cut off
fractions of the clock. A request verifies the token, reads account, membership
and session in three statements, and acts later. `valid` is a history variable:
the requests for which all rights held at one instant since they began. One
account suffices: no read relates two.

### RateLimiter

The script counts and sets the expiry in one atomic step in Redis. `Count` may
run before the answer arrives, after the request gave up, or never. The key is
built from the stripped, case-folded name; a blank name raises. One client
address is modelled, since keys of different addresses never meet.

### ErrorMapping and RequestPipeline

`Layers` is the order that `_register_middlewares` produces. A request descends
through them, may be refused by a declared or streamed body over the limit, runs
its transaction, and answers or raises at any step; `Ascend` is what each layer
does on the way out. `LateExits` says whether FastAPI ends the transaction's
dependency after the response (0.118 and later) or before.

### ContainerLifecycle and Readiness

`Container` creates and probes resources in order, appends each to a list, and
closes them by popping it, in reverse; each wait may end, fail, or run into its timeout, and the task
may be cancelled while it waits. The callers are the lifespan of the API and
the worker's health check, which close the container in a `finally`.
`ConfigureFails` is an exception of the settings, the logging or the telemetry
before that `try` begins. In `Readiness` the object store probe occupies a
thread of the default pool; the timeout abandons the call but not the thread,
and document work wants threads of the same pool.

### WorkerRuntime and TaskDelivery

`WorkerRuntime` has the lock, the lazily started container and the loop. A
container is named after the task that created it; `current` is the one in
`_container`. The soft time limit strikes a task once, at any step, and `limit`
remembers where:

| Step | Code | What the limit does there |
|---|---|---|
| `entered` | `run` up to `runner.run` | `SoftTimeLimit`: the call fails |
| `starting` | `container.start()` | `StartFails`: raised in `start`, or `runner.close()` cancels it; `start` cleans up |
| `cleaning` | `_close_resources` of a failed start | `LimitInCleanup`: swallowed as the failure of one close, or the cleanup ends there and the container stays open |
| `recording` | `start` has finished, lines 92 to 99 | `LimitInRecording`: the container stays open, recorded in `_container` or not |
| `running` | the coroutine of the task | `Return` if raised in it; `SoftTimeLimit` while the loop waits, and the coroutine stays on the loop (`loop`) |

The runtime, unlike the lifespan and the health check, has no `finally` that
closes the container of a failed start, so in the third and the fourth case
nobody does. `TaskDelivery` is what the options
of `create_celery_app`, the arguments of the queue and the decorator of the task
amount to: late acknowledgement, rejection on failure, retries that are published
before the acknowledgement, the delivery limit, the dead-letter exchange. Celery
and RabbitMQ are external.

### ToolExecutor and DocumentElements

A tool that timed out may have had its effect or have it later (`LateEffect`);
the recorder may fail and the caller be cancelled. `elapsed` counts invocations and
delays, and not the time that the recorder or the tracer takes, which the code does
not bound. `DocumentElements` runs the
constructors in the order an element needs them, then scans its texts. A text is
a sequence over the symbols, a blank and one other character. Confidences are in
units of `1 / Full`; normalized coordinates are pairs.

## 3. Runs

| Run | Instance | Properties |
|---|---|---|
| `sessions_concurrent` | 2 requests, 4 credentials, 1 family, idle 2, absolute 2, clock to 2 | `TypeOK`, `OneCurrentCredential`, `FamilyLifetime`, `RevocationEndsFamily`, `RotatesAtomically` |
| `sessions_liveness` | 2 requests, 3 credentials, lifetimes 1, clock to 1 | `RequestsFinish` |
| `sessions_logout_race` | 2 requests, 4 credentials | `LoggedOutFamilyIsDead` is violated |
| `upload_ingest` | 2 uploads, 1 document, a PDF, an office file, one file for each check that refuses | `TypeOK`, `NoDanglingReference`, `StoredContentWasScreened`, `AppendsNeverConflict`, `KeepsHistory` |
| `outbox_claims` | 2 dispatchers, 2 events, batches of 2, lease 2, 3 attempts, 3 faults | `TypeOK`, `OneLiveLease`, `RetryHasAttemptsLeft`, `StaleClaimsSettleNothing` |
| `accounts` | 2 processes with different initial managers, 2 registrations, 3 user ids, 2 spellings of one name, 1 crash; 3 logins on 2 processes | `WellTyped`, `ProvisioningAgrees`, `DisabledManagersCreateNothing`, `RehashKeepsUpdates` |
| `http_edge` | bodies of 0 to 3 around limits 1 and 2, early and late exits; 4 logins, capacity 1, window 2, clock to 4; 1 request, 2 sessions, half seconds to 7 | `WellTyped`, `AnswersAreLogged`, `OversizedNeverSucceeds`, `DatabaseFailuresReported`, `LimitHolds`, `PrincipalsSound` |
| `api_process` | 4 resources, one lazy, 2 cancellations; 1 client, 2 threads; 2 uploads, 1 document, 2 PDFs | `WellTyped`, `ResourcesAccounted`, `StopEnds`, `ReadyIsFresh`, `ReadinessRecovers`, `TransactionsEnd` |
| `worker_tasks` | 2 tasks, one invalid, 2 workers, 1 retry, delivery limit 2; 3 calls; 4 attempts; coordinates -1 to 2, texts to 4 characters, 2 cells | `WellTyped`, `TasksAccountedFor`, `ContainerOwned`, `ExecutionAccounted`, `EvidenceSound` |
| `progress` | 2 processes, 1 registration, 1 crash; 1 event, 2 dispatchers, 3 faults; 1 task, 2 workers; 3 calls; 3 attempts | `ProvisioningEnds`, `EveryEventIsSettled`, `EveryTaskEnds`, `CallsReturn` |
| `pipeline_streamed` | limits 1 and 2, bodies to 3, read by the framework | `OversizedIs413` is violated |
| `runtime_failed_start` | 2 calls | `FailedStartsLeaveNothing` is violated |

`http_edge` also evaluates `NearestBaseAnswers`, a fact about constants: the first
matching row of the error table is the row of the nearest listed base.

Why the bounds are enough. Every conflict in this code is between two
transactions on one row, family, document or login, so two requests reach all of
them. Four credentials allow a login, two rotations and a rotation in flight,
hence a replay of a token that is two generations old; a rotation at time 1 is
capped by the absolute expiry. Three faults allow a crash, a late dispatcher and
one more, past `MaxAttempts` in `progress`. Three user ids are an initial manager
and two accounts it registers; four logins with capacity 1 fill two windows and
are denied in each. Two cancellations strike a start and its cleanup. Two
threads are enough to be exhausted by an abandoned probe and a document job.
Three calls of `run` are a start that fails, one that
succeeds and a task on the same container. A task that is retried once and returned twice meets both limits. Four
characters hold two compound symbols side by side.

Symmetry is used only in runs without liveness properties.

### The three violations

* `sessions_logout_race`: `UPDATE ... WHERE family_id = :f AND revoked_at IS
  NULL` does not see a row that a concurrent transaction inserts. A refresh has
  locked the current row and flushed its replacement. A logout takes its snapshot
  and waits for the row. The refresh commits; the logout revokes the consumed
  row, misses the replacement, and answers that the user is logged out. The
  replacement is active. A replay has the same defect: it locks its own, consumed
  row, and its update misses the replacement of a current credential that is
  being rotated meanwhile (`ReplayedFamilyIsDead` fails too). Nothing in the
  repository's tests runs two transactions on one family. `RevocationEndsFamily`
  shows that both promises hold as long as requests do not overlap.
* `pipeline_streamed`: a body without `Content-Length` crosses the limit while
  the framework parses it. The framework turns the exception of
  `limited_receive` into status 400, so the 413 of the middleware is not what the
  client gets.
* `runtime_failed_start`: `ApplicationContainer.start` says that "no partial pools
  may survive", and `_ensure_started` answers an interrupted start with
  `runner.close()` only. If the soft time limit strikes while the start waits in its
  own cleanup (a close that hangs), `runner.close()` cancels the cleanup,
  `CancelledError` passes `except Exception`, and what is left in the list stays
  open. If it strikes after `start` has finished and before the container is
  recorded, all pools stay open. The next task starts another container, and `close`
  never hears of the first. `ContainerOwned` states the exception: a container that
  is open without being the recorded one belongs to a task whose limit struck at one
  of these two steps, and every other failed start leaves nothing.

### Observed in the models, promised by no line of the repository

* FastAPI from 0.118 on ends dependencies after the response, and `pyproject.toml`
  allows it: a commit that fails has then been answered with success.
  `DatabaseFailuresReported` is stated for the other order.
* After a soft time limit that strikes while the loop waits, the coroutine of the
  failed task goes on inside the next task (`loop` in `WorkerRuntime`).
* `claim_batch` never looks at `max_attempts`: an event whose dispatchers always
  die is claimed for ever.
* The 500 for an unknown exception lacks the timing and security headers.
* If every thread of the pool hangs for ever, readiness does not recover.
* An exception of `shutdown_metrics` skips `shutdown_tracing`, and so does one of
  `configure_metrics`, before the `try` of the lifespan.
* `!=` is read as `=`, and `==` as two symbols; overlapping cells are accepted.

## 4. Fairness

* `RefreshSessions`: strong fairness of the statements of a request that has
  begun. The event loop and PostgreSQL drive them, and PostgreSQL queues the
  waiters of a row lock, so a lock that is released again and again is obtained.
  Weak fairness of deadlock resolution (`deadlock_timeout`). None of a client
  sending requests, of the clock, or of a rollback.
* `DocumentUpload`: strong fairness of the statements of the short transaction
  only. The MinIO client's `urllib3.PoolManager()` sets no timeout, so nothing
  guarantees that an upload outside its transaction ever ends; `TransactionsEnd`
  shows that this blocks nobody in the database.
* `Outbox`: time passes; a dispatcher commits its claim and settles what it
  holds; a due event is eventually among the claimed, because the oldest comes
  first. Dispatchers crash or overrun a lease at most `MaxFaults` times: if every
  attempt were slower than the lease, the event would pass from one to the other
  for ever, and the code does not prevent that.
* `IdentityProvisioning`: weak fairness of every start and request; PostgreSQL
  grants a lock that stays free. Processes crash at most `MaxCrashes` times.
* `ContainerLifecycle`: the event loop runs and timers fire; nobody has to stop
  the process or to cancel anything.
* `Readiness`: handlers and timers run (weak), a thread that becomes free again
  and again is given to each waiting call (strong: the pool's queue is FIFO),
  clients ask again. Nothing says that a call in a thread ends; recovery is
  promised only if some thread stays free of hung calls.
* `WorkerRuntime`: a thread that may go on does; Celery's time limits end a task
  that does not. Each thread enters once, so a lock that stays free suffices.
* `TaskDelivery`: crashed workers are restarted, some worker declares the
  dead-letter queue in the end, executions end by their time limits, the broker
  delivers a message that is queued again and again. Crashes are unbounded.
* `ToolExecutor`: the event loop runs, timers fire.

`MCProgress` and `MCApiProcess` repeat these conditions for each part.

## 5. Proofs

A module `X_proofs` extends the module of a component, or the MC module that has
it as an instance. For each component it states an inductive invariant (`IInv`,
`RehashIInv`, `PipelineIInv`, ...), proves `Invariance`: `Spec => []IInv`, with one
lemma or step per action, and derives the rest. The theorems hold for every value
of the constants that satisfies the named assumptions. `Rehash!Spec`,
`Probes!Spec`, `Limiter!Spec`, `Tokens!Spec`, `Runtime!Spec`, `Tools!Spec` and
`Elements!Spec` are the specifications of components by themselves, as the MC
modules instantiate them. Theorems `MCSpec => Spec /\ ...` say that a behaviour of
such a module is a behaviour of each of its parts, so that what is proved of a part
holds in the composition that the run checks.

| Module | Theorem | States |
|---|---|---|
| `RefreshSessions_proofs` | `SoleReplacement` | `Spec => []OneCurrentCredential` |
| | `LifetimeIsFixed` | `Spec => []FamilyLifetime` |
| | `Refinement` | `Spec => RotatesAtomically` |
| | `RevocationsEndFamilies` | `MCSpec => []RevocationEndsFamily` |
| `DocumentUpload_proofs` | `ReferencesResolve` | `Spec => []NoDanglingReference` |
| | `OnlyScreenedContent` | `Spec => []StoredContentWasScreened` |
| | `AppendsAreSerialised` | `Spec => []AppendsNeverConflict` |
| | `Refinement` | `Spec => KeepsHistory` |
| `Outbox_proofs` | `LeasesExclude` | `Spec => []OneLiveLease` |
| | `AttemptsRemain` | `Spec => []RetryHasAttemptsLeft` |
| | `OwnersSettle` | `Spec => StaleClaimsSettleNothing` |
| `IdentityProvisioning_proofs` | `OneManagerIsProvisioned` | `Spec => []ProvisioningAgrees` |
| | `DisabledActorsAreRefused` | `Spec => []DisabledManagersCreateNothing` |
| | `RehashesKeepUpdates` | `Rehash!Spec => RehashKeepsUpdates` |
| | `AccountsCompose` | `MCSpec => Spec /\ Rehash!Spec` |
| | `AccountsTypeCorrectness` | `MCSpec => []WellTyped` |
| `ApiProcess_proofs` | `ResourcesAreReleased` | `Spec => []ResourcesAccounted` |
| | `AnswersAreFresh` | `Probes!Spec => []ReadyIsFresh` |
| | `ProcessComposes` | `MCSpec => Spec /\ Probes!Spec` |
| | `PartsAreWellTyped` | `MCSpec => []WellTyped` |
| `TaskDelivery_proofs` | `TasksAreAccountedFor` | `Spec => []TasksAccountedFor` |
| `WorkerTasks_proofs` | `TasksOwnTheirContainer` | `Runtime!Spec => []ContainerOwned` |
| | `ExecutionsAreAccountedFor` | `Tools!Spec => []ExecutionAccounted` |
| | `EvidenceIsSound` | `Elements!Spec => []EvidenceSound` |
| | `WorkerComposes` | `MCSpec => Spec /\ Runtime!Spec /\ Tools!Spec /\ Elements!Spec` |
| | `WorkerTypeCorrectness` | `MCSpec => []WellTyped` |
| `HttpEdge_proofs` | `LoginsAreLimited` | `Limiter!Spec => []LimitHolds` |
| | `RequestsAnsweredAndLogged` | `Spec => []AnswersAreLogged` |
| | `NothingOversizedSucceeds` | `Spec => []OversizedNeverSucceeds` |
| | `FailedCommitsReported` | `Spec => []DatabaseFailuresReported` |
| | `PrincipalsAreSound` | `Tokens!Spec => []PrincipalsSound` |
| | `EdgeComposes` | `MCSpec => Spec /\ Limiter!Spec /\ Tokens!Spec` |
| | `EdgeTypeCorrectness` | `MCSpec => []WellTyped` |

and type correctness of each component by itself (`TypeCorrectness`,
`RuntimeTypeCorrectness`, `PipelineTypeCorrectness`, `LimiterTypeCorrectness`).

### The invariants and the arguments

**RefreshSessions.** A commit copies a draft into the table, so the invariant
must say what a draft may contain at each point of a request, and that what it
was computed from has not changed. `IInv` is the conjunction of `TypeOK`,
`OneCurrentCredential`, `FamilyLifetime`, and

* `MintedOK`: a generated credential is in no row and belongs to one request;
* for each request `PhaseOK`: which outcome and which locks go with its position;
* for each request `DraftOK`: its draft is empty, the first row of a login in a
  family that nobody else has, a rotation (the presented row, locked and
  unchanged, marked consumed, and its replacement), or revocations of rows it
  has locked.

The lock is what carries the argument: a row with an uncommitted version is
locked by that request, so no other commit changes it (`DraftOwned`,
`OtherRequest`), and the row an `IsActive` check has read is the row the commit
replaces. `Commit` is the only action that disturbs the table. The refinement
adds that a commit of a login, a rotation or a revocation is `Open`, `Rotate` or
`Bar`, and every other step a stutter.

`RevocationEndsFamily` needs more (`SequentialIInv`), and the history variable
`overlapped` of `MCRefreshSessions`. While no two requests have overlapped, one at
most is in progress (`Alone`), so the snapshot of a family `UPDATE` has every row
that is not revoked, and at its commit all of them have been written
(`RevokesAll`): every row of a revoked family is revoked (`DeadOK`). A rotation
adds no row to such a family, because the row it presents would be revoked.
`sessions_logout_race` shows that the premise cannot be dropped.

**DocumentUpload.** Per request: the checks its step has behind it (`Screened`),
the objects it has found or put (`Stored`; nothing deletes objects), the lock of an
append (`Holds`), the fact that the number it computed is still the next one and
its hash still new (`Numbered`), and the one row it writes (`Drafted`). Over the
table: the unique constraints, and version numbers that are an interval from one
(`TableOK`). `Numbered` is what `AppendsNeverConflict` lacks: it survives other
requests because only the holder of the document's lock, or the request that
creates the document, has a draft for it (`DraftsApart`). A commit is a step
`Create` or `AppendVersion` of `DocumentHistory`, everything else a stutter.

**Outbox.** A claim whose lease runs is the claim of its row, and both run out
together (`HeldOK`); no two dispatchers hold the same token (`ClaimsApart`); a row
that `claim_batch` has locked stays due until the commit, with a token nobody
holds (`DraftOK`). Hence two live leases on one event have one token and one
holder. `PowerAssumption` (powers of two are natural numbers) is arithmetic: the
provers have no rule for `^`.

**IdentityProvisioning.** A start that found no manager holds the role row, and
until it commits there is none, because whoever would insert one needs that row
(`StartOK`, `RoleRowExclusive`); accounts exist only after a manager does
(`AccountsOK`); what is flushed clashes with nothing, committed or flushed
(`FlushOK`), which is what makes `BootstrapNeverConflicts` inductive; a request
whose actor was disabled before it stays before the check (`RequestOK`).

**PasswordRehash.** With equal work factors everywhere, the row and every read of
it are the first hash with version 1 or the replacement with version 2
(`RehashedOnce`): a login that rehashes has read the first one, whatever was
committed since, and writes what any other would write. The two columns of the
`UPDATE` leave the status alone. While two sets of work factors are deployed
`RehashedOnce` does not hold, and the theorem does not apply.

**ContainerLifecycle.** The list of open resources is the beginning of `Order`,
the list of closed ones the part that follows, backwards (`ListsOK`). The other
parts say which of the two is empty, and what has been probed, at each step.

**Readiness.** While a request waits, what it found up it has seen up, and once it
is answered none of its probes goes on (`SeenOK`): so a probe never ends for a
request that has begun anew. `ThreadsOK` counts the threads in use: an abandoned call
moves from the requests' to the abandoned ones, which is why `stuck` cannot exceed
the pool.

**TaskDelivery.** `ExecutionsBounded` is a counting argument. Every retry goes back
to a delivery of its own of a message with one retry less, and a worker that
executes holds a delivery that no retry has used yet (`Traces`). So the messages
with `r` retries inject into the deliveries of those with `r - 1`, of which each
has at most `DeliveryLimit + 1`: `LevelBound` and `DeliveriesBound` bound them by
`Published[r]` and `Executions[r]`. This is induction over `r`. The library's
induction theorems cannot be instantiated by the provers, so the proof uses them
in the form of a set: a set of numbers with 0 and all successors is everything up
to the bound (`SetInduction`, from the well-foundedness of `<`), and the recursive
functions of the model are shown to satisfy their equations (`RecursionExists`,
`PublishedFacts`, `ExecutionsFacts`).

**WorkerRuntime.** Whoever is inside `run` or `close` holds the lock, so one
thread at most is starting, cleaning up, recording, running or closing (`LockOK`);
what it does fixes the state of the runtime (`PhaseOK`); the container of a started
runtime is open, and every other open one belongs to the thread that is starting it
or to a task whose time limit struck in a cleanup or before the record (`OpenOK`);
the loop of a runtime that is not started is empty (`LoopOK`). `ContainerOwned` has
the same exception, so the theorem does not promise what `runtime_failed_start`
refutes.

**ToolExecutor.** `AttemptOK` says who gets a second attempt: an idempotent tool
only. `EffectsOK` says that there are no more effects, the ones still to come after a
timeout included, than attempts that were invoked. `TimeOK` bounds the time at each step
by the attempts begun (`Rounds`), which gives `WaitsBounded` because no delay
exceeds `MaxDelay`. `EventsOK` ties the last event to the step, and so makes the
order of the events (`Told`) inductive.

**DocumentElements.** The scan is a loop, and its invariant (`ScanOK`) says that
what was found is there, and what is there before the current offset of the current
source was found, in order (`FoundOK`), and that the offset is not inside a compound
symbol (`Aligned`). At the end of the last source this is `FindsEverySymbol`, for
texts of any length. No two sources have the same field and identifier
(`SourcesOK`), because cells with equal identifiers are refused; so a symbol leads
back to one. An accepted position can be normalized (`PositionOK`).

**RequestPipeline.** `PhaseOK` says what each phase knows: on the way down nothing
has happened, and nobody comes back up without a response or an exception. One
response at most is on the connection, and only a 500 starts outside the log
(`WireOK`); the log has its line once control has left that layer (`LogOK`); a body
found too large has no response yet (`StreamedOK`), and none that is too large gets
past the gate or is read without an exception (`SizeOK`); a failed commit, where
dependencies exit in time, is an exception that becomes a 503 (`CommitOK`).

**Principals.** The three reads happen at different times, and together show one
instant at which all was active. `ReadsOK` says why: nothing that was deactivated
becomes active again, so what a later read finds active was active at every earlier
instant, and it remains to be shown only for the rights not yet read. `SessionsOK`
has one active session per family. `TokenLifetime` is arithmetic: cutting off
fractions loses less than a second (`FloorFacts`).

**RateLimiter.** Within a window of a key the counts are pairwise different
(`CountsDiffer`), because the counter is ahead of every request it has counted
(`CounterAhead`); an admitted request has a count up to `Capacity`; so the admitted
requests of a window inject into `1 .. Capacity`. The key forgets the spelling
(`KeyFacts`), so this is per account. A window expires at most `Window` after any
request in it was counted, which gives `RetryAfterSuffices`. `CounterBacked` (each
value of a counter belongs to a request) is needed for the types only. The login
policy's outage mode is deny in the instance: with allow the limit does not hold.

### Assumptions

`TTLAssumption`, `ClockAssumption`, `FileAssumption`, `PolicyAssumption`,
`NameAssumption`, `OrderAssumption`, `LimitAssumption`, and of the instances
`WorkAssumption`, `LoginAssumption`, `TtlAssumption`, `ThreadsAssumption`,
`RuntimeAssumption`, `SpecAssumption` and `ElementAssumption`, say what the
settings, policies and `ToolSpec` validate (positive lifetimes, limits and windows),
how the sets of the model relate (texts are sequences of characters), and that the
bounds are numbers; `NoValueAssumption` and `NoRowAssumption` that the null values
are no values. `PowerAssumption` and a conjunct of `SpecAssumption` say that powers
of two are natural numbers. TLC evaluates all of them in the runs. Before its
proof each inductive invariant was also model-checked on a small instance.

### Only model-checked

Every invariant and every action property of the runs is stated by a theorem. What is left to TLC:

* Liveness (`RequestsFinish`, `TransactionsEnd`, `StopEnds`, `ReadinessRecovers`,
  `ProvisioningEnds`, `EveryEventIsSettled`, `EveryTaskEnds`, `CallsReturn`): the
  prover handles neither fairness nor ENABLED.
* `NearestBaseAnswers`: the error table is a constant, so TLC's evaluation of it
  is complete.
* The three violations.

## 6. Not modelled

* Configuration (`platform/config`, `bootstrap/settings.py`): declarative
  validation, read once. What it guarantees appears as assumptions on constants.
* Telemetry: formatting, redaction and export of logs, metrics and traces.
  Setting up and shutting down the providers is in `ContainerLifecycle`.
* Key rings, their rotation and signatures; `tenant.py`, a constructor without
  callers; CSRF and cookies; the limits of register and refresh, which have keys
  and policies of the kind that is modelled.
* The contents of files, names, sizes and page counts beyond which check refuses
  them; payloads of events; wording of responses; `ParserProvenance`.
* Loss of Redis' memory, and a publish that is repeated after a lost confirm.
* A client that repeats a create after a lost answer makes a second document; no
  line of the repository promises otherwise.
* `/health` and `/version` return constants; the packages `matching`, `planning`,
  `product_catalog`, `product_knowledge`, `reporting`, `reviews`, `tenders` and
  `orchestration` are empty.

## 7. Plan

Done: all components of section 1 but telemetry and configuration, with liveness
where callers wait; a theorem for every safety property, and for both refinements.

When the code changes:

1. A dispatcher for the outbox: replace the dispatchers of `Outbox`, which are
   modelled from the store's interface, by the real one, and look at
   `claim_batch` and `max_attempts` again.
2. A repair of the logout race (a lock on the family, or an update that is repeated
   until it finds nothing): `LoggedOutFamilyIsDead` and `ReplayedFamilyIsDead` become
   invariants of `RefreshSessions`, without the premise of `RevocationEndsFamily`, and
   `DeadOK` the part of `IInv` that proves them.
3. Rotation of the verification keys in `Principals`, once the code has a
   procedure for it: today they are read from the settings when a process starts.
4. The product areas, which are empty packages today.
