# Refract in TLA+

Specifications of llm-refract, kept beside its code. The parts that run
concurrently, fail, time out, restart or lose messages are state machines that
TLC checks on small instances, and the results that matter most are theorems
that TLAPS proves for every instance. Every definition is read off the source;
`PROJECT.json` maps each one to the lines it models.

1. [The system](#1-the-system)
2. [Modules, and how they correspond to the code](#2-modules-and-how-they-correspond-to-the-code)
3. [Runs: what is checked](#3-runs-what-is-checked)
4. [Bounds, fairness and assumptions](#4-bounds-fairness-and-assumptions)
5. [Proofs](#5-proofs)
6. [Where code and documentation disagree](#6-where-code-and-documentation-disagree)
7. [Not modelled](#7-not-modelled)
8. [Plan](#8-plan)

## 1. The system

Refract records what an application does with language models (a *run*: a tree
of events), stores runs, and lets people search, compare, replay and grade
them. Recording libraries (Python, TypeScript) hand snapshots to an exporter;
a server (axum) stores them in SQLite or PostgreSQL through `refract-storage`,
indexes them, and delivers them to webhooks and object stores; a viewer and a
command line read them. Several replicas of the server may share a PostgreSQL
database; SQLite is used through one connection.

| Component | State | Operations | What makes it hard | What makes it correct |
|---|---|---|---|---|
| Delivery outbox and worker (`storage/lib.rs`, `rotation.rs`, `server/delivery.rs`) | `delivery_versions`, `outbox` rows with lease and attempts, the job in a worker's hands, HTTP requests | insert, rotate, retain; claim, deliver, acknowledge, retry | workers race, stall beyond their lease and die; requests are lost, late or repeated; retention and rotation rewrite rows under a lease | a claim excludes others; receivers end as the database does; everything is delivered in the end |
| Webhook inboxes (`refract/delivery.py`, `delivery.ts`) | `deliveries`, `receipts` | accept | duplicates and old versions arrive at any time | the newest version wins, tombstones stay |
| Embedding queue and worker (`embedding_jobs.rs`, `server/embeddings.rs`) | settings, job rows with lease and attempts, vectors, generations | save settings, schedule with a snapshot, reindex, claim, embed, finish | a job outlives its lease, its settings or its run; transactions overlap | only vectors of the stored run under an enabled model are published; every run is indexed in the end |
| Vector search and cache (`vector_index.rs`) | LRU cache of graphs, one build permit, connection pool | search (exact, approximate, auto), store, retain | rows, generation and cache are read by separate statements while vectors change; permit, connection and byte budget are shared | no stale answer, no stale graph kept as current, the budget holds, every search returns |
| Browser sessions (`browser.rs`, `oidc.rs`, `security.rs`, `sessions.rs`) | the session row with tokens and refresh lease, a key cache per process | authenticate, refresh, log out; sign in | a refresh token is good once; requests race, are dropped, and await the provider while the user signs out | the token is not spent twice, ended sessions stay ended, a good session is kept, every request is answered |
| Node batch exporter (`exporter.ts`) | queue, spool directory, pending exports, drain, recovery | export, flush, recover, shutdown | everything interleaves at every await; processes are killed, machines lose power | accepted runs survive and are delivered; limits hold; shutdown returns |
| Python background exporter (`exporter.py`) | queue, spool, worker thread | submit, recover, flush, close | threads, kills | as above |
| Trace assembly and OTLP (`traces.rs`, `server/otel.rs`) | spans and assemblies per trace, the row lock of a merge | ingest, merge, assemble, publish, expire | batches in any order, repeated, concurrent with each other and with the two statements of the expiry; handlers die between merge and insert | a batch is taken whole or not at all, and stays for a day; cycles and conflicts leave no trace; no span without its assembly; what is stored is published |
| Telemetry (`telemetry.rs`) | log and metric records | insert, page, expire | retried batches, equal records in one batch | an export counts once, its equal records each |
| SCIM directory and principals (`scim.rs`, `provisioning.rs`, `identities.rs`, `identity_api.rs`) | directory document, principals, managed keys | create, replace, patch, delete; provision; issue and revoke keys | two administrators; a subject of another scope; a handler acts with the identity it read | a principal is enabled with the role its groups give it; scopes stay apart |
| Sign-in (`browser.rs`, `login.rs`, `sessions.rs`) | pending logins, sessions | start, complete, log out | two callbacks of one login, principals that change meanwhile | one login gives one session, of its subject's scope |
| Quotas, audit, authorization (`controls.rs`, `security.rs`, `server/lib.rs`) | rate buckets, audit rows | allow, expire, authorize | replicas with different clocks, delayed requests | no actor exceeds its limit in a minute whose bucket is not left and taken again |
| Encryption and rotation (`encryption.rs`, `rotation.rs`) | sealed columns | seal, open, rotate | rotation beside writers and deliveries | every row stays readable, deliveries carry the new ciphertext |
| Execution model, replay, comparison, metrics (`refract-core`, `-replay`, `-diff`) | none | validate, redact, fork, preflight, prepare, compare, measure | trees, bindings, masks, unknown usage and cost | a rerun is the run it was made of from the fork on; nothing unknown passes |
| Reruns, diffs and evaluations of the server (`server/lib.rs`, `generation.rs`) | the runs in the store, the permits of the model provider | create, fork, rerun, diff, evaluate, retain | a request works for minutes on what it read once; calls fail, hang, are abandoned | the branch is that of the run that was read; no call before consent for the whole rest; a comparison fails closed |
| Recording (`instrumentation.py`, `instrumentation.ts`) | the capture of one provider call | chunk, finish, close | streams closed early, errors, nested captures | one event per call, finished once |
| Collector, artifacts, clients, command line, viewer | none that outlives a call | | | |

How they interact: an insert writes the run, its delivery rows and its
embedding jobs in one transaction. The background loops of `serve` drive the
other components: the delivery loop sweeps retention now and then, rotates a
batch of old ciphertexts and works off due outbox rows, pausing two seconds when
none is due; the embedding loop does the same for due jobs and repairs missing
ones every minute. Finishing a job
bumps the generation that vector search compares with its cache. Deactivating a
principal (SCIM or the identity API) is what `authenticate` notices through
`resolve_subject`. The exporter is a client of the batch endpoint, which stores
a run once under its id; the trace receiver is another, which stores a run per
content of a trace under its digest. Reruns, diffs and evaluations read those
runs and share four permits for model calls.

The hazards this gives rise to are listed, at the line where each one bites and
with the properties that cover it, under `hazards` in `PROJECT.json`.

## 2. Modules, and how they correspond to the code

Variables keep the names of columns, fields and locals where TLA+ allows it. A
database transaction whose outcome does not depend on what overlaps it is one
action; where READ COMMITTED lets another transaction in between, its halves are
separate actions. A handler is cut at every statement, request or `await`.

### `DeliveryMirror`, `Outbox`: delivery

`DeliveryMirror` says what a delivery target is promised, without rows, leases,
workers or requests: each write of a run announces a content; while it is announced
the copy at the target may change, at a target that compares versions only to a
later one; it is settled when the copy is the source, and a settled copy stays as it
is until the next write. `Outbox` is the code, and is shown to implement it twice:
for the webhook inbox (`HooksFollow`), and for the object store that knows no
versions (`ObjectsFollow`).

| In the module | In the code |
|---|---|
| `runs`, `versions`, `outbox` | rows of `runs`, `delivery_versions`, `outbox` of one scope; a payload is the version its write drew |
| `pc`, `cand`, `seen`, `job`, `body` | a worker inside `Delivery::process_one`: the rows of its SELECT, its time, the `OutboxJob`, the payload it read |
| `net` | requests that may still reach a receiver, with the client's deadline |
| `inbox`, `receipts`, `object` | the packages' webhook inbox; the object of a run in an unversioned store |
| `sweep` | a retention transaction between its SELECTs and its writes |
| `Insert`, `Rotate` | `insert_tx` + `enqueue`; `rotate_encryption` |
| `RetainSelect`, `RetainCommit`, `Retain` | `retain_since`: the two halves under READ COMMITTED, and the whole on SQLite |
| `Select`, `Claim` | `claim_outbox`: the SELECT, then a compare-and-swap per candidate |
| `Read`, `Send`, `Answer`, `Fail` | `deliver` up to, at and after its HTTP request |
| `Acknowledge`, `Retry`, `Release` | the end of `process_one`; `acknowledge` and `retry` compare the lease token |
| `Crash`, `Lose`, `Orphan`, `Tick` | a process dies, a request is lost, one outlives its client, time passes |
| `Receive` (`Accept`, `Store`) | `WebhookInbox.accept`; a PUT or DELETE of one object |
| `Orderly`, `SpecOrderly` | no code: two reservations about callers that the object store needs (section 4) |

### `Vectors`, `EmbeddingQueue`, `VectorSearch`

`Vectors` holds the tables that indexing and searching share, `run_embeddings`
and `vector_generations`, and the transactions that write them. It is extended
by two components: the queue publishes vectors, the search reads them.

| In the module | In the code |
|---|---|
| `runs`, `inserts`, `vectors`, `generation`, `sweep` | rows of one scope; a run is the number of times its id was stored, so that a run exported again after retention is another one |
| `StoreVector`, `RetainSelect`, `RetainCommit` | `put_embedding_tx`, `retain_since` with `bump_vector_generation` |
| `setting`, `jobs`, `now` | `project_embeddings`, `embedding_jobs`, the clock |
| `SaveSettings`, `Insert`, `Reindex` | `set_embedding_settings`, `enqueue_embeddings` within `insert_tx`, `reindex_embeddings` |
| `InsertDuringSave` | the two transactions at once: neither sees the other's rows |
| `Select`, `Claim`, `Read`, `Finish`, `Crash` | `claim_embedding_job`, `Registry::process_one`, `finish_embedding_job`, and the death of a worker |
| `cache`, `permit`, `conns` | `VectorCache.entries`, its build semaphore, the scans that hold a connection |
| `Begin` .. `Respond` | `vector_search_with_mode` statement by statement; `Exact` is `exact_vectors` |
| `Cancel` | axum drops the handler, and with it rows, connection and permit (`Leave`) |

A graph stands for the vectors it was built from: recall and ranking of the
approximate search are left out.

### `BrowserSession`: sessions, token refresh, key cache

| In the module | In the code |
|---|---|
| `sess` | the row of `browser_sessions`: tokens, lease, expiry, last use |
| `grant` | the identity provider: which refresh token is still good |
| `keys` | per process, the `Cache` behind the mutex of `Oidc` |
| `pc`, `tokens`, `tries`, `since` | a request inside `browser::authenticate` |
| `Lookup`, `Resolve`, `Claim`, `Reread`, `Exchange`, `Finish`, `Grant`, `Touch`, `Delete`, `Retry` | its statements, in the order of the code, error paths included |
| `Consult`, `Fetch`, `Judged` | `Oidc::subject_expiry` |
| `Logout`, `Deactivate`, `Restart`, `Cancel`, `Tick` | the logout route, `provision`, a new process, a dropped request, time |

### `BatchExporter`: the Node exporter

| In the module | In the code |
|---|---|
| `queue`, `spoolBytes`, `initialized`, `closed` | the fields of `BatchExporter` |
| `disk` | what the spool holds, and what of it would survive a power failure |
| `calls`, `accepting` | the serialised `export()` calls: `Export`, `Check`, `ReadExisting`, `Rename`, `SyncRename`, `Push`, `Settle` |
| `drain`, `awaited`, `batch`, `attempt`, `unlinked` | `drain()`: `Drain`, `Start`, `Slice`, `Send`, `Unlink`, `SyncUnlink`, `Refill`, `Splice` |
| `recovery`, `files`, `reading` | `recover()`: `List`, `Scan`, `ReadSpooled` |
| `received`, `accepted` | the server's runs; the runs whose `export()` resolved |
| `Flush`, `Shutdown`, `Kill`, `PowerFailure` | `flush()` and its timer, `shutdown()`, the ends of a process |

### `TraceEvidence`, `TraceAssembly`: the OTLP receiver

`TraceEvidence` says what the receiver promises, without transactions, locks or
statements. Requests offer batches; a step that adds spans to a trace adds all of
one offered batch and nothing else (`Accept`), leaves the evidence consistent, and
makes the trace known; what is published is what a trace held when a batch had
joined it; and only spans a trace held for a day without a batch (`stale`) are
forgotten, a known trace only with the last of its spans. `TraceAssembly` is the
code, and is shown to implement it (`Implements`): evidence is the committed spans,
offered the batches the handlers have left to merge (`Offered`), stale the spans of
old traces and those the running expiry deletes (`Stale`), assemblies the rows of
`trace_assemblies`, pending the contents of the handlers between commit and insert.

| In the module | In the code |
|---|---|
| `spans`, `received`, `lock` | `trace_spans`, `trace_assemblies.received_at`, and the row lock that the upsert of an assembly takes |
| `job` | a handler inside `ingest`: its batch per trace, the trace it is at, what `merge_trace` read |
| `Receive`, `Upsert`, `Merge`, `Commit`, `Publish` | `ingest`: normalisation, then per trace `merge_trace` cut where it waits for a lock or commits, and `assemble` + `insert_batch` |
| `Assemble`, `Order`, `Assembles` | `assemble()` breadth first from the roots, and `Run::validate` |
| `ExpireSpans`, `ExpireRows`, `AbortExpiry` | the two DELETEs of `expire_traces` under READ COMMITTED |
| `AbortMerge`, `Crash`, `Age` | a deadlock of merge and expiry, a dead handler, a day without a merge |
| `published`, `owed` | runs inserted from assemblies; traces whose last merge died before its insert |
| `telemetry`, `InsertTelemetry`, `ExpireTelemetry` | `telemetry.rs`: content ids with an occurrence number |

### `Access`: directory, principals, keys, sign-in, quota

| In the module | In the code |
|---|---|
| `users`, `groups` | the SCIM directory document of a scope |
| `PutUser`, `PutGroup`, `DeleteUser`, `DeleteGroup` | create, replace and patch (`UserPatched`, `GroupPatched`), delete of `scim.rs`, each in the transaction of `update_directory` (`Update`) |
| `principals`, `direct`, `Provision` | the rows of `principals`; those that PUT principals wrote last |
| `keys`, `CreateKey`, `RevokeKey` (`Revocable`), `ExpireKey` | managed keys; a key that is revoked is another thing than one that expired |
| `Authenticate`, `UseSession`, `Handle`, `Answer` | `authorize` and the handler behind it, apart: the handler runs with the identity that was read before |
| `logins`, `sessions`, `Consume`, `Resolve`, `CreateSession` | the callback of `browser.rs`: DELETE .. RETURNING, `resolve_subject`, INSERT |
| `quota`, `bucket`, `ReadMinute`, `CountRequest` | `allow_request`: the clock is read, the upsert comes later; `quota` also counts what was allowed and how often a minute's bucket was taken again |

### `Executions`, `Reruns`: runs, branches, comparisons

`Executions` holds runs as values and the algorithms over them as operators: `Valid`,
`Redacted`, `Measure` of `refract-core`, `Fork`, `Preflight`, `Prepared`,
`Completed` of `refract-replay`, `Differences`, `Category`, `Overspent`, `Passed`
of `refract-diff`. An input or output is a JSON value, the set of its leaves with
the path of keys each one is at. `Masked` is `redact()`: it goes by keys, so that
whatever stands under a sensitive key becomes one hidden leaf there and everything
else stays, whatever it says. A binding takes the value at a JSON pointer of an
earlier output (`At`) and puts it under a key of the input, over what was there
(`Inserted`); it is itself an attribute under the key of its target, so one with a
sensitive target is stored hidden (`MaskedBind`), and `preflight` refuses it. An
event has at most one binding, and usage that may be unknown.

| In the module | In the code |
|---|---|
| `store`, `origins` | the runs of a scope; what each branch was made of |
| `Create`, `Retain`, `ForkRun` | POST runs, retention, POST fork |
| `StartRerun`, `Reuse`, `Call`, `Return`, `FinishRerun` | `rerun` of `generation.rs`: load and `preflight`; per step of the suffix `prepare` and `ProviderExecutor`; `complete` and the insert |
| `StartComparison`, `Load`, `Report`, `Answer` | `diff` and `evaluate` of `lib.rs`: the check that the runs exist, a pair at a time, the sum |
| `Ask`, `Verdict`, `Ungraded` | `Registry::compare`: a model's verdict on each changed pair of outputs |
| `permits`, `Dropped`, `Abort` | the semaphore of `Registry`; errors, deadlines and abandoned requests |

`Sums` adds up a number per element, for the byte budgets of the exporter and of the
search cache. `MC*` modules instantiate these for TLC; `*Proofs` hold the theorems. In the
component modules, a definition commented "Fault" is a plausible bug of the
definition that follows it. No action uses a fault: `PROJECT.json` names, for
each property, the fault that breaks it.

## 3. Runs: what is checked

Twelve runs; each checks the properties its cfg names, on the instance the cfg
gives. State counts are those of TLC's distinct states, where they exceed a
few thousand.

| Run | Question | Instance |
|---|---|---|
| `outbox_webhook` | Does the inbox end as the database does (`WebhookMirror`) when a worker stalls beyond its lease, dies, and leaves late requests behind, and does it move to later versions only (`HooksFollow`)? | one run, one worker, READ COMMITTED retention, re-insertion, lease 1, clock 2, three versions |
| `outbox_objects` | Do two workers never hold one delivery (`LeaseExclusive`), does the object end as the run does (`ObjectMirror`) and stay so (`ObjectsFollow`)? | one run, two workers, lease 3 > stall 1 + timeout 1, clock 6, three versions, retention as on SQLite, `SpecOrderly`; 542 thousand states |
| `outbox_live` | Is every delivery acknowledged for good once the failures stop, but for the one row that is refused (`EventuallyDelivered`)? | one run, the webhook, one worker, four versions, the run exported, rotated, retained and exported again and failures until second 2, clock 9; 1.3 million states |
| `embedding_serial` | Are published vectors those of the stored run (`FreshVectors`), of an enabled model (`RetiredJobsSilent`), each with a generation of its own (`GenerationsAdvance`)? | one run stored twice, two models, two workers, SQLite |
| `embedding_live` | Is the job of every stored run settled in the end (`Indexed`), although a schedule may be missed by overlapping transactions? | one run stored twice, one worker, READ COMMITTED, failures until second 2 |
| `vector_search` | Is every answer current (`AnswersCurrent`), the cache sound and within its budget (`CacheSound`, `CacheBudget`), and does every search return with one connection and one permit (`SearchesReturn`)? | two runs, two searches, one connection, a budget of one vector |
| `browser_session` | Is a good session kept (`SessionKept`), does an ended one stay ended (`NoResurrection`), is every request answered (`RequestsReturn`)? | two requests of one process, one failure, lease 2, clock 3; 455 thousand states |
| `exporter` | Do accepted runs survive (`AcceptedSurvives`), do queue and spool keep their limits (`QueueBounded`, `SpoolBounded`), is a backlog drained (`BacklogDrained`), does shutdown return (`ShutdownReturns`)? | three runs of sizes 2, 1, 1, a queue of one entry, a batch of two, two calls, one failure; 351 thousand states |
| `exporter_wedged` | Violation: a run queued twice ends every drain | three runs, batches of one, a server that always stores |
| `trace_assembly` | Does the receiver implement `TraceEvidence` (`Implements`)? Does what is stored always assemble (`NoPoisonedTrace`), has every span its assembly (`NoOrphanSpans`), is what is stored published (`StoredIsPublished`), does telemetry sent again count once (`TelemetryCountedOnce`)? | two handlers, two traces in a tenant that may hold one, three span ids, two spans a trace may hold; exports that join, conflict, close a cycle, overflow or are invalid; 895 thousand states |
| `access` | Do directories stay directories (`DirectoryIntact`) and principals follow them (`PrincipalsFollowDirectory`)? Is a session of its subject's scope, and one per login (`SessionsInScope`)? Does nothing cross scopes (`ScopesApart`)? Does the quota hold (`QuotaPerMinute`)? | two scopes with an administrator key each and one more to issue and revoke, two subjects, two users, one group, two requests; limit 1, four minutes, three counted requests; 537 thousand states |
| `reruns` | Is what is stored valid and redacted (`StoredNormal`)? Are branches faithful to the run that was read (`BranchesFaithful`)? Is everything after a provider call allowed before it (`LiveCallsApproved`)? Do comparisons fail closed (`ReportsFailClosed`)? Do permits come back (`PermitsReturned`)? | two requests, one permit; under one id in turn, runs bound to a whole output, to a text and to a secret, one with a binding that redaction hides, one with a blocked step; an invalid one; two branches; 431 thousand states |

What each property says, precisely and with the code it is about, stands in the
comment before its definition. The type invariants are proved for every instance;
the runs check those of `Outbox` and `BatchExporter` besides, in which something may
overflow.

What the properties are worth is checked too: for each one, `PROJECT.json` names
a mutant of a definition of the code (a dropped comparison of tokens, a bump
that is forgotten, a capacity read too early, a missing recovery after a batch)
under which TLC finds it violated in the same run.

## 4. Bounds, fairness and assumptions

### Bounds

* **Time.** Clocks end at `MaxTime`. Leases, timeouts and delays are scaled to
  one to three seconds, in the order they have in the code (stall + timeout <
  lease where the code relies on it, stall beyond the lease where it must not).
  `MaxTime` leaves room for a lease to run out after a failure and for the next
  claim to run out once more, or, in the liveness runs, is never reached.
* **Versions and inserts.** `MaxVersion` is three: a payload, the tombstone or the
  payload that replaces it, and the one after that, so that a run is stored,
  rotated or retained, and stored again; it is four in `outbox_live`, so that a run
  that was exported again is retained again. `MaxInserts` is one or two. The
  doubling of the retry delay is clamped in the code at an attempt that no instance
  reaches.
* **Generations.** `MaxGeneration` (2 to 4) exceeds by one what the cache can hold
  against, so that a stale graph, a current one and one in between exist.
* **Actors.** Two workers, searches or requests suffice for a lost race, since
  every comparison is between one and the row; a third would lose as the second
  does. The exporter has two calls (one in progress, one waiting) and three runs,
  one more than a batch and than the spool can hold.
* **Traces.** Three spans and two per trace suffice for a parent that comes late, one
  that never comes, a conflict, a cycle closed by two batches, and an overflow.
  One trace of the two exceeds the tenant's capacity, so every export that
  touches both meets the refusal half way. `Apart` explores telemetry beside a
  receiver without traces: they share no row and no lock. `Brief` ends a history
  with the fourth content that is published.
* **Access.** One group whose name maps to a role or not, and users in it or not,
  give every rank; four minutes are one more than the bucket's retention. The
  quota is explored beside a service nobody administers, and the key of the second
  scope beside one without directories and logins (`SecondKey`): they share no row
  with the rest. The role mapping is never empty, so the case of section 6 in which
  nothing is mapped is not explored.
* **Executions.** A suffix of two generations around a step with effects, one bound
  to the other: the shortest in which a step may be forbidden after a call, and
  a binding differ from the recorded value. The other step is bound to a secret, to a
  text, or hidden: one pointer through a sensitive key, one that is harmless, one
  sensitive target. One request executes while the
  other compares; two of a kind share nothing but permits, of which there is one.
  The runs with the secret and the hidden binding are executed but not compared
  (`Sole`). Branch ids are taken in turn, since they are interchangeable. By
  simplification an event has one binding at most, the model of a generation is a
  field of its own although the code also writes it into the input, usage counters
  whose key contains "token" are not sensitive (the code exempts the numeric ones),
  and empty objects have no leaf.
* **Failures.** `MaxFailures` = 1 kill, power failure, cancelled request or failed
  call. The theorems of section 5 have no such bound.
* The claim's `LIMIT 10` (outbox) and `LIMIT 16` (embedding) are left out: the
  instances have fewer rows, and any row of a SELECT may be tried first.

### Fairness

* Outbox and embeddings: a worker's step is weakly fair, since `serve` loops for
  ever and a process that died is started again; so are the repair sweep (every
  minute) and the commit of a sweep that began. After `CalmFrom` nobody dies,
  receivers and providers answer (an embedding may still fail at every attempt),
  and the clock moves only while somebody waits for it: the loops poll far below
  the other delays. The clock itself does not stop before `CalmFrom`.
* Search: statements, connections and the permit are granted in order of arrival
  (tokio's semaphore and sqlx's pool are fair queues), so a step that is enabled
  again and again is taken: strong fairness.
* Sessions: a handler runs until it returns: weak fairness of each request's
  steps, under the bounded `for` loop of `authenticate`.
* Exporter: disk operations and requests end (the request has a timeout), and
  the flush timer fires: weak fairness of export, recovery, drain and timer.
* `TraceAssembly`, `Access` and `Reruns` state safety only: their handlers have no
  loop that waits for another, and their requests may always end with an error.

### Assumptions

* One scope stands for all, except in `Access`, which is about scopes: rows of two
  scopes never meet but that a claim chooses among the due rows of every scope,
  which changes only the order.
* Database transactions commit or leave no trace. Where the code relies on
  SQLite, `Serial` and `AtomicRetention` say so: one connection serves a process, and
  of two processes the one that read before the other committed cannot upgrade to a
  write, fails and is rolled back. The runs
  under READ COMMITTED show the weaker promise that is kept (`embedding_live`,
  `outbox_webhook`). `vector_search` is checked for one connection. Under READ
  COMMITTED `GenerationsAdvance` and `AnswersCurrent` do not hold: retention
  selects a run's models before it deletes its vectors, and a vector stored
  between the two statements vanishes without a bump. `FreshVectors` holds
  either way, and is proved so.
* `outbox_objects`: a live worker stalls less than its lease minus the HTTP
  timeout (120 and 30 seconds in the code), and an object store does not
  apply a request its client gave up on. A webhook inbox needs neither. And the
  store's callers are `Orderly`, since an object store cannot compare versions and
  no guard of `insert_tx` or `retain_since` looks for these cases: a run is exported
  again only after the delete of its retained namesake was delivered (else put and
  delete rows of one run are delivered in no particular order), and it is not
  retained while a PUT is under way that a rotation has overtaken (section 6).
  Without either, TLC finds the object wrong for good. The documentation promises
  no order for the first; `hazards` lists it without a property. Nor is
  `AtomicRetention` kept on PostgreSQL: there a claim may commit between the two
  statements of `retain_since`, and TLC finds the object of a retained run left for
  good (section 6). What is checked and proved of the object store is its promise on
  SQLite.
* `outbox_live`: until second 2 anything may fail; afterwards the receiver accepts
  what it does not refuse. It refuses one row, the delete of a run that was exported
  again once its answer was lost (`Refused`, section 6); `EventuallyDelivered`
  excepts exactly that row, while the run is stored.
* Sessions: a request takes less time from its claim to its last write than a
  lease lasts (`MaxHold` < `Lease`; the calls it awaits time out in 15 seconds
  together, the lease is 30). `HoldAssumption` adds that it takes less than a
  token lives and no more than the margins of expiry. One session; a sign-in before; the subject is not
  enabled again; the clock ends before the seven days do.
* Exporter: durable spool; of the disk operations only the unlink of a missing
  file fails; a run is exported with one content; a power failure only in a
  history without kills, since recovery does not sync what a killed process
  renamed (`hazards` lists it).

## 5. Proofs

The theorems hold for every value of the constants that satisfies the named
assumptions of the modules: any number of runs, workers, requests, models,
versions, failures, any lease, delay and limit. They need none of section 4's
bounds.

| Theorem | Says | Inductive invariant |
|---|---|---|
| `OutboxProofs!TypeCorrect` | `TypeOK` of `Outbox` | with `JobKeys` and `Awaited`: an awaited request is the one its worker sent for its job |
| `OutboxProofs!LeaseFencing` | `LeaseExclusive` | `LeaseInv`: versions are bounded by their counter (`Bounded`), so a row that is enqueued anew has a version nobody holds; while a claim is unexpired, its row carries its token and deadline or was replaced (`Leased`) |
| `OutboxProofs!WebhookMirrors` | `WebhookMirror`, whatever is lost, late or repeated | `MirrorInv`: whatever carries the version drawn last (a row, a job, a request, the inbox) is of the operation and the payload the database holds (`Newest`), and a receipt means an inbox that is no older |
| `OutboxProofs!ObjectsMirror` | `ObjectMirror`, under `SpecOrderly`, given atomic retention and a lease above stall and timeout | `ObjectInv`: the row of a run is not due while a request of it may still be served, and is leased unless it was replaced (`Fenced`, of what is about to be sent as well as of what is on its way: `Engaged`); who owns the row is the only one under way, and has its answer when the object is right (`Owners`); a run without a row is delivered (`Delivered`) |
| `OutboxProofs!HooksAreFollowed` | `HooksFollow`: every behaviour of `Outbox` is one of `DeliveryMirror` for the webhook | `MirrorInv`; insert, rotation and retention are Write, `Accept` of a newer version is Deliver, `Acknowledge` of the current row is Settle, everything else stutters |
| `OutboxProofs!ObjectsAreFollowed` | `ObjectsFollow`, under the conditions of `ObjectsMirror` | `ObjectInv`; `Store` is Deliver |
| `EmbeddingQueueProofs!TypeCorrect` | `TypeOK` of `EmbeddingQueue` | with `Holding` |
| `EmbeddingQueueProofs!VectorsFresh` | `FreshVectors`, overlapping transactions or not | `FreshInv`: job rows belong to stored runs (`JobsStored`), and while a row carries the token a worker holds, the run is the one the worker read (`Fenced`) |
| `EmbeddingQueueProofs!RetiredSilent` | `RetiredJobsSilent`, without overlaps | `FreshInv`: the jobs are those of the settings in force (`Enabled`) |
| `EmbeddingQueueProofs!GenerationsAdvanced` | `GenerationsAdvance`, without overlaps | the same |
| `VectorSearchProofs!SearchTypeCorrect` | `TypeOK` of `VectorSearch` | with the types of queries and graphs in use |
| `VectorSearchProofs!CachedGraphsSound` | `CacheSound`, without overlaps | `SoundInv`: whatever carries a generation, in the cache or in a request's hands, is of the past or is the table (`Valid`); a request scans after it read the generation |
| `VectorSearchProofs!AnswersAreCurrent` | `AnswersCurrent`, without overlaps | the same |
| `VectorSearchProofs!CacheWithinBudget` | `CacheBudget` | `BudgetInv`: the cache holds a graph per namespace, within the budget; laws of `Total` when entries are removed and appended |
| `BrowserSessionProofs!SessionTypeCorrect` | `TypeOK` of `BrowserSession` | itself |
| `BrowserSessionProofs!EndedSessionsStayGone` | `NoResurrection` | with `Gone`: a row that is gone is empty, so no UPDATE of it has an effect |
| `BrowserSessionProofs!GoodSessionsKept` | `SessionKept`, given `HoldAssumption` | `KeptInv`: whoever refreshes holds the lease until it is done (`Leased`), the stored refresh token is the provider's last one unless a request is about to store it (`Unspent`), and a token outlasts the request that got it (`Lasting`) |
| `BatchExporterProofs!QueueLimit` | `QueueBounded` | `QueueInv`: the queue, the call past its check and the file being read are one more than the limit together |
| `BatchExporterProofs!AcceptedRunsSurvive` | `AcceptedSurvives` | `DurableInv`: only what the server stored is unlinked (`BatchInv`), what a process knows of is safe (`KnownInv`), and before any kill the only unsynced file is that of the oldest call (`SyncedInv`, `SureInv`) |
| `BatchExporterProofs!BacklogsDrained` | `BacklogDrained`, where every snapshot has room in an empty queue (`EveryRunFits`) | `BacklogInv`: an initialized process recovers inside its drain only (`PhaseInv`), and an empty queue that nobody refills stands for an empty spool (`LeftInv`) |
| `BatchExporterProofs!SpoolLimit` | `SpoolBounded` | `SpoolInv`: the bytes on disk and those of files just deleted are never more than `spoolBytes` and the file of the oldest call together, for which there is room (`ChargeInv`). A batch is the front of the queue (`FrontInv`), a call past its check writes a file that the queue names at most once (`OnceInv`), and no run is unlinked twice in one batch (`ApartInv`): else a byte would be freed twice |
| `BatchExporterProofs!ExporterTypeCorrect` | `TypeOK` of `BatchExporter` | with `RestType`; that `spoolBytes` stays a natural number is `ChargeInv` |
| `TraceAssemblyProofs!TraceTypeCorrect` | `TypeOK` of `TraceAssembly` | `Types`: with the batches of a handler inside the traces its export names |
| `TraceAssemblyProofs!SpansHaveAssemblies` | `NoOrphanSpans` | `IInv`: a lock belongs to the one handler inside a merge of the trace (`Locked`), what that handler read is what is stored (`SeenAll`), and a trace the expiry took for old and that still is old has no spans but the deleted ones (`Doomed`) |
| `TraceAssemblyProofs!ReceiverImplements` | `Implements`: every behaviour of the receiver is one of `TraceEvidence`, with whole batches and a day's grace | the same, of which `SeenAll` makes the merged set the stored one and the handler's batch; `Receive` is Request, `Commit` is Accept of the batch the handler offers, `Publish` is Publish or Lose, a crash is Lose or the end of a request, `Age` is Age, the expiry ends in Forget or, when it is rolled back, in Spare, everything else stutters |
| `TraceAssemblyProofs!TracesAssemble` | `NoPoisonedTrace`, for traces of any size | `Sound`: merge and expiry keep one content per id and no cycle; of such a set the breadth-first search reaches every span, once and behind its parent |
| `TraceAssemblyProofs!TracesPublished` | `StoredIsPublished` | `Covered`: what a trace holds is published, in the hands of a handler that will insert it, or owed by a dead one |
| `TraceAssemblyProofs!TelemetryOnce` | `TelemetryCountedOnce` | `TelemetryInv`: what was delivered has all its rows, and every row, a content with its occurrence number, is of some export |
| `AccessProofs!DirectoriesIntact` | `DirectoryIntact` | `IInv`: the shapes of rows and requests (`Rows`, `Known`), and `Directories`: members are users, subjects and names unique |
| `AccessProofs!BindingsFollow` | `PrincipalsFollowDirectory` | with `Bound`: the subjects of a directory are principals of its scope |
| `AccessProofs!SessionsKeepScope` | `SessionsInScope` | with `SignIns`: a consumed login belongs to one request or one session, whose subject has its scope |
| `AccessProofs!ScopesStayApart` | `ScopesApart`: a principal's row, a key that is issued and a key that is revoked change only by a request of an administrator of their scope; no row changes scope, no key its role, and no key comes back | `Known` |
| `AccessProofs!QuotaHolds` | `QuotaPerMinute` | `Counts`: what a minute was allowed beyond its earlier visits is what the bucket counts, while it has the bucket |
| `RerunsProofs!StoredRunsNormal` | `StoredNormal`: valid, and nothing but the mask under a sensitive key | `IInv`: what is stored is normal (`StoreOK`), and a branch in the making follows its run, event by event (`JobOK`, `Follows`) |
| `RerunsProofs!CallsAreApproved` | `LiveCallsApproved` | the same: the run in a rerun's hands is one whose whole suffix is allowed |
| `RerunsProofs!ComparisonsFailClosed` | `ReportsFailClosed` | the same: a case that passed was complete (`Compared`) |
| `RerunsProofs!BranchesStayFaithful` | `BranchesFaithful` | with `Made`: the record of what each branch was made of agrees with the branch, also when another run has the old id by now. Looking at a path and masking commute where the path passes no sensitive key (`AtMasked`), and an insertion moves nothing outside its key (`InsertedIs`), so the stored input shows under the key what the stored output shows at the pointer |
| `RerunsProofs!PermitsComeBack` | `PermitsReturned` | with `PermitsKept`: free permits and requests inside a call are `Permits` together |

The laws of the shared vector tables (every transaction keeps the contract of the
generations) are lemmas, of `EmbeddingQueueProofs` and of `VectorSearchProofs`.
Lemmas on the algorithms come first in `RerunsProofs`: masking twice is masking
once (`MaskedTwice`), masking commutes with looking at a path and with leaving out a
key (`AtMasked`, `OutsideMasked`), what an insertion leaves (`InsertedIs`), a fork
has the prefix of its run, what `preflight` refuses.

Induction over data is done first-order. `Total` of `Sums` is the number of pairs of an
element and a unit of its weight, so its laws are those of finite cardinalities.
The breadth-first order of an assembly is a recursive function that is unfolded step
by step, and what holds of every step follows from the least number at which
it would not.

Three hypotheses of the theorems bound what is finite anyway: the runs of the exporter
and of the search (`ExporterAssumption`, `SearchAssumption`), and the span ids of a
receiver (`TraceConstants`).

**Only model-checked.** The liveness properties (`EventuallyDelivered`, `Indexed`,
`SearchesReturn`, `RequestsReturn`, `ShutdownReturns`): fairness is beyond the
prover. Every invariant, action property and refinement that a passing run checks
is a theorem.

## 6. Where code and documentation disagree

One disagreement has a run that expects the violation; `findings` in
`PROJECT.json` quotes the lines.

* **A run queued twice wedges the exporter** (`exporter_wedged`). A recovery
  between rename and push of an export queues its run a second time; the unlink
  of the second entry fails, and every later drain ends there.

The models follow the code where the documentation says otherwise. These were met
while modelling and have no run of their own:

* service-controls.md:203 says that retention waits for an in-flight PUT lease before
  it schedules the deletion. In two cases it does not. Under READ COMMITTED a claim
  may commit between the SELECT of the leases (`lib.rs:459`) and the DELETE of the
  rows (`lib.rs:463`), and `rotate_encryption` (`rotation.rs:73`) clears the token of
  a leased row, so that `retain_since` sees no lease; either way the delete is due at
  once, beside a PUT in flight. The project therefore states no such property. In
  both cases the object may end wrong for good: TLC finds `ObjectMirror` violated
  without `AtomicRetention`, and without the second reservation of `Orderly`.
* production.md:131 promises delivery at least once. `deliver` (`delivery.rs:187-203`)
  puts what the run holds now into every envelope, also that of a delete. When the
  answer to a delete delivery is lost and the run is exported again, the retry has
  another content under the same delivery id, which the inbox refuses
  (`delivery.py:90`) for as long as the run is stored. `EventuallyDelivered` excepts
  that row.
* Redaction goes by keys, and a binding moves a value to another key
  (`execute.rs:120-132`): what a provider put out under a sensitive key, bound by a
  pointer under a harmless one, is stored as it is. `StoredNormal` says what is kept,
  that nothing but the mask stands under a sensitive key, and `BranchesFaithful`
  compares a bound input with the stored output only where the pointer passes no
  sensitive key.
* A snapshot stored while the settings are saved is scheduled under the old ones
  (`InsertDuringSave`, PostgreSQL), and the completion compares the job only with
  itself: vectors of a model that was disabled meanwhile are published, while
  search.md says that disabling cancels pending work. `RetiredJobsSilent` holds
  where transactions do not overlap.
* `authenticate` deletes the session for any error of `subject_expiry`
  (`browser.rs:372`); after a restart the key cache is empty, and an attempt that
  failed counts as fresh for 30 seconds (`oidc.rs:87`). service-controls.md says
  that sessions survive server restarts. `SessionKept` is stated for histories
  in which nothing failed.
* service-controls.md says that without group mappings active users receive reader
  access; `scim.rs` gives a user who is in some group, none of them mapped, no
  role, and disables the principal. `Rank` in `Access` follows the code.
* `controls.rs:41` calls the quota an atomic fixed-minute quota of all replicas. A
  request that counts in another minute resets the bucket, so a replica whose
  clock is behind, or a request delayed across the minute, lets the limit be
  used again. `QuotaPerMinute` counts those returns.
* `otel.rs` refuses a trace that would exceed the tenant's capacity, but two writers
  that begin traces at once do not count each other: the capacity is a soft one.
* An assembly refreshed by a merge while `expire_traces` is between its DELETEs keeps
  its row and loses its old spans; `TraceEvidence` allows that, as Forget of what was
  stale, and no other loss.
* After its retention a run id may be stored again, so the lineage of an older
  branch may name an unrelated run; `BranchesFaithful` compares with the run that
  was read.

## 7. Not modelled

`components` in `PROJECT.json` lists every part with its status. Left out for good:
cryptography and byte formats (encryption, artifacts, signatures), PostgreSQL row
security (a property of the database's policies), JSON conversions between
formats and providers, redaction by regular expressions, word overlap of the
comparison, the command line, the clients, the MCP server and the viewer, which
keep no state across a call. Inside the modelled parts: distances and ranking,
what a payload says, headers and status codes beyond success and failure,
logging and audit rows, the modes of the Node exporter without a durable spool,
and its temporary files: one that a kill leaves behind is renamed by nobody and
counts toward no limit (`exporter.ts:226-234`). `Reruns` follows the server; the second implementation
of forks and reruns in the Python package is not modelled. A diff loads its
pair once, while `Reruns` checks that both runs exist and loads them after: a
superset of what the code does.

Not modelled yet: the Python exporter and the recording libraries.

## 8. Plan

Done: `DeliveryMirror` and `Outbox` with their refinements, `Vectors`, `EmbeddingQueue`, `VectorSearch`, `BrowserSession`,
`BatchExporter`, `TraceEvidence` and `TraceAssembly` with their refinement,
`Access`, `Executions`, `Reruns`, their runs and the theorems of section 5. Left:

1. **`PythonExporter`** (`exporter.py`): caller and worker thread, recovery, close;
   the same promises as `BatchExporter`, and the head of the spool that is
   refused for ever.
2. **`Capture`** (`instrumentation.py`, `instrumentation.ts`): the state machine
   of a captured call and its stream.
3. A specification of what an index promises, which `EmbeddingQueue` and
   `VectorSearch` implement together.
