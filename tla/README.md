# TLA+ models of marketplace-pipeline

Specifications of the marketplace pipeline (`src/src/marketplace_pipeline`): a
service that takes pipeline jobs over HTTP, collects the products of an Ozon
category, lets a language model sort them into price segments, creates AmoCRM
tasks for the extremes, and saves the result. The modules say what the code
does, TLC checks what follows from that on small instances, and TLAPS proves
every safety property that the passing runs check, for every instance (section 4).

Paths below are relative to `src/src/marketplace_pipeline` unless they begin
with `src/`.

## 1. The system

| Component | State | Operations | Talks to |
|---|---|---|---|
| Job submission: `interfaces/api/routes/jobs.py`, `application/use_cases/pipeline_jobs.py` | the Idempotency-Key store (in the process, or Redis), with a TTL | `POST /pipeline/jobs`, `GET` of a job | job table, key store, runner, counters |
| Job execution: `services/pipeline_job_runner.py`, `celery_job_runner.py`, `pipeline_job_executor.py`, `workers/` | the pool's queue, or the broker's queue and its unacknowledged messages | submit, take, execute, acknowledge, shutdown | job table, pipeline run, counters |
| Job table: `persistence/sqlite_job_repository.py`, `postgres_job_repository.py` | one row per job | create, get, update (all columns), list | |
| Counters: `observability/metrics.py` | submitted, completed, failed; in the process or in Redis | one increment per event | |
| Pipeline run: `application/use_cases/run_pipeline.py` | none of its own | collect, classify, create tasks, save | collector, classifier, gateway, output |
| Ozon collector: `parsers/ozon_collector.py`, `http/ozon_http.py` | page, products; a client, fingerprint and warm-up mark per proxy | collect, attempts, proxy rotation | Ozon, proxies |
| Classifier and selection: `llm/openai_classifier.py`, `product_selection_service.py`, `crm_task_factory.py` | segments of the batches | classify, top premium, top economy, build tasks | language model |
| CRM gateway: `crm/amocrm_gateway.py`, `idempotency_policy.py`, `http/http_client.py` | none of its own | create_task: look up, search, post, record | record store, AmoCRM |
| Record store: `crm/file_idempotency_store.py`, `redis_idempotency_store.py` | key to task id, in a JSON file or in Redis | get, put, save | file system or Redis |
| Output: `json_enriched_product_repository.py`, `postgres_enriched_product_repository.py` | `enriched_products.json`, or rows | save | file system or PostgreSQL |
| Rate limiter: `middleware/rate_limit.py`, `rate_limit/redis_sliding_window.py` | hits per client address, in the process or in Redis | allow | Redis |
| Request path: `api/app.py`, `middleware/auth.py`, `pipeline_prerequisites.py`, `proxy_prerequisites.py`, `proxy_market_quota_checker.py` | none of its own | authenticate, limit, check credentials, check traffic and balance | proxy.market, limiter, submission |
| Health: `routes/health.py`, `lifecycle.py` | none of its own | `/ready`, start-up | job table, data directory, Redis |
| Settings, CLI, logging, tracing, migrations | little or none | see PROJECT.json | |

Who runs concurrently with whom decides most of what is modelled:

- `create_job` is an `async def` that never awaits, so one API process serves
  one POST at a time; several processes serve several.
- What a POST calls is synchronous too, so the event loop is in one handler at
  a time; but services fail and recover between any two of its calls, and
  between a probe of `/ready` and the next POST.
- In a single-node deployment jobs run in a pool of threads of the API process;
  its queue is in memory. In the scaled one (`docs/SCALE.md`) they run in Celery
  workers with `task_acks_late`, and keys and counters are in Redis.
- Every pipeline run builds its own collector, gateway and file store object
  over the same files, the same AmoCRM account and the same Redis.

What is hard here: two replicas with one key; a store call that raises between
two others; a process that dies with work in memory; a message that is
delivered twice; a stale copy of a row written back; an AmoCRM task that exists
although the call failed; a list that moves while it is paged through; a file
that several processes read, change and replace; sessions that are dropped in
part; clocks that differ. The hazards of PROJECT.json name each at its line,
with the properties that cover it or the reason why none does.

What makes each component correct:

- submission: no job is handed on before it is stored; a retry gets the job of
  its key; all answers for a key agree; a refused request leaves nothing behind;
- execution: jobs follow pending, running, completed or failed; the columns of
  a row agree with its status; no accepted job is left behind but by a failure
  that takes it away; nothing but a redelivery runs a job again; counters count
  jobs;
- readiness: a ready process serves, unless something fails meanwhile, and one
  whose services work becomes ready again;
- CRM: one task per key as far as the search can see; a record or an outcome
  names a task with the right text; every run ends;
- record store: behaves like one atomic map although it is a file;
- collector: sessions hang together, it gives up only after every proxy had its attempts, it ends, and it
  is "exhausted" only when it has everything;
- classifier: batches do not influence each other; tasks list the extremes;
- limiter: never more than the limit in a window, no needless denial.

## 2. Modules

| Module | Models | Used by |
|---|---|---|
| `JobLifecycle` | the abstract life cycle that a polling client sees | refined by `JobService` |
| `JobService` | submission, execution, job table, counters | `JobLosses` |
| `JobLosses` | `JobService` with a history of the jobs that a failure takes away | `MCJobService`, `JobServiceProofs` |
| `JobServiceProofs` | theorems about `JobService`, `JobLosses` and the refinement of `JobLifecycle` | |
| `KeyValueStore` | the abstract record store | refined by `FileIdempotencyStore` |
| `AtomicFile` | `atomic_write_text` on a file system with inodes | the next two |
| `FileIdempotencyStore` | the JSON file of records with its lock | `MCFileIdempotencyStore`, `FileStoreProofs` |
| `FileStoreProofs` | theorems about the file store and the refinement of `KeyValueStore` | |
| `EnrichedOutput` | savers of `enriched_products.json` | `MCEnrichedOutput` |
| `CrmGateway` | `create_task` | `CrmDuplicates`, `PipelineRun` |
| `CrmDuplicates` | `CrmGateway` with a history of the tasks that a call ought to find | `MCCrmGateway`, `CrmGatewayProofs` |
| `CrmGatewayProofs` | theorems about `CrmGateway` and `CrmDuplicates` | `PipelineRunProofs` |
| `PipelineRun` | `RunPipelineUseCase.execute`, composed with `CrmGateway` | `MCPipelineRun`, `PipelineRunProofs` |
| `PipelineRunProofs` | theorems about runs, from those about their calls | |
| `OzonCollector` | `collect` and its HTTP client | `MCOzonCollector`, `OzonCollectorProofs` |
| `OzonCollectorProofs` | theorems about proxies, sessions and what was collected | |
| `Enrichment` | classification and task building | `MCEnrichment`, `EnrichmentProofs` |
| `EnrichmentProofs` | theorems about the classification and the selection | |
| `RateLimiter` | both limiters | `MCRateLimiter`, `RateLimiterProofs` |
| `RateLimiterProofs` | theorems about both limiters | |
| `ProxyQuota` | what the proxy.market check concludes from packages and balance | `ApiFront` |
| `ApiFront` | the path of a request, which services it needs, `/ready`, start-up | `MCApiFront`, `ApiFrontProofs` |
| `ApiFrontProofs` | theorems about the request path, the quota check and `/ready` | |

PROJECT.json maps each definition to the lines it models. A definition that
begins with a comment "Mutant:" is a plausible bug; TLC finds the property that
it is meant for violated when the bug takes the place of the definition after it.

### JobService

| Variable | Code |
|---|---|
| `row` | `pipeline_jobs`; a row is its status and the set of nullable columns that hold a value |
| `idem` | the key store, per process (`MemoryJobIdempotencyStore`) or at `Shared` (Redis) |
| `queue`, `unacked`, `redeliveries` | the executor's queue or the broker, and late acknowledgement |
| `metrics` | `MetricsRegistry`, per process or in Redis |
| `phase` | lifespan: up, or in `runner.shutdown()` |
| `req`, `wk` | the local variables and program counter of a POST and of an execution |
| `answers`, and `promised` in `req` | history variables that only properties read |

One action is one call to a store, since other processes and threads run between
two calls: `GetKey` and `LoadHolder` (`_resolve_idempotent`, twice), `Reserve`,
`CreateRow`, `Enqueue`, `CountSubmitted`, `Reply`; `Take`, `Fetch`, `Start`,
`RunPipeline`, `Finish`, `Notify`, `Ack`. Each call may raise (`RequestFails`,
`ExecutionFails`), processes may die (`Crash`, `WorkerCrash`, `ChildLost`), the
broker may deliver again (`VisibilityTimeout`), keys may expire (`Expire`), and
a process may shut down gracefully (`BeginShutdown`, `EndShutdown`). `Faults`
says which calls may raise in an instance, and whether keys expire there. The
executor keeps the copy of the row that it fetched and writes all of it, as the
full-row UPDATE does.

`JobLosses` adds one history variable, `lost`. The code has no recovery: a
request that fails between INSERT and enqueue, an executor that leaves by an
exception, a child that is lost and a process that dies with work in memory each
leave a job pending or running for ever. Each of these failures adds just the
jobs that it takes away to `lost`; every other step must keep the jobs that it
has. So the properties can be checked with all faults on, instead of only
without them, and say which jobs are left behind: for a graceful shutdown none,
for a dying Celery worker none but those whose message had already gone to
another worker.

### ApiFront

| Variable | Code |
|---|---|
| `settings` | `Settings`, as far as it decides which service is called for what |
| `up` | the services that work now: PostgreSQL, Redis, the broker, and the data directory (which holds the SQLite file, as `JOB_DB_PATH` has it by default) |
| `table` | the `pipeline_jobs` table: no file, a database without it, or there |
| `at` | the coroutine that the event loop is in, with its local variables and what its request brought (`input`) |
| `effects`, `answer`, `told` | what the last request left behind, its status, the last status of `/ready` |
| `calm` | history: nothing has failed since that probe began |

A request is authenticated, limited, and is then a GET, which reads the table
(`ListJobs`, `GetJob`), or a POST: `Credentials`, `Packages`, `Balance`,
`ReserveKey` or `Replay`, `InsertRow`, `Enqueue`, `CountAndReply`. What a client
sends is plain or one of the other `Inputs`: an API key that is not ASCII, a
limit that is no integer, negative or too large, an id with a NUL; only the limit
that is no integer is refused before something raises. Which service a step needs follows from
the factories: `Limiter`, `KeyStore`, `JobTable`, `Broker`, `Counters`. If it is
down the step ends in a 500, since nothing between the handler and the client
catches its error; only the quota check passes over an error of its API. `/ready`
is `PingDb`, `CheckDir`, `Conclude`, which asks Redis where `_needs_redis` says
so. `ProxyQuota` is the arithmetic of `check_quota_available`, over sequences of
packages. What `JobService` does in the same handler with keys, rows and queues
is reduced here to whether it comes off.

### CRM, files and runs

`CrmGateway` has one action per request: the store's `get`, each page of the
marker search, the POST with its tenacity retries, `put`, `save`. AmoCRM is a
list of tasks, newest change first, that others extend and reorder.
`CrmDuplicates` adds the history `known`: per call, the ids of the tasks with its
key that AmoCRM had within the pages of the search when the call began, and that
have neither been edited nor left these pages since. A duplicate is avoidable if
such a task exists when the call posts. `Keys` stand
for a title and description; the hash that the code takes of them is assumed to
tell them apart.

`AtomicFile` has paths that name inodes, and files that are written in pieces:
a writer that opens the temporary name truncates what is there, `os.replace`
moves the name. `FileIdempotencyStore` adds the process lock, `flock`, the
cached snapshot and the reload under the lock, and readers that take no lock.

`PipelineRun` runs collect, classify, one `create_task` per task, save; the
steps of the gateway are those of the `CrmGateway` instance on the same
variables, so that a run can fail between any two requests.

### Collector, enrichment, limiter

`OzonCollector` keeps what `OzonHttpClient` keeps per proxy (client,
fingerprint, warm-up mark), the proxy index, which runs on from page to page,
and the history `tried` of attempts per proxy on this page. `Enrichment` chooses
any product list without repeated ids and any answer of the model to each batch.
`RateLimiter` keeps hits by age: a tick makes all of them older, and ages stop
to matter beyond the window, so that time goes on for ever in a finite model.

## 3. Runs

Twelve runs, of which the longest, `runs_in_turn`, takes two minutes on two cores.

| Run | Shows | Bounds |
|---|---|---|
| `thread_faults` | single node, every call may raise and the process may die or shut down at any step: types, answers that name the holder of their key, stored jobs, rows, counters, that the job table implements `JobLifecycle`, that no job is left behind but by such a failure, and that every other one ends | 1 process, 2 threads, 2 jobs, 1 key |
| `celery_faults` | scaled, everything may raise, die, expire or come again: the same of jobs that are left behind and of their end, and that only a redelivery runs a job that has ended | 1 replica, 2 workers, 1 job, 1 key, 2 redeliveries |
| `celery_key_race` | *violated*: two replicas answer one key with two jobs, though nothing fails and no key expires | 2 replicas, 2 jobs |
| `admission` | what a request leaves behind when it is refused, when the quota check refuses, what `/ready` promises, and that it recovers | 4 deployments, 6 inputs, 6 accounts of up to 3 packages, pages of 2, 3 balances |
| `ready_without_table` | *violated*: `/ready` answers 200 although the database file was deleted | 1 deployment |
| `file_store` | the file implements `KeyValueStore`, crashes included; readers see whole files; no finished put is lost | 2 stores, 2 keys, 2 records, 2 inodes, texts of 2 pieces |
| `output_two_writers` | *violated*: two savers leave a torn output file | 2 writers, 3 texts, 4 inodes |
| `crm_replicas` | two callers under every fault, some with MOCK_CRM: records and outcomes name the right task, and no duplicate is made that the search could have prevented | 2 callers, 2 keys, 3 tasks, pages of 1, 2 pages, 2 attempts |
| `runs_in_turn` | runs that may fail anywhere, one after another: no duplicate task, no output without its tasks, every run ends | 1 run at a time, 2 catalogues, 3 tasks, pages of 1, 3 pages, 2 attempts |
| `ozon_faults` | the collector under every fault, with a category that may reorder | 2 proxies, 2 profiles, 2 attempts each, 6 categories of up to 3 pages, targets 0 to 3 |
| `enrich` | batches and selection, with the mock and with any answers | 3 products, 3 prices, batches of 2, answers of up to 2 items, limit 2 |
| `limits` | both limiters | 2 replicas, limit 2, window 3 ticks, clocks 1 tick apart, 4 hits |

Why the bounds are enough to meet the interesting cases:

- Two replicas, two callers, two stores or two workers are what every race
  between two of a kind needs; a third only repeats one of the two. A key is
  reserved, lost, expired and reserved again with two jobs; they fill the pool
  of two threads, or wait in its queue while a thread is in between. Two ids
  also make a holder without a row and an answer of another job, which is the
  exception of `AnswersNameHolder`.
- One redelivery already gives two executions of one job, at once (visibility
  timeout) or one after another (crash); with two a worker may be late twice,
  or the second delivery may be lost as well. `celery_faults` follows one job,
  since the executions of two jobs share nothing but the workers: the same
  invariants with two replicas and two jobs (4.8 million states) hold too, but
  take too long to be a run, and liveness over them does not fit into memory.
- The four deployments of `admission` are the two documented ones, a thread pool
  with `REDIS_URL`, and Celery with another broker; each service that one of
  them needs may be down at any call. Of the accounts, one is empty, one has no
  active package, and the others are overdrawn, too low one by one, too low on
  the first page only, or sufficient.
- Two pieces of a text make "half written" a state; two inodes are the file and
  its temporary, and `EnrichedOutput` has more since a rename leaves the old one
  open.
- Two pages and two attempts have a first, a last, and a retry that succeeds or
  fails for good; 4 attempts over 2 proxies go round the list twice. Categories
  of zero to three pages include repeats and a product without a price.
- Two batches of which the last is short; answers with an unknown segment, an id
  of another batch, an id twice, and a missing id; segments of more products
  than the limit, and equal prices.
- A window of three ticks has an inside, a boundary and an outside, also when
  the clocks are a tick apart; four hits are the limit of two replicas.

- Three tasks are two of one key and one that pushes them out of reach of two
  pages.

`MaxRedeliveries`, `Tasks`, `Inodes`, `Slots`, `MaxProducts` and `MaxItems` bound
the state space and nothing in the code does; all other constants are settings
of the program or sizes of its environment.

Symmetry (permutations of jobs, keys, workers, records, tasks, hits, ids, and of
replicas where they are interchangeable) is used only in runs without liveness.
Deadlock is not checked where the system may stop: when all job ids are used
up, when a collection has ended, when the tasks are built.

Fairness, in the runs with liveness only:

- `JobService`: weak fairness of each handler's and each executor's next step. A
  handler that was entered runs on in its event loop, and a pool thread or a
  worker takes the next job by itself. Nothing obliges clients to ask,
  processes to die or keys to expire.
- `PipelineRun`: weak fairness of each run's next step: a run has a thread of its
  own, requests have timeouts (`OZON_REQUEST_TIMEOUT`), so each ends in an answer or in
  an error. Others may add to the list as long as there are ids, and runs may
  fail at any step; nothing obliges them to.
- `ApiFront`: weak fairness of the request and of the probe that the event loop is
  in, and of a start (`restart: unless-stopped` of `src/docker-compose.yml`), strong
  fairness of the beginning of a probe: the health check of the same file asks
  every 30 seconds, and the loop gets to it between other requests. Services may
  fail and recover for ever; `Recovers` speaks of those behaviours in which they
  work from some point on.
- `OzonCollector`: weak fairness of the collector, for the same reason. The
  site may reorder for ever.

## 4. Proofs

Each proof module extends the module that it is about. Its theorems hold for
every value of the constants: any number of processes, jobs, keys, tasks, pages,
proxies and so on, all settings and any set of faults. They rest on the
assumptions that the models name and TLC evaluates in the runs, which say that
`None`, `Nothing`, `Shared`, `Cold` and ids invented by a mock are nobody's
name, that limits and sizes are positive numbers, and that settings and faults
are those listed. Four say more: an account is a sequence of packages with
integers for bytes (`QuotaAssumption`), every worker has a host
(`HostAssumption`), Celery implies Redis (`BackendAssumption`), the limiter's
hits are a finite set (`SlotsAssumption`). A theorem that needs more states it as
its own ASSUME.

| Theorem | Property | Assumes besides |
|---|---|---|
| `TypeCorrect` | `JobService!TypeOK` | |
| `AcceptedJobsStored` | `AcceptedJobIsStored` | |
| `RetriesGetTheJob` | `RetryGetsSameJob` | |
| `AnswersNameTheirHolder` | `AnswersNameHolder` | no two API processes share a key store |
| `KeysNameOneJob` | `KeyNamesOneJob` | the same; and the INSERT does not raise, and no process dies that leaves its keys in Redis |
| `RowsMatchStatus` | `RowMatchesStatus` | thread pool |
| `RowsMatchUntilRedelivered` | the same of the jobs without a redelivery | |
| `JobsMoveOnUntilRedelivered` | the order of statuses, of the jobs without a redelivery | |
| `ThreadPoolImplementsLifecycle` | `ImplementsLifecycle` | thread pool |
| `CountersCountOnce` | `JobsCountedOnce` | thread pool, finitely many job ids |
| `EndsAreKept` | `OnlyRedeliveryReopens` | |
| `NoJobIsOrphaned` | `NoOrphanedJob` | |
| `CrmTypeCorrect` | `CrmGateway!TypeOK` | |
| `RecordsNameTheirTask` | `RecordNamesItsTask` | |
| `OutcomesNameTheirTask` | `OutcomeNamesItsTask` | |
| `NoDuplicateIsAvoidable` | `NoAvoidableDuplicate` | |
| `FileTypesHold` | `FileIdempotencyStore!TypeOK` | |
| `FileIsAlwaysWhole` | `FileIsWhole` | |
| `PutsTakeEffect` | `PutTookEffect` | |
| `FileImplementsMap` | `ImplementsMap` | |
| `RunTypes` | `PipelineRun!TypeOK` | |
| `RunsMakeNoDuplicate` | `NoDuplicateTask` | one run at a time, the search enabled, no lost answer, an account within the pages of the search |
| `OutputsHaveTheirTasks` | `OutputHasItsTasks` | no MOCK_CRM |
| `GivesUpOnAll` | `GivesUpFairly` | |
| `SessionsStayConsistent` | `SessionsAreConsistent` | |
| `CollectorTypes` | `OzonCollector!TypeOK` | |
| `CollectsDistinct` | no product twice, and no more than the target | |
| `ExhaustedCollects` | `ExhaustedMeansAll` | `PagesFit`: a page of the site is no longer than `OZON_PAGE_SIZE`; `PagesSell`: one that is not empty has a priced product |
| `EnrichmentTypes` | `Enrichment!TypeOK` | |
| `BatchesStayIndependent` | `BatchesAreIndependent` | |
| `TasksAreTheExtremes` | `TasksListTheExtremes` | |
| `LimiterTypes` | `RateLimiter!TypeOK` | |
| `LimitHolds` | `NeverOverLimit` (with Redis over `Window - Slack - 1`) | |
| `DenialsAreDue` | `DeniedOnlyAtLimit` | |
| `FrontTypes` | `ApiFront!TypeOK` | |
| `RefusalsLeaveNothing` | `RefusalLeavesNothing` | |
| `RefusalsAreForTraffic` | `RefusedOnlyWithoutTraffic` | |
| `BalanceDecidesNothing` | no balance leads to `BalanceExhausted` (section 5) | |
| `ReadyIsTrue` | `ReadyIsServed` | nobody deletes the database of a live process |

The assumptions of single theorems are where the property ends, and section 5 or
a run shows what is beyond each: `celery_key_race` two replicas at one Redis,
`ready_without_table` the deleted database, the table of section 5 an INSERT that
raises (a process that dies before its INSERT does the same to a key in Redis),
Celery, several runs at once, a lost answer, a task out of reach, a page without a
priced product, and a page that is cut off. `OneAtATime`, `WithinPages`,
`PagesFit`, `PagesSell`, "thread pool" and "no MOCK_CRM" are met by the runs that
check the property (`runs_in_turn`, `thread_faults`, and `ozon_faults`, in which
`CompletePages` has TLC evaluate both). The rows without the name of a property
are theorems that no run checks: what `TypeInv` of the collector says beyond
`TypeOK`, which is also what `Catalogs` of `Enrichment` assumes of a collected
list; what remains of the life cycle under Celery; and one of the observations
of section 5. `KeyNamesOneJob` is what the documentation says, and the only run
about it shows it violated; the theorem says where it holds. Job ids are uuid4 values, of which there are finitely many; the
counters are compared with the size of a set of them.

### Job service (`JobServiceProofs`)

- `TypeOK` is not inductive: that a crash or a visibility timeout puts a job id
  back into the queue needs that a worker with an unacknowledged message is busy
  (`UnackedBusy`), and that `Finish` and `Notify` write a status a row can have
  needs that the executor's copy is terminal by then (`FinishOutcome`).
  `TypeInv` is the conjunction of the three; the lemmas show one action after
  the other that it is kept.
- `AcceptedJobsStored`: `RowsStay` shows that no step removes a row (every update
  writes a real status). Then each of the three parts (requests, queues,
  executions) can only be disturbed by the step that hands the job on, and that
  step finds the row.
- `RetriesGetTheJob`: `PromiseInv` follows a request from its arrival: as long as
  its promise stands, the key still names the promised job, whose row is there
  and stays, and the request has not passed `Reserve`. `Expire` and a restart
  take the promise away together with the key, which is why the property speaks
  of keys that do not expire meanwhile.
- `AnswersNameTheirHolder`: `FreshInv` says that the id of a request without a
  row is nobody else's, and under no key but its own; so a key comes to life only
  by the INSERT of the request that reserved it (`ComesToLife`). `KeyInv` adds what
  a request in progress knows of its key. The exception is a holder without a row
  and without a request: it stays so, and binds no answer.
- `KeysNameOneJob`: `HolderInv` says that the holder of a key has its row or a
  request on the way to the INSERT. So the exception above never arises, if the
  INSERT does not raise (`InsertsHappen`); a shutdown does not come between, since
  a process that is in it has no request in progress (`DrainInv`).
- `RowsMatchStatus`, `ThreadPoolImplementsLifecycle`, `CountersCountOnce`: all
  rest on `ExecutionInv`, whose core `OnceInv` holds with either runner: a job
  that was never delivered again is in one place (a handler, a queue, one
  executor) and its row is what that place makes of it, column by column.
  `NoRedeliveries` says that a pool redelivers nothing. The simulation of
  `JobLifecycle` then maps each step that changes a status to one of its steps
  and all others to stutters, and `CountInv` compares the counters with the
  ended jobs that no executor has still to count.
- `RowsMatchUntilRedelivered`, `JobsMoveOnUntilRedelivered`: the same invariant,
  read for one job at a time, needs no thread pool. So all that Celery takes away
  from these properties it takes from redelivered jobs.
- `EndsAreKept` and `NoJobIsOrphaned` speak of `JobLosses`, whose steps are those
  of `JobService` with one more variable, so `ExecutionInv` holds there too.
  Besides it needs `DrainInv` and `OverdueInv` (an executor that owes its job and
  has no message has had it redelivered), and shows for each action that the jobs
  that it does not lose keep a handler, a queue or an executor.

### CRM gateway and runs (`CrmGatewayProofs`, `PipelineRunProofs`)

- `TypeInv` adds to `TypeOK` that a call that was entered has a key, and one that
  is about to record has an id (`Bound`).
- `RecordsNameTheirTask`, `OutcomesNameTheirTask`: the id that a search finds is
  recorded two steps later, by then at another position of a list that moved on;
  and a record may become the outcome of another call. `NamesInv` therefore
  speaks of records, calls in progress and outcomes at once, and takes the list
  as a parameter: `NamesStay` shows that no step of anybody makes the list
  forget a task's text, so `NamesInv` of the old list is `NamesInv` of the new
  one (`NamesKept`), and each action then only has to account for the one call,
  record or outcome that it writes.
- `NoDuplicateIsAvoidable`: `PushedBack` describes how a list may move under a
  search: every task that was not edited is as far back as it was, or farther.
  So what a call ought to find (`known`) is never on the pages that it has read
  and within reach of those that are left (`Hunts`); when it comes to post,
  nothing is left.
- `RunsMakeNoDuplicate`: in a history of runs one after another the same movement
  serves another invariant, `OneTaskInv`: no two tasks with one marker, and the
  task of the call in progress, if there is one, is on a page still to be read.
  `ListEnds` shows, by counting ids, that an account of at most
  `MaxPages * PageSize` tasks has no page beyond the last. The proof is about
  calls; `PipelineRunProofs` takes it over through an instance of
  `CrmGatewayProofs` (`known` means nothing there) and `RunCalls`, by which a
  step of a run is a step of its calls or leaves them alone.
- `RunInv` (how far a run has come tells what it has collected, which of its
  tasks it has made and for which it is in a call) gives `RunTypes`; with
  `NamesInv` and the fact that no call of a run without mock answers with an
  invented id it gives `OutputsHaveTheirTasks`, for any number of runs at once.

### Files (`FileStoreProofs`)

`FileInv`: whoever reads to change, writes or releases holds the flock
(`LockInv`), the temporary name never names the file that readers open
(`NamesApart`), and how far the one writer has come tells what is in the inode of
the temporary name, and that it is what the file holds now with the change of its
call (`WriteOK`). So a reader without a lock gets a whole text, the rename is the
one step that changes what a reader gets, and it changes exactly the key of its
put: each step is a step of `KeyValueStore` or a stutter, also when a process
dies half-way through a file.

### Collector, classification and selection (`OzonCollectorProofs`, `EnrichmentProofs`)

- `GivesUpOnAll`: after some attempts for a page the rotation has gone q times
  round the list from the proxy s where the page began, and r proxies farther;
  the r proxies from s on have q + 1 attempts, all others q (`Rounds`). It gives
  up when the attempts are used up, and then r is 0 and q is `MaxRetries`.
- `SessionsStayConsistent`: proxies are entries of a list, sessions are their
  URLs, so that two entries can share a session. A block or a lost connection
  drops what belongs to the session of the current entry, and only a completed
  warm-up adds a mark.
- What a loop over a page or an answer computes is a `FoldLeft` in both modules,
  which the library defines by a function that is chosen to satisfy an equation
  over sets of positions. `Induction` goes from the well-foundedness of the
  natural numbers to induction over a set, `FoldExists` shows with it that such a
  function exists for a list of any length, and `FoldRuns` that each of them goes
  through the list from the left, one step per element. `ParsingRuns`,
  `AddingRuns` and `GivenRuns` are the instances for the tiles of a page, the
  products of a batch, and the items of an answer.
- `CollectorTypes`, `CollectsDistinct`: the batch is all the priced products of the
  page and no others (`ParsesAll`), and what is added to `products` keeps it without
  repetition and within the target; if it does not fill the target, nothing of
  the batch is missing (`AddsAll`).
- `ExhaustedCollects`: `PagesInv` says that all pages before the current one are
  collected. By `PagesFit` a batch has all of the page, by `PagesSell` a batch
  without products is that of a page beyond the end, and then the pages before
  it are all.
- `BatchesStayIndependent`: the last item of an answer that names a product of
  the batch decides (`GivenSays`, `ParsedSays`: this is `Expected`). `LoopInv`
  counts the answers against the position of the next batch, so that position n
  is in batch (n - 1) div `BatchSize` and no other (`BatchOf`); a later batch,
  whose products have other ids, leaves it in its segment (`ClassifiedInv`).
- `EnrichmentTypes` needs these, since a segment is typed by what an answer gave,
  and that the lists of the tasks are sequences of the products (`TasksTyped`).
- `TasksAreTheExtremes`: the code sorts and takes a prefix; the model says which
  product has which rank. `Ranks` shows that in a finite ordered set each rank
  below its size is taken by one element (as many ranks as elements, and no two
  of the same), so that the listed products are well defined, in order, without
  repetition, and nothing left out is better.

### Limiters (`RateLimiterProofs`)

`LimitInv` adds to the properties that a timestamp is at most `Slack` older than
its hit, and that a hit that was let through is kept for as long as it may
count against somebody (`HitOK`). The rest is counting: when
a limiter lets one more through, what was let through in the window is among
the hits that it counted, and these are fewer than the limit.

### Request path (`ApiFrontProofs`)

`AdmissionInv` says for each point of a handler what effects there can be by
then; so no refusal comes after one that it must not leave behind. `ReadyInv`
adds that a live process has its table (`TableInv`, which a deletion of the file
breaks) and what a probe in progress has found out while nothing fails
(`ProbeInv`); that each service that a step of a handler may need is among those
that the probe has asked is a case distinction over the documented deployments.
The input of a request is fixed by its first step, so that a request whose input
raises nowhere can only fail with a service.

`RefusalsAreForTraffic` and `BalanceDecidesNothing` are about a sum over the
active packages (`MapThenSumSet`). `SumExists` and `SumBounds` show by induction
over the size of a set that the sum exists and is no less than each of its terms,
`PrepaidBounds` says so of an account. `QuotaInv` adds that the account whose
balance is asked for is the one that passed the first conclusion; so a package
with the minimum is among the terms, the sum is never below the minimum, and the
only refusal is that of the first conclusion.

### Only model-checked

- `JobsSettle`, `RunsEnd`, `CollectEnds`, `Recovers`: liveness under fairness is
  out of the prover's reach.
- What a run shows to be violated, and the table of section 5 but for its last
  row, which is a theorem.

## 5. What does not hold

Three disagreements with the documentation are runs, listed under "findings".
The models show more; each can be seen by changing a constant, a property or a
line as given. The runs leave these out.

| Change | Fails | What happens |
|---|---|---|
| `thread_faults` with 3 jobs, `Crashable = {}` and `Faults = {"create"}`, property `KeyNamesOneJob` | `KeyNamesOneJob` | the INSERT raises after the key was reserved: the key names no row, and each retry until it expires is answered 202 with another stored job (`pipeline_jobs.py:37`), although `src/AI_USAGE.md:203` says "a repeated POST with the same key → the same job id" |
| `celery_faults`, property `ImplementsLifecycle` | `ImplementsLifecycle` | a redelivered job goes from completed or failed back to running (`pipeline_job_executor.py:39`) |
| `celery_faults`, property `RowMatchesStatus` | `RowMatchesStatus` | the second execution writes the first one's `error_message` back with `completed` |
| `celery_faults`, property `JobsCountedOnce` | `JobsCountedOnce` | each execution is counted |
| `JobsSettle` without `lost` | `JobsSettle` | nothing resumes jobs of a pool that died, or that were never enqueued; a poll never ends |
| `runs_in_turn` with two callers | `NoDuplicateTask` | both look the key up before either posts (`amocrm_gateway.py:80`) |
| `runs_in_turn` with the fault "lost" | `NoDuplicateTask` | the retry of a POST whose answer was lost makes a second task (`http_client.py:83`) |
| `crm_replicas`, property `NoDuplicateTask`, with one caller and 3 pages | `NoDuplicateTask` | a task that is edited between two page requests is missed by the search; `NoAvoidableDuplicate` without the exception for edited tasks fails alike |
| `crm_replicas` without the second disjunct of `OutcomeNamesItsTask` | `OutcomeNamesItsTask` | the record of a mock run is reused by a real one, which then makes no task (`amocrm_gateway.py:80`) |
| `ozon_faults` without `PagesSell`: a page without a priced product | `ExhaustedMeansAll` | the empty batch ends the category (`ozon_collector.py:56`) |
| `ozon_faults` with `PageSize = 1`, so without `PagesFit` | `ExhaustedMeansAll` | what a page has beyond `OZON_PAGE_SIZE` is cut off and never fetched |
| `limits`, `DeniedOnlyAtLimit` also for Redis | `DeniedOnlyAtLimit` | a denied hit counts until its `zrem`, and for a minute if the replica dies before |
| `ReadyIsServed` without `~InputRaises`, input `non_ascii_key` | `ReadyIsServed` | with `API_KEY` set, `secrets.compare_digest` raises `TypeError` for an `X-API-Key` or a Bearer value that is not ASCII: 500 instead of 401 (`auth.py:38`) |
| the same, `negative_limit` or `huge_limit` | `ReadyIsServed` | `GET /pipeline/jobs?limit=-1` raises on PostgreSQL, a limit beyond 64 bits with either database: 500 instead of 422 (`routes/jobs.py:110`) |
| the same, `nul_id` | `ReadyIsServed` | `GET /pipeline/jobs/%00` raises on PostgreSQL: 500 instead of 404 (`postgres_job_repository.py:52`) |
| `ReadyIsServed` for every deployment | `ReadyIsServed` | a thread pool with `REDIS_URL` limits and keeps keys in Redis, which `/ready` does not ask (`health.py:43`); a broker other than Redis is never asked either |
| `Recovers` for every deployment | `Recovers` | Celery with `CELERY_BROKER_URL` and without `REDIS_URL`, which `settings.py:110` accepts: `/ready` pings an empty URL and is 503 for ever |
| `Init` of `ApiFront` with `table = "empty"` for PostgreSQL | `ReadyIsServed` | without the migrations `/ready` is 200 and each POST a 500: `SELECT 1` needs no table |
| `QuotaGarbage` with `calm` unchanged | `ReadyIsServed` | an answer of proxy.market that is no JSON is not caught: 500, while an HTTP error skips the check (`proxy_market_quota_checker.py:114`) |
| `RefusedOnlyWithoutTraffic` without `i <= PerPage` | `RefusedOnlyWithoutTraffic` | an account whose active packages come after the first 50 is refused (`proxy_market_quota_checker.py:112`) |
| `BalanceExhausted` | never TRUE | after the first check a package with the minimum is left, so the sum is never below it: the balance decides nothing (`BalanceDecidesNothing` proves it), although `domain/ports/proxy_quota_checker.py:10` says "when traffic or balance is insufficient" |

A category that ends with a payload without widgets is retried like a block and
ends in a degraded result, not in an exhausted one; `ozon_faults` has this
ending, and no property speaks against it.

## 6. What is not modelled

- Loss of power: `atomic_write_text` does not fsync, and what a file system
  keeps is not in `AtomicFile`. Processes die here, machines do not.
- How the API key is compared, beyond that `compare_digest` raises for a key that
  is not ASCII (an `API_KEY` that is not makes it raise for every key); which
  field of a body fails its validation.
- An I/O error while `FileIdempotencyStore._load` reads: like a text that does
  not parse it counts as an empty store (`file_idempotency_store.py:70`), so the next put
  would write a file without the other records.
- Logging, tracing, the text of migrations, CLI
  output: no state that others depend on. The legacy facades only delegate, and
  the mock collector is a pure list.
- How long a call takes: a slow proxy.market or Redis holds up the event loop and
  with it `/ready`, which the model shows only as an order of steps.
- The headers and the HTTP counter of `RequestIdMiddleware`. It is the innermost
  middleware, so a 401, a 429 and an unhandled 500 have no `X-Request-ID`, and
  are not counted, although `src/docs/DEPLOYMENT.md:97` lists the header without
  an exception.
- PostgreSQL output: one INSERT per save.
- The HTTP counter, durations and the text of `/metrics`.
- The path of the collector through an injected `HttpClient` (tests only), its
  delays and cookies, and the text of prices.
- Jobs in a deployment with `CELERY_BROKER_URL` but without `REDIS_URL`: the
  settings allow it, `docs/SCALE.md` does not describe it, and
  `BackendAssumption` of `JobService` rules it out. `ApiFront` has it.
- A Redis record that is not valid JSON (read as none; only this code writes
  them), and `save` of the file store to another path: runs always use
  `crm_idempotency.json` of the output directory (`container.py:64`), whatever
  `CRM_IDEMPOTENCY_STORE_PATH` says.
- The data of a run of the pool after another run has replaced it: the rows of
  both jobs name the same JSON file.
- Power-of-two back-off, jitter and other times; a timeout is a step that may
  come at any moment.

## 7. Plan

Done: every module of section 2, and the proofs of section 4.

Next, the proofs:

1. How often a redelivered job is counted under Celery: as often as it was
   delivered, instead of once.
2. `RunsMakeNoDuplicate` for several runs at once over disjoint catalogues.

Next, the model:

1. Columns of the table that need more than their presence (times in order), and
   the order of `list_recent`.
2. `PipelineRun` inside `JobService`: what a redelivered job does to AmoCRM while
   the first execution still runs.
