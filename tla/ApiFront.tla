----------------------------- MODULE ApiFront ------------------------------
(***************************************************************************)
(* What one API process does around its jobs: the order in which a request *)
(* meets authentication, the rate limit, the credentials, the proxy quota  *)
(* check (ProxyQuota) and the stores, which services each of them needs in *)
(* which deployment, and what /ready finds out about them.                 *)
(*                                                                         *)
(* The handlers are coroutines that call services synchronously, so the    *)
(* event loop is in one of them at a time; the services come and go        *)
(* between any two of its calls.                                           *)
(***************************************************************************)
EXTENDS ProxyQuota

CONSTANTS
  Deployments,      \* settings that the process may be started with
  Accounts,         \* what proxy.market may list
  Balances,         \* the balances it may tell
  DeleteWhileUp     \* TRUE iff the database file may go under a live process

\* Settings that decide which service is asked for what.
Settings == [job_store : {"sqlite", "postgres"}, runner : {"thread", "celery"},
             redis_url : BOOLEAN, broker_url : BOOLEAN,
             crm_store : {"file", "redis"}, mock_parser : BOOLEAN,
             proxy_list : BOOLEAN, market_key : BOOLEAN, api_key : BOOLEAN]

\* validate_scale_backends; DATABASE_URL is part of job_store here.
Accepted(s) ==
  /\ s.runner = "celery" => s.broker_url \/ s.redis_url
  /\ s.crm_store = "redis" => s.redis_url

ASSUME DeploymentsAssumption ==
  Deployments \subseteq {s \in Settings : Accepted(s)}

ASSUME NoneAssumption == None \notin Int /\ None \notin Accounts

ASSUME QuotaAssumption ==
  MinBytes \in Int /\ Accounts \subseteq Seq(ProxyPackageQuota)

Services == {"data_dir", "postgres", "redis", "broker"}

VARIABLES
  settings,     \* get_settings(), fixed for the life of the process
  up,           \* the services that work; "data_dir": it can be written
  table,        \* where pipeline_jobs should be: "absent" (no SQLite file),
                \* "empty" (a database without the table), or "schema"
  api,          \* TRUE iff the process is up
  at,           \* the handler that the event loop is in
  effects,      \* what the last request left behind
  answer,       \* its status
  told,         \* the status that the last /ready answered
  calm          \* history: nothing has failed since that probe began

vars == <<settings, up, table, api, at, effects, answer, told, calm>>

RequestPcs == {"auth", "limit", "list", "get", "credentials", "packages",
               "balance", "key", "row", "enqueue", "count"}

ProbePcs == {"ping_db", "check_dir", "ping_redis"}

\* What a client may send that nothing on the way to a call checks: an API key
\* that is not ASCII; for a list, a limit that is no integer, a negative one, or
\* one of more than 64 bits; for a GET, an id with a NUL.
Inputs == {"plain", "non_ascii_key", "word_limit", "negative_limit",
           "huge_limit", "nul_id"}

\* input: what the request brought; listed: the account as the check saw it; ok:
\* no probe has failed yet.
Idle == [pc |-> "idle", input |-> "plain", listed |-> None, ok |-> TRUE]

Effects == {"hit", "key", "row", "message", "counted"}

TypeOK ==
  /\ settings \in Deployments
  /\ up \subseteq Services
  /\ table \in {"absent", "empty", "schema"}
  /\ api \in BOOLEAN
  /\ at \in [pc : {"idle"} \cup RequestPcs \cup ProbePcs, input : Inputs,
             listed : Accounts \cup {None}, ok : BOOLEAN]
  /\ effects \subseteq Effects
  /\ answer \in {None, 200, 202, 401, 402, 404, 422, 429, 500}
  /\ told \in {None, 200, 503}
  /\ calm \in BOOLEAN

\* docs/SCALE.md: the migrations run before the service is started.
Init ==
  /\ settings \in Deployments
  /\ up \in SUBSET Services
  /\ table \in IF settings.job_store = "sqlite" THEN {"absent", "schema"}
                                                ELSE {"schema"}
  /\ api = FALSE
  /\ at = Idle
  /\ effects = {}
  /\ answer = None
  /\ told = None
  /\ calm = TRUE

-----------------------------------------------------------------------------
\* Which services the calls of a request reach.
Limiter == IF settings.redis_url THEN {"redis"} ELSE {}

KeyStore == IF settings.redis_url THEN {"redis"} ELSE {}

JobTable == IF settings.job_store = "postgres" THEN {"postgres"} ELSE {"data_dir"}

\* create_celery_app: CELERY_BROKER_URL, or else REDIS_URL.
Broker ==
  IF settings.runner = "thread" THEN {}
  ELSE IF settings.broker_url THEN {"broker"} ELSE {"redis"}

Counters ==
  IF settings.runner = "celery" /\ settings.redis_url THEN {"redis"} ELSE {}

Needed == Limiter \cup KeyStore \cup JobTable \cup Broker \cup Counters

\* _needs_redis
NeedsRedis == settings.runner = "celery" \/ settings.crm_store = "redis"

-----------------------------------------------------------------------------
(***************************************************************************)
(* The API: POST and GET of jobs, and /metrics.                            *)
(***************************************************************************)
BeginRequest ==
  /\ api
  /\ at.pc = "idle"
  /\ \E input \in Inputs : at' = [Idle EXCEPT !.pc = "auth", !.input = input]
  /\ effects' = {}
  /\ answer' = None
  /\ UNCHANGED <<settings, up, table, api, told, calm>>

\* The handler is left with a status.
Answer(status) ==
  /\ answer' = status
  /\ at' = [at EXCEPT !.pc = "idle"]

\* It goes on, and leaves something behind.
GoOn(pc, effect) ==
  /\ at' = [at EXCEPT !.pc = pc]
  /\ effects' = effects \cup effect
  /\ UNCHANGED answer

\* A call that leads to pc with an effect if its services work, else to a 500.
Call(services, pc, effect) ==
  IF services \subseteq up
    THEN GoOn(pc, effect)
    ELSE Answer(500) /\ UNCHANGED effects

\* compare_digest takes no str that is not ASCII; without API_KEY nothing is
\* compared.
KeyRaises == settings.api_key /\ at.input = "non_ascii_key"

\* ApiKeyAuthMiddleware is added last, so it runs first; nothing catches what
\* it raises.
Authenticate ==
  /\ at.pc = "auth"
  /\ \/ ~KeyRaises /\ GoOn("limit", {})
     \/ settings.api_key /\ ~KeyRaises /\ Answer(401) /\ UNCHANGED effects
     \/ KeyRaises /\ Answer(500) /\ UNCHANGED effects
  /\ UNCHANGED <<settings, up, table, api, told, calm>>

\* Where a request goes on: a limit is that of a list, an id that of a GET.
Routes(input) ==
  IF input \in {"word_limit", "negative_limit", "huge_limit"} THEN {"list"}
  ELSE IF input = "nul_id" THEN {"get"}
  ELSE {"credentials", "list", "get"}

\* Then the limiter (see RateLimiter); an error of Redis is nowhere caught.
\* It lets a POST or a GET through.
Limit ==
  /\ at.pc = "limit"
  /\ \/ \E pc \in Routes(at.input) : Call(Limiter, pc, {"hit"})
     \/ Limiter \subseteq up /\ Answer(429) /\ UNCHANGED effects
  /\ UNCHANGED <<settings, up, table, api, told, calm>>

\* validate_proxy_prerequisites asks proxy.market only for a live parser with a
\* proxy list, and if it has a key for that.
QuotaIsChecked ==
  ~settings.mock_parser /\ settings.market_key /\ settings.proxy_list

\* validate_pipeline_prerequisites: a credential is missing, or none is; a body
\* that fails its validation is refused here too.
Credentials ==
  /\ at.pc = "credentials"
  /\ \/ GoOn(IF QuotaIsChecked THEN "packages" ELSE "key", {})
     \/ Answer(422) /\ UNCHANGED effects
  /\ UNCHANGED <<settings, up, table, api, told, calm>>

\* Mutant: the refusal is decided when the key is reserved already.
PackagesAfterKey ==
  /\ at.pc = "packages"
  /\ \E account \in Accounts :
       /\ at' = [at EXCEPT !.pc = IF TrafficExhausted(account) THEN "idle"
                                  ELSE "balance", !.listed = account]
       /\ effects' = effects \cup {"key"}
       /\ answer' = IF TrafficExhausted(account) THEN 402 ELSE None
  /\ UNCHANGED <<settings, up, table, api, told, calm>>

\* _fetch_packages answered.
Packages ==
  /\ at.pc = "packages"
  /\ \E account \in Accounts :
       /\ at' = [at EXCEPT !.pc = IF TrafficExhausted(account) THEN "idle"
                                  ELSE "balance", !.listed = account]
       /\ answer' = IF TrafficExhausted(account) THEN 402 ELSE None
  /\ UNCHANGED <<settings, up, table, api, effects, told, calm>>

\* Mutant: a check that can not be made refuses.
PackagesFailClosed ==
  /\ at.pc = "packages"
  /\ Answer(503)
  /\ UNCHANGED <<settings, up, table, api, effects, told, calm>>

\* An httpx.HTTPError: the check is skipped.
PackagesFail ==
  /\ at.pc = "packages"
  /\ GoOn("key", {})
  /\ UNCHANGED <<settings, up, table, api, told, calm>>

\* _fetch_balance answered, with a number or without, or failed.
Balance ==
  /\ at.pc = "balance"
  /\ \E balance \in Balances \cup {None} :
       IF BalanceExhausted(at.listed, balance)
         THEN Answer(402) /\ UNCHANGED effects
         ELSE GoOn("key", {})
  /\ UNCHANGED <<settings, up, table, api, told, calm>>

\* Either answer may be no JSON, or not of the expected form: nothing catches
\* that error.
QuotaGarbage ==
  /\ at.pc \in {"packages", "balance"}
  /\ Answer(500)
  /\ calm' = FALSE
  /\ UNCHANGED <<settings, up, table, api, effects, told>>

\* The rest is the handler of JobService, in which each call may fail.  There
\* is no key, or one that is new.
ReserveKey ==
  /\ at.pc = "key"
  /\ GoOn("row", {}) \/ Call(KeyStore, "row", {"key"})
  /\ UNCHANGED <<settings, up, table, api, told, calm>>

\* The table that a new connection meets: SQLite creates a missing file.
Connected ==
  IF table = "absent" /\ JobTable \subseteq up THEN "empty" ELSE table

\* A row or a list is read, with one of the statuses, unless the call raises;
\* whether a read succeeds in a directory that can not be written is left open.
ReadTable(services, statuses, raises) ==
  /\ \/ /\ ~raises /\ services \subseteq up /\ table = "schema"
        /\ JobTable = {"data_dir"} \/ JobTable \subseteq up
        /\ \E status \in statuses : Answer(status)
     \/ /\ raises \/ ~(services \cup JobTable \subseteq up /\ table = "schema")
        /\ Answer(500)
  /\ table' = Connected
  /\ UNCHANGED <<settings, up, api, effects, told, calm>>

\* Or the key names a job, which is the answer.
Replay == at.pc = "key" /\ ReadTable(KeyStore, {202}, FALSE)

\* LIMIT in PostgreSQL is not negative, and in neither store beyond 64 bits;
\* SQLite takes a negative one for no limit.
LimitRaises ==
  \/ at.input = "huge_limit"
  \/ at.input = "negative_limit" /\ settings.job_store = "postgres"

\* list_jobs, whose limit has to be an integer and nothing else.
ListJobs ==
  /\ at.pc = "list"
  /\ IF at.input = "word_limit"
       THEN /\ Answer(422)
            /\ UNCHANGED <<settings, up, table, api, effects, told, calm>>
       ELSE ReadTable({}, {200}, LimitRaises)

\* A text parameter of psycopg holds no NUL.
IdRaises == at.input = "nul_id" /\ settings.job_store = "postgres"

\* get_job; an id that is found was given to a job.
GetJob ==
  /\ at.pc = "get"
  /\ ReadTable({}, IF at.input = "nul_id" THEN {404} ELSE {200, 404}, IdRaises)

InsertRow ==
  /\ at.pc = "row"
  /\ IF table = "schema" THEN Call(JobTable, "enqueue", {"row"})
                         ELSE Answer(500) /\ UNCHANGED effects
  /\ table' = Connected
  /\ UNCHANGED <<settings, up, api, told, calm>>

Enqueue ==
  /\ at.pc = "enqueue"
  /\ Call(Broker, "count", {"message"})
  /\ UNCHANGED <<settings, up, table, api, told, calm>>

CountAndReply ==
  /\ at.pc = "count"
  /\ IF Counters \subseteq up
       THEN Answer(202) /\ effects' = effects \cup {"counted"}
       ELSE Answer(500) /\ UNCHANGED effects
  /\ UNCHANGED <<settings, up, table, api, told, calm>>

RequestStep ==
  \/ Authenticate \/ Limit \/ ListJobs \/ GetJob \/ Credentials
  \/ Packages \/ PackagesFail \/ Balance \/ QuotaGarbage
  \/ ReserveKey \/ Replay \/ InsertRow \/ Enqueue \/ CountAndReply

\* render_prometheus reads the shared counters.
Scrape ==
  /\ api
  /\ at.pc = "idle"
  /\ answer' = IF Counters \subseteq up THEN 200 ELSE 500
  /\ at' = Idle
  /\ effects' = {}
  /\ UNCHANGED <<settings, up, table, api, told, calm>>

-----------------------------------------------------------------------------
(***************************************************************************)
(* GET /ready.                                                             *)
(***************************************************************************)
BeginProbe ==
  /\ api
  /\ at.pc = "idle"
  /\ at' = [Idle EXCEPT !.pc = "ping_db"]
  /\ effects' = {}
  /\ answer' = None
  /\ told' = None
  /\ calm' = TRUE
  /\ UNCHANGED <<settings, up, table, api>>

\* SELECT 1 needs no table, and an SQLite file that is there can be opened when
\* it can not be written.
Pinged ==
  JobTable \subseteq up \/ (JobTable = {"data_dir"} /\ table # "absent")

PingDb ==
  /\ at.pc = "ping_db"
  /\ at' = [at EXCEPT !.pc = "check_dir", !.ok = Pinged]
  /\ table' = Connected
  /\ UNCHANGED <<settings, up, api, effects, answer, told, calm>>

CheckDir ==
  /\ at.pc = "check_dir"
  /\ at' = [at EXCEPT !.pc = "ping_redis", !.ok = @ /\ "data_dir" \in up]
  /\ UNCHANGED <<settings, up, table, api, effects, answer, told, calm>>

\* Mutant: a Redis that was not asked counts as one that did not answer.
ConcludeStrictly ==
  /\ at.pc = "ping_redis"
  /\ told' = IF at.ok /\ NeedsRedis /\ settings.redis_url /\ "redis" \in up
               THEN 200 ELSE 503
  /\ at' = Idle
  /\ UNCHANGED <<settings, up, table, api, effects, answer, calm>>

\* Mutant: Redis is not asked.
ConcludeWithoutRedis ==
  /\ at.pc = "ping_redis"
  /\ told' = IF at.ok THEN 200 ELSE 503
  /\ at' = Idle
  /\ UNCHANGED <<settings, up, table, api, effects, answer, calm>>

\* ping_redis(settings.redis_url), which fails for an empty URL, and the answer.
Conclude ==
  /\ at.pc = "ping_redis"
  /\ told' = IF at.ok /\ (NeedsRedis => settings.redis_url /\ "redis" \in up)
               THEN 200 ELSE 503
  /\ at' = Idle
  /\ UNCHANGED <<settings, up, table, api, effects, answer, calm>>

ProbeStep == PingDb \/ CheckDir \/ Conclude

-----------------------------------------------------------------------------
(***************************************************************************)
(* The process, its services and its operator.                             *)
(***************************************************************************)

\* lifespan builds the repository: SqliteJobRepository creates the table, and
\* start-up fails if it can not; PostgresJobRepository does not connect yet.
Start ==
  /\ ~api
  /\ settings.job_store = "sqlite" => "data_dir" \in up
  /\ api' = TRUE
  /\ table' = "schema"
  /\ UNCHANGED <<settings, up, at, effects, answer, told, calm>>

\* The process ends, in whatever handler it is.
Stop ==
  /\ api
  /\ api' = FALSE
  /\ at' = Idle
  /\ effects' = {}
  /\ answer' = None
  /\ told' = None
  /\ UNCHANGED <<settings, up, table, calm>>

Break ==
  /\ \E s \in up : up' = up \ {s}
  /\ calm' = FALSE
  /\ UNCHANGED <<settings, table, api, at, effects, answer, told>>

Repair ==
  /\ \E s \in Services \ up : up' = up \cup {s}
  /\ UNCHANGED <<settings, table, api, at, effects, answer, told, calm>>

\* The operator removes data/jobs.sqlite.
DeleteFile ==
  /\ settings.job_store = "sqlite"
  /\ table # "absent"
  /\ DeleteWhileUp \/ ~api
  /\ table' = "absent"
  /\ calm' = FALSE
  /\ UNCHANGED <<settings, up, api, at, effects, answer, told>>

Next ==
  \/ BeginRequest \/ RequestStep \/ Scrape
  \/ BeginProbe \/ ProbeStep
  \/ Start \/ Stop
  \/ Break \/ Repair \/ DeleteFile

Spec == Init /\ [][Next]_vars

\* The event loop goes on and serves whatever keeps arriving, health checks
\* come at an interval and the container is restarted (docker-compose.yml).
FairSpec ==
  /\ Spec
  /\ WF_vars(RequestStep)
  /\ WF_vars(ProbeStep)
  /\ SF_vars(BeginProbe)
  /\ WF_vars(Start)

-----------------------------------------------------------------------------
(***************************************************************************)
(* Properties.                                                             *)
(***************************************************************************)

\* The deployments of .env.example and of docs/SCALE.md.
SingleNode ==
  /\ settings.job_store = "sqlite" /\ settings.runner = "thread"
  /\ ~settings.redis_url

Scale ==
  /\ settings.job_store = "postgres" /\ settings.runner = "celery"
  /\ settings.redis_url /\ ~settings.broker_url

\* The request brought what a call raises for, whatever the services do.
InputRaises == KeyRaises \/ LimitRaises \/ IdRaises

\* "/ready checks DB + data dir (+ Redis in scale)" (docs/ARCHITECTURE.md): if
\* it answered 200 and nothing failed since the probe began, no POST, GET or
\* scrape of the metrics is answered with a 500, except a request for whose
\* input compare_digest or the driver of the database raises: nothing checks
\* these three inputs, and no state of the services saves such a request.
ReadyIsServed ==
  (SingleNode \/ Scale) /\ told = 200 /\ calm /\ ~InputRaises => answer # 500

\* A POST that is refused leaves nothing behind: no key that would answer its
\* retry, no row, no message; and before it was let in, no hit of its limit.
RefusalLeavesNothing ==
  /\ answer \in {401, 429} => effects = {}
  /\ answer \in {402, 422} => effects \subseteq {"hit"}

\* A POST is refused for its quota only if no active package that the first
\* page lists has the minimum left, whatever the balance is.
RefusedOnlyWithoutTraffic ==
  answer = 402 =>
    \A i \in DOMAIN at.listed :
      i <= PerPage /\ at.listed[i].is_active =>
        at.listed[i].total - at.listed[i].used < MinBytes

\* Once the services that a POST needs and the data directory work for good,
\* the process comes up again and again, and if it stays up, /ready answers
\* 200 for ever.
Recovers ==
  (SingleNode \/ Scale) /\ <>[](Needed \cup {"data_dir"} \subseteq up)
    => /\ []<>api
       /\ <>[]api => /\ []<>(told = 200)
                     /\ <>[](told # 503)

\* "/ready 503: delete data/jobs.sqlite -> GET /ready -> 503" (AI_USAGE.md):
\* a process that answers 200 has its table.
ReadyMeansTable == told = 200 /\ calm => table = "schema"
=============================================================================
