----------------------------- MODULE JobService -----------------------------
(***************************************************************************)
(* Submission and execution of pipeline jobs: the POST /pipeline/jobs      *)
(* handler with its Idempotency-Key, the job table, the two job runners    *)
(* (thread pool and Celery), the executor that both share, and the job     *)
(* counters.                                                               *)
(*                                                                         *)
(* Every call a handler or an executor makes to a store is one step, since *)
(* other processes and threads run between two calls.  create_job is an    *)
(* "async def" that never awaits, so an API process serves one POST at a   *)
(* time: req[r] is the only request in flight in replica r.                *)
(***************************************************************************)
EXTENDS Integers, FiniteSets

CONSTANTS
  Replicas,           \* API processes
  Workers,            \* pool threads, or Celery worker processes
  Jobs,               \* job ids (uuid4)
  Keys,               \* values of the Idempotency-Key header
  None,               \* Python's None
  Shared,             \* the place of what lives in Redis
  JobRunnerBackend,   \* settings.job_runner_backend
  RedisUrl,           \* TRUE iff settings.redis_url is set
  HostOf,             \* thread pool: the API process a pool thread belongs to
  Crashable,          \* the processes that may be killed
  Faults,             \* the calls that may raise, and the other mishaps
  MaxRedeliveries     \* bound: how often one message is delivered again

ASSUME NoneAssumption == None \notin Jobs /\ None \notin Keys

ASSUME SharedAssumption == Shared \notin Replicas

ASSUME HostAssumption == HostOf \in [Workers -> Replicas]

\* docs/SCALE.md: the Celery deployment keeps idempotency keys and counters
\* in Redis.
ASSUME BackendAssumption ==
  /\ JobRunnerBackend \in {"thread", "celery"}
  /\ RedisUrl \in BOOLEAN
  /\ JobRunnerBackend = "celery" => RedisUrl

ASSUME CrashAssumption == Crashable \subseteq Replicas \cup Workers

\* The calls that may raise in the handler and in the executor (by program
\* counter), and what may befall a message or a key.  A call that raised
\* after it took effect is a failure of the call that follows it.
HandlerFaults == {"get1", "load1", "reserve", "get2", "load2", "create",
                  "enqueue", "count"}

ExecutorFaults == {"fetch", "start", "run", "finish", "notify"}

Mishaps == {"visibility_timeout", "child_lost", "key_expires"}

ASSUME FaultsAssumption ==
  Faults \subseteq HandlerFaults \cup ExecutorFaults \cup Mishaps

ASSUME BoundAssumption == MaxRedeliveries \in Nat

VARIABLES
  row,            \* the pipeline_jobs table
  idem,           \* idem[h][k]: the job id stored under k in the store at h
  answers,        \* history: the job ids answered for k while k was reserved
  queue,          \* queue[h]: ids waiting in the pool or the broker at h
  unacked,        \* the workers whose delivery the broker has not let go of
  redeliveries,   \* redeliveries[j]: how often j's message was put back
  metrics,        \* metrics[h]: the job counters kept at h
  phase,          \* "draining" while a replica's lifespan shuts the pool down
  req,            \* req[r]: the POST in flight in replica r
  wk              \* wk[w]: the execution in progress in worker w

vars == <<row, idem, answers, queue, unacked, redeliveries, metrics, phase,
          req, wk>>

-----------------------------------------------------------------------------
(***************************************************************************)
(* Where state lives.                                                      *)
(***************************************************************************)
Celery == JobRunnerBackend = "celery"

Homes == Replicas \cup {Shared}

StoreHome(r) == IF RedisUrl THEN Shared ELSE r

RunnerHome(r) == IF Celery THEN Shared ELSE r

WorkerHome(w) == RunnerHome(HostOf[w])

(***************************************************************************)
(* A row is its status and the set of its nullable columns that hold a     *)
(* value; collected_count, classified_count, crm_tasks_count and           *)
(* output_path are always assigned together and are one column, "counts".  *)
(* Status "none" means that there is no row.                               *)
(***************************************************************************)
JobStatus == {"pending", "running", "completed", "failed"}

Terminal == {"completed", "failed"}

Columns == {"started_at", "finished_at", "counts", "error_message"}

PipelineJob == [status : JobStatus \cup {"none"}, filled : SUBSET Columns]

NoRow == [status |-> "none", filled |-> {}]

NewJob == [status |-> "pending", filled |-> {}]

Exists(j) == row[j].status # "none"

RequestPcs == {"idle", "get1", "load1", "reserve", "get2", "load2", "create",
               "enqueue", "count", "reply"}

WorkerPcs == {"idle", "fetch", "start", "run", "finish", "notify", "ack"}

JobId == Jobs \cup {None}

Request == [pc : RequestPcs, key : Keys \cup {None}, job : JobId,
            held : JobId, promised : JobId]

IdleRequest == [pc |-> "idle", key |-> None, job |-> None, held |-> None,
                promised |-> None]

Execution == [pc : WorkerPcs, job : JobId, copy : PipelineJob]

IdleWorker == [pc |-> "idle", job |-> None, copy |-> NoRow]

EmptyStore == [k \in Keys |-> None]

NoAnswers == [k \in Keys |-> {}]

ZeroCounters == [submitted |-> 0, completed |-> 0, failed |-> 0]

\* What a request has bound by the time it is at its program counter.
RequestOK(q) ==
  /\ q.pc # "idle" => q.job \in Jobs
  /\ q.pc \in {"get1", "load1", "reserve", "get2", "load2"} => q.key \in Keys
  /\ q.pc \in {"load1", "load2"} => q.held \in Jobs

TypeOK ==
  /\ row \in [Jobs -> PipelineJob]
  /\ idem \in [Homes -> [Keys -> JobId]]
  /\ answers \in [Homes -> [Keys -> SUBSET Jobs]]
  /\ queue \in [Homes -> SUBSET Jobs]
  /\ unacked \subseteq Workers
  /\ redeliveries \in [Jobs -> 0..MaxRedeliveries]
  /\ metrics \in [Homes -> [submitted : Nat, completed : Nat, failed : Nat]]
  /\ phase \in [Replicas -> {"up", "draining"}]
  /\ req \in [Replicas -> Request]
  /\ wk \in [Workers -> Execution]
  /\ \A r \in Replicas : RequestOK(req[r])
  /\ \A w \in Workers : wk[w].pc # "idle" => wk[w].job \in Jobs

Init ==
  /\ row = [j \in Jobs |-> NoRow]
  /\ idem = [h \in Homes |-> EmptyStore]
  /\ answers = [h \in Homes |-> NoAnswers]
  /\ queue = [h \in Homes |-> {}]
  /\ unacked = {}
  /\ redeliveries = [j \in Jobs |-> 0]
  /\ metrics = [h \in Homes |-> ZeroCounters]
  /\ phase = [r \in Replicas |-> "up"]
  /\ req = [r \in Replicas |-> IdleRequest]
  /\ wk = [w \in Workers |-> IdleWorker]

-----------------------------------------------------------------------------
(***************************************************************************)
(* The POST handler: create_job, SubmitPipelineJobUseCase.execute and the  *)
(* runner's submit.                                                        *)
(***************************************************************************)

\* A uuid4 that nothing in the system names yet.
Fresh(j) ==
  /\ ~Exists(j)
  /\ \A h \in Homes, k \in Keys : idem[h][k] # j
  /\ \A r \in Replicas : req[r].job # j

\* The job that a request for key k arriving now has to be answered with:
\* the holder of the key, once its row is in the table.
Promise(r, k) ==
  IF /\ k \in Keys
     /\ idem[StoreHome(r)][k] # None
     /\ Exists(idem[StoreHome(r)][k])
    THEN idem[StoreHome(r)][k]
    ELSE None

CreateJob(r, k) ==
  /\ phase[r] = "up"
  /\ req[r].pc = "idle"
  /\ \E j \in Jobs :
       /\ Fresh(j)
       /\ req' = [req EXCEPT ![r] =
            [pc |-> IF k = None THEN "create" ELSE "get1",
             key |-> k, job |-> j, held |-> None, promised |-> Promise(r, k)]]
  /\ UNCHANGED <<row, idem, answers, queue, unacked, redeliveries, metrics,
                 phase, wk>>

\* Request q with the job id it read under its key, at program counter pc.
Holding(q, pc, holder) == [q EXCEPT !.pc = pc, !.held = holder]

\* Request q answered with the job that holds its key.
Replayed(q) == [q EXCEPT !.pc = "reply", !.job = q.held]

\* Where execute goes on when _resolve_idempotent returned None.
Unresolved(pc) == IF pc \in {"get1", "load1"} THEN "reserve" ELSE "create"

\* Mutant: the "existing_id is None" return is missing.
GetKeyUnchecked(r) ==
  /\ req[r].pc \in {"get1", "get2"}
  /\ req' = [req EXCEPT ![r] =
               Holding(@, IF @.pc = "get1" THEN "load1" ELSE "load2",
                       idem[StoreHome(r)][@.key])]
  /\ UNCHANGED <<row, idem, answers, queue, unacked, redeliveries, metrics,
                 phase, wk>>

\* The first half of _resolve_idempotent: read the holder of the key.
GetKey(r) ==
  /\ req[r].pc \in {"get1", "get2"}
  /\ LET holder == idem[StoreHome(r)][req[r].key]
         next == IF holder = None THEN Unresolved(req[r].pc)
                 ELSE IF req[r].pc = "get1" THEN "load1" ELSE "load2"
     IN  req' = [req EXCEPT ![r] = Holding(req[r], next, holder)]
  /\ UNCHANGED <<row, idem, answers, queue, unacked, redeliveries, metrics,
                 phase, wk>>

\* Mutant: a job that failed is not replayed.
LoadHolderUnlessFailed(r) ==
  /\ req[r].pc \in {"load1", "load2"}
  /\ req' = IF Exists(req[r].held) /\ row[req[r].held].status # "failed"
              THEN [req EXCEPT ![r] = Replayed(req[r])]
              ELSE [req EXCEPT ![r].pc = Unresolved(req[r].pc)]
  /\ UNCHANGED <<row, idem, answers, queue, unacked, redeliveries, metrics,
                 phase, wk>>

\* The second half: read the holder's row; a job that is found is the answer.
LoadHolder(r) ==
  /\ req[r].pc \in {"load1", "load2"}
  /\ req' = IF Exists(req[r].held)
              THEN [req EXCEPT ![r] = Replayed(req[r])]
              ELSE [req EXCEPT ![r].pc = Unresolved(req[r].pc)]
  /\ UNCHANGED <<row, idem, answers, queue, unacked, redeliveries, metrics,
                 phase, wk>>

\* Set the key only if it is absent; a holder sends the handler to look again.
Reserve(r) ==
  /\ req[r].pc = "reserve"
  /\ IF idem[StoreHome(r)][req[r].key] = None
       THEN /\ idem' = [idem EXCEPT ![StoreHome(r)][req[r].key] = req[r].job]
            /\ req' = [req EXCEPT ![r].pc = "create"]
       ELSE /\ req' = [req EXCEPT ![r].pc = "get2"]
            /\ UNCHANGED idem
  /\ UNCHANGED <<row, answers, queue, unacked, redeliveries, metrics, phase,
                 wk>>

\* Mutant: the job is handed over before its row is written.
EnqueueBeforeCreate(r) ==
  /\ req[r].pc = "create"
  /\ queue' = [queue EXCEPT ![RunnerHome(r)] = @ \cup {req[r].job}]
  /\ req' = [req EXCEPT ![r].pc = "enqueue"]
  /\ UNCHANGED <<row, idem, answers, unacked, redeliveries, metrics, phase,
                 wk>>

\* submit: job_repository.create, the INSERT of a pending row ...
CreateRow(r) ==
  /\ req[r].pc = "create"
  /\ row' = [row EXCEPT ![req[r].job] = NewJob]
  /\ req' = [req EXCEPT ![r].pc = "enqueue"]
  /\ UNCHANGED <<idem, answers, queue, unacked, redeliveries, metrics, phase,
                 wk>>

\* ... and then the job id goes to the pool's queue or to the broker.
Enqueue(r) ==
  /\ req[r].pc = "enqueue"
  /\ queue' = [queue EXCEPT ![RunnerHome(r)] = @ \cup {req[r].job}]
  /\ req' = [req EXCEPT ![r].pc = "count"]
  /\ UNCHANGED <<row, idem, answers, unacked, redeliveries, metrics, phase,
                 wk>>

\* metrics.inc_submitted, for a job that is not a replay.
CountSubmitted(r) ==
  /\ req[r].pc = "count"
  /\ metrics' = [metrics EXCEPT ![RunnerHome(r)].submitted = @ + 1]
  /\ req' = [req EXCEPT ![r].pc = "reply"]
  /\ UNCHANGED <<row, idem, answers, queue, unacked, redeliveries, phase, wk>>

\* The 202 answer.  The history notes it while the key is still reserved: an
\* answer that outlives its key's TTL promises nothing.
Reply(r) ==
  /\ req[r].pc = "reply"
  /\ answers' = IF req[r].key # None /\ idem[StoreHome(r)][req[r].key] # None
                  THEN [answers EXCEPT ![StoreHome(r)][req[r].key] =
                                         @ \cup {req[r].job}]
                  ELSE answers
  /\ req' = [req EXCEPT ![r] = IdleRequest]
  /\ UNCHANGED <<row, idem, queue, unacked, redeliveries, metrics, phase, wk>>

\* A store or the broker raises and the client gets a 500.
RequestFails(r) ==
  /\ req[r].pc \in Faults
  /\ req' = [req EXCEPT ![r] = IdleRequest]
  /\ UNCHANGED <<row, idem, answers, queue, unacked, redeliveries, metrics,
                 phase, wk>>

-----------------------------------------------------------------------------
(***************************************************************************)
(* The executor: execute_pipeline_job in a pool thread or a Celery task.   *)
(***************************************************************************)

\* Mutant: a job that is taken stays in the queue.
TakeTwice(w) ==
  /\ wk[w].pc = "idle"
  /\ \E j \in queue[WorkerHome(w)] :
       wk' = [wk EXCEPT ![w] = [pc |-> "fetch", job |-> j, copy |-> NoRow]]
  /\ UNCHANGED <<row, idem, answers, queue, unacked, redeliveries, metrics,
                 phase, req>>

\* Mutant: task_acks_late is off, the message is acknowledged on delivery.
TakeAcksEarly(w) ==
  /\ wk[w].pc = "idle"
  /\ \E j \in queue[WorkerHome(w)] :
       /\ queue' = [queue EXCEPT ![WorkerHome(w)] = @ \ {j}]
       /\ wk' = [wk EXCEPT ![w] = [pc |-> "fetch", job |-> j, copy |-> NoRow]]
  /\ UNCHANGED <<row, idem, answers, unacked, redeliveries, metrics, phase,
                 req>>

\* The pool is FIFO and the broker nearly so; here any waiting job may be
\* next.  With task_acks_late the broker keeps the message until the ack.
Take(w) ==
  /\ wk[w].pc = "idle"
  /\ \E j \in queue[WorkerHome(w)] :
       /\ queue' = [queue EXCEPT ![WorkerHome(w)] = @ \ {j}]
       /\ wk' = [wk EXCEPT ![w] = [pc |-> "fetch", job |-> j, copy |-> NoRow]]
  /\ unacked' = IF Celery THEN unacked \cup {w} ELSE unacked
  /\ UNCHANGED <<row, idem, answers, redeliveries, metrics, phase, req>>

\* Execution x with a new local copy of its job, at program counter pc.
Holds(x, pc, copy) == [x EXCEPT !.pc = pc, !.copy = copy]

\* job_repository.get; the executor goes on with this copy of the row.
Fetch(w) ==
  /\ wk[w].pc = "fetch"
  /\ wk' = IF Exists(wk[w].job)
             THEN [wk EXCEPT ![w] = Holds(wk[w], "start", row[wk[w].job])]
             ELSE [wk EXCEPT ![w].pc = "ack"]
  /\ UNCHANGED <<row, idem, answers, queue, unacked, redeliveries, metrics,
                 phase, req>>

\* job_repository.update writes every column of the local copy.
Update(w, copy, next) ==
  /\ row' = [row EXCEPT ![wk[w].job] = copy]
  /\ wk' = [wk EXCEPT ![w] = Holds(wk[w], next, copy)]
  /\ UNCHANGED <<idem, answers, queue, unacked, redeliveries, metrics, phase,
                 req>>

\* status = RUNNING and started_at, written before the pipeline runs.
Start(w) ==
  /\ wk[w].pc = "start"
  /\ Update(w, [status |-> "running",
                filled |-> wk[w].copy.filled \cup {"started_at"}], "run")

\* The use case returns a result, or raises.
Outcomes == {[status |-> "completed", column |-> "counts"],
             [status |-> "failed", column |-> "error_message"]}

\* Either outcome changes only the local copy.
RunPipeline(w) ==
  /\ wk[w].pc = "run"
  /\ \E outcome \in Outcomes :
       wk' = [wk EXCEPT ![w] = Holds(wk[w], "finish",
                [status |-> outcome.status,
                 filled |-> wk[w].copy.filled \cup {outcome.column}])]
  /\ UNCHANGED <<row, idem, answers, queue, unacked, redeliveries, metrics,
                 phase, req>>

\* Mutant: finished_at is only set when the pipeline succeeded.
FinishOnSuccess(w) ==
  /\ wk[w].pc = "finish"
  /\ Update(w, [status |-> wk[w].copy.status,
                filled |-> IF wk[w].copy.status = "completed"
                             THEN wk[w].copy.filled \cup {"finished_at"}
                             ELSE wk[w].copy.filled], "notify")

\* The finally block: finished_at and the second update.
Finish(w) ==
  /\ wk[w].pc = "finish"
  /\ Update(w, [status |-> wk[w].copy.status,
                filled |-> wk[w].copy.filled \cup {"finished_at"}], "notify")

\* Mutant: every execution counts as completed.
NotifyCompleted(w) ==
  /\ wk[w].pc = "notify"
  /\ metrics' = [metrics EXCEPT ![WorkerHome(w)].completed = @ + 1]
  /\ wk' = [wk EXCEPT ![w].pc = "ack"]
  /\ UNCHANGED <<row, idem, answers, queue, unacked, redeliveries, phase, req>>

\* on_job_finished, after the http client is closed.
Notify(w) ==
  /\ wk[w].pc = "notify"
  /\ metrics' = IF wk[w].copy.status = "completed"
                  THEN [metrics EXCEPT ![WorkerHome(w)].completed = @ + 1]
                  ELSE [metrics EXCEPT ![WorkerHome(w)].failed = @ + 1]
  /\ wk' = [wk EXCEPT ![w].pc = "ack"]
  /\ UNCHANGED <<row, idem, answers, queue, unacked, redeliveries, phase, req>>

\* The task returned: Celery acknowledges the message.
Ack(w) ==
  /\ wk[w].pc = "ack"
  /\ wk' = [wk EXCEPT ![w] = IdleWorker]
  /\ unacked' = unacked \ {w}
  /\ UNCHANGED <<row, idem, answers, queue, redeliveries, metrics, phase, req>>

\* A store raises outside the try block (or in its finally): the exception
\* ends the task.  The pool drops it, and Celery acknowledges failed tasks.
ExecutionFails(w) ==
  /\ wk[w].pc \in Faults
  /\ wk' = [wk EXCEPT ![w].pc = "ack"]
  /\ UNCHANGED <<row, idem, answers, queue, unacked, redeliveries, metrics,
                 phase, req>>

-----------------------------------------------------------------------------
(***************************************************************************)
(* Celery's broker and worker processes (external to the repository).      *)
(***************************************************************************)

\* The message of worker w's delivery is back in the queue.
PutBack(w) ==
  /\ redeliveries[wk[w].job] < MaxRedeliveries
  /\ redeliveries' = [redeliveries EXCEPT ![wk[w].job] = @ + 1]
  /\ queue' = [queue EXCEPT ![Shared] = @ \cup {wk[w].job}]
  /\ unacked' = unacked \ {w}

\* The visibility timeout passes while w is still busy.
VisibilityTimeout(w) ==
  /\ "visibility_timeout" \in Faults
  /\ w \in unacked
  /\ PutBack(w)
  /\ UNCHANGED <<row, idem, answers, metrics, phase, req, wk>>

\* A worker process dies; what it had not acknowledged is delivered again.
WorkerCrash(w) ==
  /\ Celery
  /\ w \in Crashable
  /\ wk[w].pc # "idle"
  /\ IF w \in unacked
       THEN PutBack(w)
       ELSE UNCHANGED <<queue, unacked, redeliveries>>
  /\ wk' = [wk EXCEPT ![w] = IdleWorker]
  /\ UNCHANGED <<row, idem, answers, metrics, phase, req>>

\* A pool child is killed under a live worker: without
\* task_reject_on_worker_lost Celery acknowledges the message.
ChildLost(w) ==
  /\ Celery
  /\ "child_lost" \in Faults
  /\ wk[w].pc # "idle"
  /\ unacked' = unacked \ {w}
  /\ wk' = [wk EXCEPT ![w] = IdleWorker]
  /\ UNCHANGED <<row, idem, answers, queue, redeliveries, metrics, phase, req>>

-----------------------------------------------------------------------------
(***************************************************************************)
(* The TTL, and the life of an API process.                                *)
(***************************************************************************)

\* job_idempotency_ttl_seconds passed.  What was promised to requests in
\* flight lapses with the key.
Expire(h, k) ==
  /\ "key_expires" \in Faults
  /\ idem[h][k] # None
  /\ idem' = [idem EXCEPT ![h][k] = None]
  /\ answers' = [answers EXCEPT ![h][k] = {}]
  /\ req' = [r \in Replicas |->
               IF StoreHome(r) = h /\ req[r].key = k
                 THEN [req[r] EXCEPT !.promised = None]
                 ELSE req[r]]
  /\ UNCHANGED <<row, queue, unacked, redeliveries, metrics, phase, wk>>

\* What goes away with process r, and the new process that replaces it.
Restart(r) ==
  /\ req' = [req EXCEPT ![r] = IdleRequest]
  /\ phase' = [phase EXCEPT ![r] = "up"]
  /\ IF RedisUrl
       THEN UNCHANGED <<idem, answers>>
       ELSE /\ idem' = [idem EXCEPT ![r] = EmptyStore]
            /\ answers' = [answers EXCEPT ![r] = NoAnswers]
  /\ IF Celery
       THEN UNCHANGED <<queue, metrics, wk>>
       ELSE /\ queue' = [queue EXCEPT ![r] = {}]
            /\ metrics' = [metrics EXCEPT ![r] = ZeroCounters]
            /\ wk' = [w \in Workers |->
                        IF HostOf[w] = r THEN IdleWorker ELSE wk[w]]
  /\ UNCHANGED <<row, unacked, redeliveries>>

Crash(r) ==
  /\ r \in Crashable
  /\ Restart(r)

\* The server stops accepting requests and enters the end of lifespan.
BeginShutdown(r) ==
  /\ phase[r] = "up"
  /\ req[r].pc = "idle"
  /\ phase' = [phase EXCEPT ![r] = "draining"]
  /\ UNCHANGED <<row, idem, answers, queue, unacked, redeliveries, metrics,
                 req, wk>>

\* Mutant: shutdown does not wait for the jobs already submitted.
ShutdownWithoutWait(r) == TRUE

\* Mutant: shutdown cancels the futures that have not started.
ShutdownCancelsFutures(r) ==
  Celery \/ \A w \in Workers : HostOf[w] = r => wk[w].pc = "idle"

\* executor.shutdown(wait=True, cancel_futures=False) has returned;
\* CeleryJobRunner.shutdown returns at once.
PoolDrained(r) ==
  \/ Celery
  \/ /\ queue[r] = {}
     /\ \A w \in Workers : HostOf[w] = r => wk[w].pc = "idle"

EndShutdown(r) ==
  /\ phase[r] = "draining"
  /\ PoolDrained(r)
  /\ Restart(r)

-----------------------------------------------------------------------------
HandlerStep(r) ==
  \/ GetKey(r) \/ LoadHolder(r) \/ Reserve(r) \/ CreateRow(r) \/ Enqueue(r)
  \/ CountSubmitted(r) \/ Reply(r)

ExecutorStep(w) ==
  \/ Take(w) \/ Fetch(w) \/ Start(w) \/ RunPipeline(w) \/ Finish(w)
  \/ Notify(w) \/ Ack(w)

Next ==
  \/ \E r \in Replicas :
       \/ \E k \in Keys \cup {None} : CreateJob(r, k)
       \/ HandlerStep(r)
       \/ RequestFails(r)
       \/ Crash(r)
       \/ BeginShutdown(r)
       \/ EndShutdown(r)
  \/ \E w \in Workers :
       \/ ExecutorStep(w)
       \/ ExecutionFails(w)
       \/ VisibilityTimeout(w)
       \/ WorkerCrash(w)
       \/ ChildLost(w)
  \/ \E h \in Homes, k \in Keys : Expire(h, k)

Spec == Init /\ [][Next]_vars

(***************************************************************************)
(* A handler that was entered runs on, and a worker thread or process goes *)
(* on with its job and takes the next one: each runs by itself and waits   *)
(* for nobody.  Nothing obliges clients to send requests, and nothing      *)
(* obliges processes to die or keys to expire.                             *)
(***************************************************************************)
Fairness ==
  /\ \A r \in Replicas : WF_vars(HandlerStep(r))
  /\ \A w \in Workers : WF_vars(ExecutorStep(w))

FairSpec == Spec /\ Fairness

-----------------------------------------------------------------------------
(***************************************************************************)
(* Properties.                                                             *)
(***************************************************************************)

\* Idempotency-Key, whatever crashes, fails or is delivered twice: a request
\* that arrives when the key's job is already in the table, and whose key does
\* not expire meanwhile, never creates a job and is answered with that one
\* (SubmitPipelineJobUseCase.execute returns the replay).
RetryGetsSameJob ==
  \A r \in Replicas :
    /\ req[r].promised # None
    /\ req[r].pc \in {"create", "enqueue", "count", "reply"}
    => req[r].pc = "reply" /\ req[r].job = req[r].promised

\* While a key is reserved, all 202 answers for it carry one job id: "a repeated
\* POST with the same key -> the same job id" (AI_USAGE.md).
KeyNamesOneJob ==
  \A h \in Homes, k \in Keys :
    idem[h][k] # None => \A i, j \in answers[h][k] : i = j

InProgress(j) == \E r \in Replicas : req[r].pc # "idle" /\ req[r].job = j

\* While a key is reserved, its 202 answers carry the id that the store holds
\* for it, from the reservation on and until the key expires.  The one
\* exception is a holder that nobody can ever find: its request left execute
\* between reserve and the INSERT, so each retry submits a job of its own.
AnswersNameHolder ==
  \A h \in Homes, k \in Keys :
    idem[h][k] # None
      => \/ answers[h][k] \subseteq {idem[h][k]}
         \/ ~Exists(idem[h][k]) /\ ~InProgress(idem[h][k])

\* A job that was accepted or handed to a worker is in the table: submit
\* writes the row before it enqueues, so the executor's "Job not found" exit
\* is never taken and a client can always poll the id it was given.
AcceptedJobIsStored ==
  /\ \A r \in Replicas : req[r].pc \in {"enqueue", "count", "reply"}
                           => Exists(req[r].job)
  /\ \A h \in Homes : \A j \in queue[h] : Exists(j)
  /\ \A w \in Workers : wk[w].pc # "idle" => Exists(wk[w].job)

\* The columns of a row agree with its status: counts exactly when completed,
\* an error_message exactly when failed, finished_at exactly when terminal.
RowMatchesStatus ==
  \A j \in Jobs :
    /\ ("counts" \in row[j].filled) <=> row[j].status = "completed"
    /\ ("error_message" \in row[j].filled) <=> row[j].status = "failed"
    /\ ("finished_at" \in row[j].filled) <=> row[j].status \in Terminal
    /\ ("started_at" \in row[j].filled)
         <=> row[j].status \in Terminal \cup {"running"}

\* pipeline_jobs_completed_total and pipeline_jobs_failed_total count jobs: no
\* process reports more jobs finished than the table has finished jobs.
JobsCountedOnce ==
  \A h \in Homes :
    /\ metrics[h].completed
         <= Cardinality({j \in Jobs : row[j].status = "completed"})
    /\ metrics[h].failed
         <= Cardinality({j \in Jobs : row[j].status = "failed"})

\* What a client polls is an execution of the abstract life cycle.
Lifecycle == INSTANCE JobLifecycle
               WITH status <- [j \in Jobs |-> row[j].status]

\* The thread-pool runner implements the documented life cycle.
ImplementsLifecycle == Lifecycle!Spec
=============================================================================
