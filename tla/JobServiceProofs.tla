--------------------------- MODULE JobServiceProofs ---------------------------
(***************************************************************************)
(* Theorems about JobService and, with the history of JobLosses, about     *)
(* what is lost of a job, for every set of replicas, workers, jobs and     *)
(* keys and every choice of what may fail.                                 *)
(***************************************************************************)
EXTENDS JobLosses, FiniteSetTheorems, TLAPS

-----------------------------------------------------------------------------
(***************************************************************************)
(* Type correctness.                                                       *)
(***************************************************************************)

\* The places a replica or a worker uses are homes.
LEMMA HomesOK ==
  /\ \A r \in Replicas : /\ StoreHome(r) \in Homes
                         /\ RunnerHome(r) \in Homes
                         /\ r \in Homes
  /\ \A w \in Workers : HostOf[w] \in Replicas /\ WorkerHome(w) \in Homes
  /\ Shared \in Homes
BY HostAssumption DEF StoreHome, RunnerHome, WorkerHome, Homes

LEMMA IdleRequestOK ==
  /\ IdleRequest \in Request
  /\ IdleRequest.pc = "idle"
  /\ IdleRequest.promised = None
BY DEF IdleRequest, Request, RequestPcs, JobId

LEMMA IdleWorkerOK == IdleWorker \in Execution /\ IdleWorker.pc = "idle"
BY DEF IdleWorker, Execution, WorkerPcs, JobId, NoRow, PipelineJob, JobStatus,
       Columns

LEMMA RowsOK == NoRow \in PipelineJob /\ NewJob \in PipelineJob
BY DEF PipelineJob, JobStatus, Columns, NoRow, NewJob

LEMMA StoresOK ==
  /\ EmptyStore \in [Keys -> JobId]
  /\ NoAnswers \in [Keys -> SUBSET Jobs]
  /\ ZeroCounters \in [submitted : Nat, completed : Nat, failed : Nat]
BY DEF EmptyStore, JobId, NoAnswers, ZeroCounters

\* What the record updates of the handler and of the executor produce.
LEMMA HoldingOK ==
  ASSUME NEW q \in Request, NEW pc \in RequestPcs, NEW j \in JobId
  PROVE  /\ Holding(q, pc, j) \in Request
         /\ Holding(q, pc, j).pc = pc
         /\ Holding(q, pc, j).held = j
         /\ Holding(q, pc, j).job = q.job
         /\ Holding(q, pc, j).key = q.key
         /\ Holding(q, pc, j).promised = q.promised
BY DEF Holding, Request

LEMMA ReplayedOK ==
  ASSUME NEW q \in Request
  PROVE  /\ Replayed(q) \in Request
         /\ Replayed(q).pc = "reply"
         /\ Replayed(q).job = q.held
         /\ Replayed(q).key = q.key
         /\ Replayed(q).promised = q.promised
BY DEF Replayed, Request, RequestPcs

LEMMA HoldsOK ==
  ASSUME NEW x \in Execution, NEW pc \in WorkerPcs, NEW copy \in PipelineJob
  PROVE  /\ Holds(x, pc, copy) \in Execution
         /\ Holds(x, pc, copy).pc = pc
         /\ Holds(x, pc, copy).job = x.job
         /\ Holds(x, pc, copy).copy = copy
BY DEF Holds, Execution

\* TypeOK, and two facts that let it be kept: a delivery is outstanding only
\* for a busy worker, and the last write of an executor has a final status.
UnackedBusy ==
  /\ \A w \in unacked : wk[w].pc # "idle"
  /\ ~Celery => unacked = {}

FinishOutcome ==
  \A w \in Workers : wk[w].pc = "finish" => wk[w].copy.status \in Terminal

TypeInv == TypeOK /\ UnackedBusy /\ FinishOutcome

LEMMA TypeInvInit == Init => TypeInv
<1>. SUFFICES ASSUME Init PROVE TypeInv
  OBVIOUS
<1>1. req \in [Replicas -> Request] /\ \A r \in Replicas : RequestOK(req[r])
  BY IdleRequestOK DEF Init, RequestOK
<1>2. /\ wk \in [Workers -> Execution]
      /\ \A w \in Workers : wk[w].pc = "idle"
  BY IdleWorkerOK DEF Init
<1>3. /\ row \in [Jobs -> PipelineJob]
      /\ idem \in [Homes -> [Keys -> JobId]]
      /\ answers \in [Homes -> [Keys -> SUBSET Jobs]]
      /\ metrics \in [Homes -> [submitted : Nat, completed : Nat, failed : Nat]]
  BY RowsOK, StoresOK DEF Init
<1>4. /\ queue \in [Homes -> SUBSET Jobs]
      /\ unacked = {}
      /\ redeliveries \in [Jobs -> 0..MaxRedeliveries]
      /\ phase \in [Replicas -> {"up", "draining"}]
  BY BoundAssumption DEF Init
<1>. QED
  BY <1>1, <1>2, <1>3, <1>4 DEF TypeInv, TypeOK, UnackedBusy, FinishOutcome

\* A store with one key set, and counters with one of them advanced.
LEMMA StoreUpdateOK ==
  ASSUME NEW f \in [Homes -> [Keys -> JobId]], NEW h \in Homes, NEW k \in Keys,
         NEW v \in JobId
  PROVE  [f EXCEPT ![h][k] = v] \in [Homes -> [Keys -> JobId]]
OBVIOUS

LEMMA CountersOK ==
  ASSUME NEW f \in [Homes -> [submitted : Nat, completed : Nat, failed : Nat]],
         NEW h \in Homes
  PROVE  /\ [f EXCEPT ![h].submitted = @ + 1] \in
              [Homes -> [submitted : Nat, completed : Nat, failed : Nat]]
         /\ [f EXCEPT ![h].completed = @ + 1] \in
              [Homes -> [submitted : Nat, completed : Nat, failed : Nat]]
         /\ [f EXCEPT ![h].failed = @ + 1] \in
              [Homes -> [submitted : Nat, completed : Nat, failed : Nat]]
OBVIOUS

\* A request that only changes its program counter.
LEMMA RequestGoesTo ==
  ASSUME req \in [Replicas -> Request], \A s \in Replicas : RequestOK(req[s]),
         NEW r \in Replicas, NEW pc \in RequestPcs,
         req[r].pc # "idle", pc \notin {"get1", "load1", "load2"},
         pc \in {"reserve", "get2"} => req[r].key \in Keys,
         req' = [req EXCEPT ![r].pc = pc]
  PROVE  /\ req' \in [Replicas -> Request]
         /\ \A s \in Replicas : RequestOK(req'[s])
BY DEF Request, RequestOK

\* What every action of a POST handler does to the requests: it moves the
\* request of its own replica, to one that is well formed.
LEMMA GetKeyMoves ==
  ASSUME TypeOK, NEW r \in Replicas, GetKey(r)
  PROVE  /\ req' \in [Replicas -> Request]
         /\ \A s \in Replicas : RequestOK(req'[s])
<1>. DEFINE holder == idem[StoreHome(r)][req[r].key]
            next == IF holder = None THEN Unresolved(req[r].pc)
                    ELSE IF req[r].pc = "get1" THEN "load1" ELSE "load2"
<1>1. req[r] \in Request /\ req[r].key \in Keys /\ req[r].job \in Jobs
  BY DEF TypeOK, GetKey, RequestOK
<1>2. holder \in JobId
  BY <1>1, HomesOK DEF TypeOK
<1>3. next \in {"load1", "load2", "reserve", "create"} /\ next \in RequestPcs
  BY DEF Unresolved, RequestPcs
<1>4. next \in {"load1", "load2"} => holder \in Jobs
  BY <1>2 DEF JobId, Unresolved
<1>5. req' = [req EXCEPT ![r] = Holding(req[r], next, holder)]
  BY DEF GetKey
<1>. HIDE DEF holder, next
<1>6. /\ RequestOK(Holding(req[r], next, holder))
      /\ Holding(req[r], next, holder) \in Request
  BY <1>1, <1>2, <1>3, <1>4, HoldingOK DEF RequestOK
<1>. QED
  BY <1>5, <1>6 DEF TypeOK

LEMMA LoadHolderMoves ==
  ASSUME TypeOK, NEW r \in Replicas, LoadHolder(r)
  PROVE  /\ req' \in [Replicas -> Request]
         /\ \A s \in Replicas : RequestOK(req'[s])
<1>1. req[r] \in Request /\ req[r].held \in Jobs /\ RequestOK(req[r])
  BY DEF TypeOK, LoadHolder, RequestOK
<1>2. CASE req' = [req EXCEPT ![r] = Replayed(req[r])]
  <2>1. RequestOK(Replayed(req[r])) /\ Replayed(req[r]) \in Request
    BY <1>1, ReplayedOK DEF RequestOK
  <2>. QED
    BY <1>2, <2>1 DEF TypeOK
<1>3. CASE req' = [req EXCEPT ![r].pc = Unresolved(req[r].pc)]
  <2>1. /\ req[r].pc \in {"load1", "load2"}
        /\ req[r].key \in Keys
        /\ Unresolved(req[r].pc) \in RequestPcs \cap {"reserve", "create"}
    BY <1>1 DEF LoadHolder, RequestOK, Unresolved, RequestPcs
  <2>. QED
    BY <1>3, <2>1, RequestGoesTo DEF TypeOK
<1>. QED
  BY <1>2, <1>3 DEF LoadHolder

LEMMA HandlerTypeOK ==
  ASSUME TypeOK, NEW r \in Replicas, HandlerStep(r)
  PROVE  TypeOK'
<1>1. CASE GetKey(r)
  BY <1>1, GetKeyMoves DEF GetKey, TypeOK
<1>2. CASE LoadHolder(r)
  BY <1>2, LoadHolderMoves DEF LoadHolder, TypeOK
<1>3. CASE Reserve(r)
  <2>1. req[r].key \in Keys /\ req[r].job \in Jobs
    BY <1>3 DEF TypeOK, Reserve, RequestOK
  <2>2. idem' \in [Homes -> [Keys -> JobId]]
    <3>1. StoreHome(r) \in Homes /\ req[r].job \in JobId
      BY <2>1, HomesOK DEF JobId
    <3>2. idem \in [Homes -> [Keys -> JobId]]
      BY DEF TypeOK
    <3>3. CASE idem' = [idem EXCEPT ![StoreHome(r)][req[r].key] = req[r].job]
      BY <2>1, <3>1, <3>2, <3>3, StoreUpdateOK
    <3>4. CASE idem' = idem
      BY <3>2, <3>4
    <3>. QED
      BY <1>3, <3>3, <3>4 DEF Reserve
  <2>3. /\ req' \in [Replicas -> Request]
        /\ \A s \in Replicas : RequestOK(req'[s])
    <3>1. \E next \in {"create", "get2"} : req' = [req EXCEPT ![r].pc = next]
      BY <1>3 DEF Reserve
    <3>. QED
      BY <1>3, <2>1, <3>1, RequestGoesTo DEF TypeOK, Reserve, RequestPcs
  <2>. QED
    BY <1>3, <2>2, <2>3 DEF Reserve, TypeOK
<1>4. CASE CreateRow(r)
  <2>1. /\ req' \in [Replicas -> Request]
        /\ \A s \in Replicas : RequestOK(req'[s])
    BY <1>4 DEF CreateRow, TypeOK, Request, RequestPcs, RequestOK
  <2>2. row' \in [Jobs -> PipelineJob]
    BY <1>4, RowsOK DEF CreateRow, TypeOK
  <2>. QED
    BY <1>4, <2>1, <2>2 DEF CreateRow, TypeOK
<1>5. CASE Enqueue(r)
  <2>1. /\ req' \in [Replicas -> Request]
        /\ \A s \in Replicas : RequestOK(req'[s])
    BY <1>5 DEF Enqueue, TypeOK, Request, RequestPcs, RequestOK
  <2>2. req[r].job \in Jobs
    BY <1>5 DEF Enqueue, TypeOK, RequestOK
  <2>3. queue' \in [Homes -> SUBSET Jobs]
    BY <1>5, <2>2, HomesOK DEF Enqueue, TypeOK
  <2>. QED
    BY <1>5, <2>1, <2>3 DEF Enqueue, TypeOK
<1>6. CASE CountSubmitted(r)
  <2>1. /\ req' \in [Replicas -> Request]
        /\ \A s \in Replicas : RequestOK(req'[s])
    BY <1>6 DEF CountSubmitted, TypeOK, Request, RequestPcs, RequestOK
  <2>2. metrics' \in [Homes -> [submitted : Nat, completed : Nat, failed : Nat]]
    BY <1>6, HomesOK, CountersOK DEF CountSubmitted, TypeOK
  <2>. QED
    BY <1>6, <2>1, <2>2 DEF CountSubmitted, TypeOK
<1>7. CASE Reply(r)
  <2>1. /\ req' \in [Replicas -> Request]
        /\ \A s \in Replicas : RequestOK(req'[s])
    BY <1>7, IdleRequestOK DEF Reply, TypeOK, RequestOK
  <2>2. req[r].job \in Jobs /\ req[r].key \in Keys \cup {None}
    BY <1>7 DEF Reply, TypeOK, RequestOK, Request
  <2>3. answers' \in [Homes -> [Keys -> SUBSET Jobs]]
    BY <1>7, <2>2, HomesOK DEF Reply, TypeOK
  <2>. QED
    BY <1>7, <2>1, <2>3 DEF Reply, TypeOK
<1>. QED
  BY <1>1, <1>2, <1>3, <1>4, <1>5, <1>6, <1>7 DEF HandlerStep

LEMMA CreateJobTypeOK ==
  ASSUME TypeOK, NEW r \in Replicas, NEW k \in Keys \cup {None},
         CreateJob(r, k)
  PROVE  TypeOK'
<1>1. Promise(r, k) \in JobId
  BY HomesOK DEF Promise, TypeOK, JobId
<1>2. PICK j \in Jobs :
        req' = [req EXCEPT ![r] =
            [pc |-> IF k = None THEN "create" ELSE "get1",
             key |-> k, job |-> j, held |-> None, promised |-> Promise(r, k)]]
  BY DEF CreateJob
<1>. DEFINE q == [pc |-> IF k = None THEN "create" ELSE "get1",
                  key |-> k, job |-> j, held |-> None,
                  promised |-> Promise(r, k)]
<1>3. q \in Request /\ RequestOK(q)
  BY <1>1 DEF Request, RequestPcs, JobId, RequestOK
<1>4. req' = [req EXCEPT ![r] = q]
  BY <1>2
<1>. HIDE DEF q
<1>5. /\ req' \in [Replicas -> Request]
      /\ \A s \in Replicas : RequestOK(req'[s])
  BY <1>3, <1>4 DEF TypeOK
<1>. QED
  BY <1>5 DEF CreateJob, TypeOK

LEMMA RequestFailsTypeOK ==
  ASSUME TypeOK, NEW r \in Replicas, RequestFails(r)
  PROVE  TypeOK'
<1>1. /\ req' \in [Replicas -> Request]
      /\ \A s \in Replicas : RequestOK(req'[s])
  BY IdleRequestOK DEF RequestFails, TypeOK, RequestOK
<1>. QED
  BY <1>1 DEF RequestFails, TypeOK

\* Restart, which both Crash and EndShutdown perform, keeps the types.
LEMMA RestartTypeOK ==
  ASSUME TypeOK, NEW r \in Replicas, Restart(r)
  PROVE  TypeOK'
<1>1. /\ req' \in [Replicas -> Request]
      /\ \A s \in Replicas : RequestOK(req'[s])
  BY IdleRequestOK DEF Restart, TypeOK, RequestOK
<1>2. phase' \in [Replicas -> {"up", "draining"}]
  BY DEF Restart, TypeOK
<1>3. /\ idem' \in [Homes -> [Keys -> JobId]]
      /\ answers' \in [Homes -> [Keys -> SUBSET Jobs]]
  <2>1. CASE RedisUrl
    BY <2>1 DEF Restart, TypeOK
  <2>2. CASE ~RedisUrl
    <3>1. /\ idem' = [idem EXCEPT ![r] = EmptyStore]
          /\ answers' = [answers EXCEPT ![r] = NoAnswers]
      BY <2>2 DEF Restart
    <3>2. /\ idem \in [Homes -> [Keys -> JobId]]
          /\ answers \in [Homes -> [Keys -> SUBSET Jobs]]
      BY DEF TypeOK
    <3>. QED
      BY <3>1, <3>2, StoresOK
  <2>. QED
    BY <2>1, <2>2
<1>4. /\ queue' \in [Homes -> SUBSET Jobs]
      /\ metrics' \in [Homes -> [submitted : Nat, completed : Nat, failed : Nat]]
  <2>1. CASE Celery
    BY <2>1 DEF Restart, TypeOK
  <2>2. CASE ~Celery
    <3>1. /\ queue' = [queue EXCEPT ![r] = {}]
          /\ metrics' = [metrics EXCEPT ![r] = ZeroCounters]
      BY <2>2 DEF Restart
    <3>2. /\ queue \in [Homes -> SUBSET Jobs]
          /\ metrics \in
               [Homes -> [submitted : Nat, completed : Nat, failed : Nat]]
      BY DEF TypeOK
    <3>. QED
      BY <3>1, <3>2, StoresOK
  <2>. QED
    BY <2>1, <2>2
<1>5. /\ wk' \in [Workers -> Execution]
      /\ \A w \in Workers : wk'[w].pc # "idle" => wk'[w].job \in Jobs
  BY IdleWorkerOK DEF Restart, TypeOK
<1>. QED
  BY <1>1, <1>2, <1>3, <1>4, <1>5 DEF Restart, TypeOK

LEMMA ExpireTypeOK ==
  ASSUME TypeOK, NEW h \in Homes, NEW k \in Keys, Expire(h, k)
  PROVE  TypeOK'
<1>1. \A s \in Replicas : [req[s] EXCEPT !.promised = None] \in Request
  BY DEF TypeOK, Request, JobId
<1>2. \A s \in Replicas : RequestOK([req[s] EXCEPT !.promised = None])
  BY DEF TypeOK, Request, RequestOK
<1>3. /\ req' \in [Replicas -> Request]
      /\ \A s \in Replicas : RequestOK(req'[s])
  BY <1>1, <1>2 DEF Expire, TypeOK
<1>4. /\ idem' \in [Homes -> [Keys -> JobId]]
      /\ answers' \in [Homes -> [Keys -> SUBSET Jobs]]
  BY DEF Expire, TypeOK, JobId
<1>. QED
  BY <1>3, <1>4 DEF Expire, TypeOK

-----------------------------------------------------------------------------
\* What a step of an executor does to the executions.
LEMMA ExecutionGoesTo ==
  ASSUME TypeOK, NEW w \in Workers, NEW pc \in WorkerPcs,
         wk[w].pc # "idle",
         wk' = [wk EXCEPT ![w].pc = pc]
  PROVE  /\ wk' \in [Workers -> Execution]
         /\ \A v \in Workers : wk'[v].pc # "idle" => wk'[v].job \in Jobs
         /\ wk'[w].pc = pc
         /\ wk'[w].copy = wk[w].copy
         /\ \A v \in Workers \ {w} : wk'[v] = wk[v]
<1>1. wk \in [Workers -> Execution]
  BY DEF TypeOK
<1>2. \A v \in Workers : wk[v].pc # "idle" => wk[v].job \in Jobs
  BY DEF TypeOK
<1>. QED
  BY <1>1, <1>2 DEF Execution

LEMMA ExecutionHolds ==
  ASSUME TypeOK, NEW w \in Workers, NEW pc \in WorkerPcs,
         NEW copy \in PipelineJob,
         wk[w].pc # "idle",
         wk' = [wk EXCEPT ![w] = Holds(wk[w], pc, copy)]
  PROVE  /\ wk' \in [Workers -> Execution]
         /\ \A v \in Workers : wk'[v].pc # "idle" => wk'[v].job \in Jobs
         /\ wk'[w].pc = pc
         /\ wk'[w].copy = copy
         /\ \A v \in Workers \ {w} : wk'[v] = wk[v]
<1>1. wk \in [Workers -> Execution]
  BY DEF TypeOK
<1>2. \A v \in Workers : wk[v].pc # "idle" => wk[v].job \in Jobs
  BY DEF TypeOK
<1>3. /\ Holds(wk[w], pc, copy) \in Execution
      /\ Holds(wk[w], pc, copy).pc = pc
      /\ Holds(wk[w], pc, copy).job = wk[w].job
      /\ Holds(wk[w], pc, copy).copy = copy
  BY <1>1, HoldsOK
<1>. QED
  BY <1>1, <1>2, <1>3

LEMMA ExecutionReset ==
  ASSUME TypeOK, NEW w \in Workers, NEW x \in Execution,
         x.pc # "idle" => x.job \in Jobs,
         wk' = [wk EXCEPT ![w] = x]
  PROVE  /\ wk' \in [Workers -> Execution]
         /\ \A v \in Workers : wk'[v].pc # "idle" => wk'[v].job \in Jobs
         /\ wk'[w] = x
         /\ \A v \in Workers \ {w} : wk'[v] = wk[v]
BY DEF TypeOK

\* The local copy with which an executor makes its two updates.
LEMMA CopyOK ==
  ASSUME NEW x \in PipelineJob, NEW s \in JobStatus, NEW c \in Columns
  PROVE  [status |-> s, filled |-> x.filled \cup {c}] \in PipelineJob
BY DEF PipelineJob

LEMMA UpdateTypeInv ==
  ASSUME TypeInv, NEW w \in Workers, NEW copy \in PipelineJob,
         NEW next \in WorkerPcs \ {"idle", "finish"},
         wk[w].pc # "idle", Update(w, copy, next)
  PROVE  TypeInv'
<1>1. TypeOK
  BY DEF TypeInv
<1>2. wk' = [wk EXCEPT ![w] = Holds(wk[w], next, copy)]
  BY DEF Update
<1>3. wk[w].job \in Jobs /\ row' \in [Jobs -> PipelineJob]
  BY <1>1 DEF Update, TypeOK
<1>4. /\ wk' \in [Workers -> Execution]
      /\ \A v \in Workers : wk'[v].pc # "idle" => wk'[v].job \in Jobs
      /\ wk'[w].pc = next
      /\ \A v \in Workers \ {w} : wk'[v] = wk[v]
  BY <1>1, <1>2, ExecutionHolds
<1>5. UnackedBusy' /\ FinishOutcome'
  BY <1>1, <1>4 DEF TypeInv, TypeOK, Update, UnackedBusy, FinishOutcome
<1>. QED
  BY <1>1, <1>3, <1>4, <1>5 DEF TypeInv, TypeOK, Update

LEMMA TakeTypeInv ==
  ASSUME TypeInv, NEW w \in Workers, Take(w)
  PROVE  TypeInv'
<1>1. TypeOK
  BY DEF TypeInv
<1>2. PICK j \in queue[WorkerHome(w)] :
        /\ queue' = [queue EXCEPT ![WorkerHome(w)] = @ \ {j}]
        /\ wk' = [wk EXCEPT ![w] = [pc |-> "fetch", job |-> j, copy |-> NoRow]]
  BY DEF Take
<1>3. j \in Jobs /\ queue' \in [Homes -> SUBSET Jobs]
  BY <1>1, <1>2, HomesOK DEF TypeOK
<1>. DEFINE x == [pc |-> "fetch", job |-> j, copy |-> NoRow]
<1>4. x \in Execution /\ x.pc = "fetch" /\ x.job = j
  BY <1>3, RowsOK DEF Execution, WorkerPcs, JobId
<1>5. wk' = [wk EXCEPT ![w] = x]
  BY <1>2
<1>. HIDE DEF x
<1>6. /\ wk' \in [Workers -> Execution]
      /\ \A v \in Workers : wk'[v].pc # "idle" => wk'[v].job \in Jobs
      /\ wk'[w].pc = "fetch"
      /\ \A v \in Workers \ {w} : wk'[v] = wk[v]
  BY <1>1, <1>3, <1>4, <1>5, ExecutionReset
<1>7. unacked' \subseteq Workers /\ UnackedBusy'
  BY <1>1, <1>6 DEF TypeInv, TypeOK, UnackedBusy, Take
<1>. QED
  BY <1>1, <1>3, <1>6, <1>7 DEF TypeInv, TypeOK, FinishOutcome, Take

LEMMA ExecutorTypeInv ==
  ASSUME TypeInv, NEW w \in Workers, ExecutorStep(w)
  PROVE  TypeInv'
<1>. DEFINE x == wk[w]
<1>0. /\ TypeOK
      /\ x \in Execution /\ x.copy \in PipelineJob
      /\ x.pc # "idle" => x.job \in Jobs
  BY DEF TypeInv, TypeOK, Execution
<1>1. CASE Take(w)
  BY <1>1, TakeTypeInv
<1>2. CASE Fetch(w)
  <2>1. x.pc = "fetch" /\ row[x.job] \in PipelineJob
    BY <1>0, <1>2 DEF Fetch, TypeOK
  <2>2. /\ wk' \in [Workers -> Execution]
        /\ \A v \in Workers : wk'[v].pc # "idle" => wk'[v].job \in Jobs
        /\ wk'[w].pc \in {"start", "ack"}
        /\ \A v \in Workers \ {w} : wk'[v] = wk[v]
    <3>1. CASE wk' = [wk EXCEPT ![w] = Holds(wk[w], "start", row[x.job])]
      BY <1>0, <2>1, <3>1, ExecutionHolds DEF WorkerPcs
    <3>2. CASE wk' = [wk EXCEPT ![w].pc = "ack"]
      BY <1>0, <2>1, <3>2, ExecutionGoesTo DEF WorkerPcs
    <3>. QED
      BY <1>2, <3>1, <3>2 DEF Fetch
  <2>3. UnackedBusy' /\ FinishOutcome'
    BY <1>2, <2>2 DEF TypeInv, TypeOK, Fetch, UnackedBusy, FinishOutcome
  <2>. QED
    BY <1>0, <1>2, <2>2, <2>3 DEF TypeInv, TypeOK, Fetch
<1>3. CASE Start(w)
  <2>1. [status |-> "running", filled |-> x.copy.filled \cup {"started_at"}]
          \in PipelineJob
    BY <1>0, CopyOK DEF JobStatus, Columns
  <2>. QED
    BY <1>3, <2>1, UpdateTypeInv DEF Start, WorkerPcs
<1>4. CASE RunPipeline(w)
  <2>1. PICK outcome \in Outcomes :
          wk' = [wk EXCEPT ![w] = Holds(wk[w], "finish",
                   [status |-> outcome.status,
                    filled |-> wk[w].copy.filled \cup {outcome.column}])]
    BY <1>4 DEF RunPipeline
  <2>. DEFINE c == [status |-> outcome.status,
                    filled |-> wk[w].copy.filled \cup {outcome.column}]
  <2>2. outcome.status \in Terminal \cap JobStatus /\ outcome.column \in Columns
    BY DEF Outcomes, Terminal, JobStatus, Columns
  <2>3. c \in PipelineJob /\ c.status \in Terminal
    BY <1>0, <2>2, CopyOK
  <2>4. wk' = [wk EXCEPT ![w] = Holds(wk[w], "finish", c)]
    BY <2>1
  <2>. HIDE DEF c
  <2>5. /\ wk' \in [Workers -> Execution]
        /\ \A v \in Workers : wk'[v].pc # "idle" => wk'[v].job \in Jobs
        /\ wk'[w].pc = "finish"
        /\ wk'[w].copy = c
        /\ \A v \in Workers \ {w} : wk'[v] = wk[v]
    BY <1>0, <1>4, <2>3, <2>4, ExecutionHolds DEF RunPipeline, WorkerPcs
  <2>6. UnackedBusy' /\ FinishOutcome'
    BY <1>4, <2>3, <2>5 DEF TypeInv, TypeOK, RunPipeline, UnackedBusy,
                            FinishOutcome
  <2>. QED
    BY <1>0, <1>4, <2>5, <2>6 DEF TypeInv, TypeOK, RunPipeline
<1>5. CASE Finish(w)
  <2>1. x.copy.status \in JobStatus
    BY <1>5 DEF Finish, TypeInv, FinishOutcome, Terminal, JobStatus
  <2>2. [status |-> x.copy.status,
         filled |-> x.copy.filled \cup {"finished_at"}] \in PipelineJob
    BY <1>0, <2>1, CopyOK DEF Columns
  <2>. QED
    BY <1>5, <2>2, UpdateTypeInv DEF Finish, WorkerPcs
<1>6. CASE Notify(w)
  <2>1. metrics' \in [Homes -> [submitted : Nat, completed : Nat, failed : Nat]]
    BY <1>0, <1>6, HomesOK, CountersOK DEF Notify, TypeOK
  <2>2. /\ wk' \in [Workers -> Execution]
        /\ \A v \in Workers : wk'[v].pc # "idle" => wk'[v].job \in Jobs
        /\ wk'[w].pc = "ack"
        /\ \A v \in Workers \ {w} : wk'[v] = wk[v]
    BY <1>0, <1>6, ExecutionGoesTo DEF Notify, WorkerPcs
  <2>3. UnackedBusy' /\ FinishOutcome'
    BY <1>6, <2>2 DEF TypeInv, TypeOK, Notify, UnackedBusy, FinishOutcome
  <2>. QED
    BY <1>0, <1>6, <2>1, <2>2, <2>3 DEF TypeInv, TypeOK, Notify
<1>7. CASE Ack(w)
  <2>1. /\ wk' \in [Workers -> Execution]
        /\ \A v \in Workers : wk'[v].pc # "idle" => wk'[v].job \in Jobs
        /\ wk'[w].pc = "idle"
        /\ \A v \in Workers \ {w} : wk'[v] = wk[v]
    BY <1>0, <1>7, IdleWorkerOK, ExecutionReset DEF Ack
  <2>2. unacked' \subseteq Workers /\ UnackedBusy' /\ FinishOutcome'
    BY <1>7, <2>1 DEF TypeInv, TypeOK, Ack, UnackedBusy, FinishOutcome
  <2>. QED
    BY <1>0, <1>7, <2>1, <2>2 DEF TypeInv, TypeOK, Ack
<1>. QED
  BY <1>1, <1>2, <1>3, <1>4, <1>5, <1>6, <1>7 DEF ExecutorStep

LEMMA ExecutionFailsTypeInv ==
  ASSUME TypeInv, NEW w \in Workers, ExecutionFails(w)
  PROVE  TypeInv'
<1>1. TypeOK /\ wk[w].pc # "idle"
  BY FaultsAssumption DEF TypeInv, ExecutionFails, HandlerFaults,
                          ExecutorFaults, Mishaps
<1>2. /\ wk' \in [Workers -> Execution]
      /\ \A v \in Workers : wk'[v].pc # "idle" => wk'[v].job \in Jobs
      /\ wk'[w].pc = "ack"
      /\ \A v \in Workers \ {w} : wk'[v] = wk[v]
  BY <1>1, ExecutionGoesTo DEF ExecutionFails, WorkerPcs
<1>3. UnackedBusy' /\ FinishOutcome'
  BY <1>2 DEF TypeInv, TypeOK, ExecutionFails, UnackedBusy, FinishOutcome
<1>. QED
  BY <1>1, <1>2, <1>3 DEF TypeInv, TypeOK, ExecutionFails

\* A message that is put back stays typed, and within its bound.
LEMMA PutBackTypeOK ==
  ASSUME TypeOK, NEW w \in Workers, wk[w].pc # "idle", PutBack(w)
  PROVE  /\ redeliveries' \in [Jobs -> 0..MaxRedeliveries]
         /\ queue' \in [Homes -> SUBSET Jobs]
         /\ unacked' \subseteq Workers
<1>1. wk[w].job \in Jobs
  BY DEF TypeOK
<1>2. redeliveries \in [Jobs -> 0..MaxRedeliveries]
  BY DEF TypeOK
<1>3. redeliveries[wk[w].job] + 1 \in 0..MaxRedeliveries
  BY <1>1, <1>2, BoundAssumption DEF PutBack
<1>4. redeliveries' = [redeliveries EXCEPT ![wk[w].job] =
                         redeliveries[wk[w].job] + 1]
  BY DEF PutBack
<1>5. redeliveries' \in [Jobs -> 0..MaxRedeliveries]
  BY <1>1, <1>2, <1>3, <1>4
<1>. QED
  BY <1>1, <1>5, HomesOK DEF TypeOK, PutBack

LEMMA BrokerTypeInv ==
  ASSUME TypeInv, NEW w \in Workers,
         VisibilityTimeout(w) \/ WorkerCrash(w) \/ ChildLost(w)
  PROVE  TypeInv'
<1>0. TypeOK
  BY DEF TypeInv
<1>1. CASE VisibilityTimeout(w)
  <2>1. wk[w].pc # "idle"
    BY <1>1 DEF VisibilityTimeout, TypeInv, UnackedBusy
  <2>2. /\ redeliveries' \in [Jobs -> 0..MaxRedeliveries]
        /\ queue' \in [Homes -> SUBSET Jobs]
        /\ unacked' \subseteq Workers
        /\ unacked' \subseteq unacked
    BY <1>0, <1>1, <2>1, PutBackTypeOK DEF VisibilityTimeout, PutBack
  <2>3. UnackedBusy' /\ FinishOutcome'
    BY <1>1, <2>2 DEF VisibilityTimeout, TypeInv, UnackedBusy, FinishOutcome
  <2>. QED
    BY <1>0, <1>1, <2>2, <2>3 DEF VisibilityTimeout, TypeInv, TypeOK
<1>2. CASE WorkerCrash(w)
  <2>1. /\ redeliveries' \in [Jobs -> 0..MaxRedeliveries]
        /\ queue' \in [Homes -> SUBSET Jobs]
        /\ unacked' \subseteq Workers
        /\ unacked' \subseteq unacked \ {w}
    <3>1. CASE w \in unacked
      BY <1>0, <1>2, <3>1, PutBackTypeOK DEF WorkerCrash, PutBack
    <3>2. CASE w \notin unacked
      BY <1>0, <1>2, <3>2 DEF WorkerCrash, TypeOK
    <3>. QED
      BY <3>1, <3>2
  <2>2. /\ wk' \in [Workers -> Execution]
        /\ \A v \in Workers : wk'[v].pc # "idle" => wk'[v].job \in Jobs
        /\ wk'[w].pc = "idle"
        /\ \A v \in Workers \ {w} : wk'[v] = wk[v]
    BY <1>0, <1>2, IdleWorkerOK, ExecutionReset DEF WorkerCrash
  <2>3. UnackedBusy' /\ FinishOutcome'
    BY <1>0, <1>2, <2>1, <2>2 DEF WorkerCrash, TypeInv, TypeOK, UnackedBusy,
                                  FinishOutcome
  <2>. QED
    BY <1>0, <1>2, <2>1, <2>2, <2>3 DEF WorkerCrash, TypeInv, TypeOK
<1>3. CASE ChildLost(w)
  <2>1. /\ wk' \in [Workers -> Execution]
        /\ \A v \in Workers : wk'[v].pc # "idle" => wk'[v].job \in Jobs
        /\ wk'[w].pc = "idle"
        /\ \A v \in Workers \ {w} : wk'[v] = wk[v]
    BY <1>0, <1>3, IdleWorkerOK, ExecutionReset DEF ChildLost
  <2>2. unacked' \subseteq Workers /\ UnackedBusy' /\ FinishOutcome'
    BY <1>0, <1>3, <2>1 DEF ChildLost, TypeInv, TypeOK, UnackedBusy,
                            FinishOutcome
  <2>. QED
    BY <1>0, <1>3, <2>1, <2>2 DEF ChildLost, TypeInv, TypeOK
<1>. QED
  BY <1>1, <1>2, <1>3

\* Steps that leave the executions and the deliveries alone.
LEMMA QuietTypeInv ==
  ASSUME TypeInv, TypeOK', UNCHANGED <<wk, unacked>>
  PROVE  TypeInv'
BY DEF TypeInv, UnackedBusy, FinishOutcome

LEMMA ReplicaTypeInv ==
  ASSUME TypeInv, NEW r \in Replicas,
         \/ \E k \in Keys \cup {None} : CreateJob(r, k)
         \/ HandlerStep(r)
         \/ RequestFails(r)
         \/ Crash(r)
         \/ BeginShutdown(r)
         \/ EndShutdown(r)
  PROVE  TypeInv'
<1>0. TypeOK
  BY DEF TypeInv
<1>1. CASE \E k \in Keys \cup {None} : CreateJob(r, k)
  BY <1>0, <1>1, CreateJobTypeOK, QuietTypeInv DEF CreateJob
<1>2. CASE HandlerStep(r)
  <2>1. UNCHANGED <<wk, unacked>>
    BY <1>2 DEF HandlerStep, GetKey, LoadHolder, Reserve, CreateRow, Enqueue,
                CountSubmitted, Reply
  <2>. QED
    BY <1>0, <1>2, <2>1, HandlerTypeOK, QuietTypeInv
<1>3. CASE RequestFails(r)
  BY <1>0, <1>3, RequestFailsTypeOK, QuietTypeInv DEF RequestFails
<1>4. CASE Restart(r)
  <2>1. TypeOK'
    BY <1>0, <1>4, RestartTypeOK
  <2>2. CASE Celery
    BY <1>4, <2>1, <2>2, QuietTypeInv DEF Restart
  <2>3. CASE ~Celery
    <3>1. /\ wk' = [w \in Workers |->
                      IF HostOf[w] = r THEN IdleWorker ELSE wk[w]]
          /\ unacked' = unacked
      BY <1>4, <2>3 DEF Restart
    <3>2. UnackedBusy' /\ FinishOutcome'
      BY <2>3, <3>1, IdleWorkerOK DEF TypeInv, UnackedBusy, FinishOutcome
    <3>. QED
      BY <2>1, <3>2 DEF TypeInv
  <2>. QED
    BY <2>2, <2>3
<1>5. CASE BeginShutdown(r)
  <2>1. TypeOK'
    BY <1>0, <1>5 DEF BeginShutdown, TypeOK
  <2>. QED
    BY <1>5, <2>1, QuietTypeInv DEF BeginShutdown
<1>. QED
  BY <1>1, <1>2, <1>3, <1>4, <1>5 DEF Crash, EndShutdown

LEMMA TypeInvNext == TypeInv /\ [Next]_vars => TypeInv'
<1>. SUFFICES ASSUME TypeInv, [Next]_vars PROVE TypeInv'
  OBVIOUS
<1>1. CASE UNCHANGED vars
  BY <1>1 DEF vars, TypeInv, TypeOK, UnackedBusy, FinishOutcome
<1>2. ASSUME NEW w \in Workers,
             \/ ExecutorStep(w)
             \/ ExecutionFails(w)
             \/ VisibilityTimeout(w)
             \/ WorkerCrash(w)
             \/ ChildLost(w)
      PROVE  TypeInv'
  BY <1>2, ExecutorTypeInv, ExecutionFailsTypeInv, BrokerTypeInv
<1>3. ASSUME NEW h \in Homes, NEW k \in Keys, Expire(h, k)
      PROVE  TypeInv'
  BY <1>3, ExpireTypeOK, QuietTypeInv DEF Expire, TypeInv
<1>. QED
  BY <1>1, <1>2, <1>3, ReplicaTypeInv DEF Next

\* The service never leaves its types, whatever crashes, fails or is delivered
\* again: every request has a job id, a key and a holder where it uses them.
THEOREM TypeInvariant == Spec => []TypeInv
BY TypeInvInit, TypeInvNext, PTL DEF Spec

\* Requests, rows, queues, executions and counters keep their types.
THEOREM TypeCorrect == Spec => []TypeOK
<1>1. TypeInv => TypeOK
  BY DEF TypeInv
<1>. QED
  BY <1>1, TypeInvariant, PTL

-----------------------------------------------------------------------------
(***************************************************************************)
(* Rows are never deleted, and jobs are stored before they are handed on.  *)
(***************************************************************************)

LEMMA RowsStay ==
  ASSUME TypeInv, [Next]_vars, NEW j \in Jobs, Exists(j)
  PROVE  Exists(j)'
<1>0. row \in [Jobs -> PipelineJob]
  BY DEF TypeInv, TypeOK
<1>1. CASE UNCHANGED row
  BY <1>1 DEF Exists
<1>2. ASSUME NEW r \in Replicas, CreateRow(r)
      PROVE  Exists(j)'
  BY <1>0, <1>2 DEF CreateRow, Exists, NewJob
<1>3. ASSUME NEW w \in Workers, Start(w)
      PROVE  Exists(j)'
  BY <1>0, <1>3 DEF Start, Update, Exists
<1>4. ASSUME NEW w \in Workers, Finish(w)
      PROVE  Exists(j)'
  BY <1>0, <1>4 DEF Finish, Update, Exists, TypeInv, FinishOutcome, Terminal
<1>5. \/ UNCHANGED row
      \/ \E r \in Replicas : CreateRow(r)
      \/ \E w \in Workers : Start(w) \/ Finish(w)
  BY DEF Next, vars, CreateJob, HandlerStep, GetKey, LoadHolder, Reserve,
         Enqueue, CountSubmitted, Reply, RequestFails, Crash, BeginShutdown,
         EndShutdown, Restart, ExecutorStep, Take, Fetch, RunPipeline, Notify,
         Ack, ExecutionFails, VisibilityTimeout, WorkerCrash, ChildLost, Expire
<1>. QED
  BY <1>1, <1>2, <1>3, <1>4, <1>5

\* A request that is past the INSERT, or that replays, has a stored job.
RequestStored(r) ==
  req[r].pc \in {"enqueue", "count", "reply"} => Exists(req[r].job)

QueuesStored == \A h \in Homes : \A j \in queue[h] : Exists(j)

ExecutionStored(w) == wk[w].pc # "idle" => Exists(wk[w].job)

LEMMA AcceptedParts ==
  AcceptedJobIsStored <=> /\ \A r \in Replicas : RequestStored(r)
                          /\ QueuesStored
                          /\ \A w \in Workers : ExecutionStored(w)
BY DEF AcceptedJobIsStored, RequestStored, QueuesStored, ExecutionStored

LEMMA AcceptedInit == Init => AcceptedJobIsStored
BY IdleRequestOK, IdleWorkerOK DEF Init, AcceptedJobIsStored

\* Each part survives a step that leaves its state alone, as rows stay.
LEMMA AcceptedQuiet ==
  ASSUME TypeInv, AcceptedJobIsStored, [Next]_vars
  PROVE  /\ \A r \in Replicas :
              req'[r].pc = req[r].pc /\ req'[r].job = req[r].job
                => RequestStored(r)'
         /\ UNCHANGED queue => QueuesStored'
         /\ \A w \in Workers :
              \/ wk'[w].pc = "idle"
              \/ wk[w].pc # "idle" /\ wk'[w].job = wk[w].job
              \/ wk'[w] = wk[w]
              => ExecutionStored(w)'
<1>1. \A j \in Jobs : Exists(j) => Exists(j)'
  BY RowsStay
<1>2. /\ \A r \in Replicas : req[r].pc # "idle" => req[r].job \in Jobs
      /\ \A w \in Workers : wk[w].pc # "idle" => wk[w].job \in Jobs
      /\ \A h \in Homes : queue[h] \subseteq Jobs
  BY DEF TypeInv, TypeOK, RequestOK
<1>3. ASSUME NEW r \in Replicas,
             req'[r].pc = req[r].pc, req'[r].job = req[r].job
      PROVE  RequestStored(r)'
  BY <1>1, <1>2, <1>3, AcceptedParts DEF RequestStored, Exists
<1>4. ASSUME UNCHANGED queue
      PROVE  QueuesStored'
  BY <1>1, <1>2, <1>4, AcceptedParts DEF QueuesStored, Exists
<1>5. ASSUME NEW w \in Workers,
             \/ wk'[w].pc = "idle"
             \/ wk[w].pc # "idle" /\ wk'[w].job = wk[w].job
             \/ wk'[w] = wk[w]
      PROVE  ExecutionStored(w)'
  BY <1>1, <1>2, <1>5, AcceptedParts DEF ExecutionStored, Exists
<1>. QED
  BY <1>3, <1>4, <1>5

\* A handler's step keeps the three parts.
LEMMA AcceptedHandler ==
  ASSUME TypeInv, AcceptedJobIsStored, [Next]_vars, NEW r \in Replicas,
         HandlerStep(r)
  PROVE  AcceptedJobIsStored'
<1>0. /\ req \in [Replicas -> Request]
      /\ req[r] \in Request
      /\ RequestOK(req[r])
      /\ RequestStored(r)
      /\ QueuesStored
      /\ \A j \in Jobs : Exists(j) => Exists(j)'
  BY RowsStay, AcceptedParts DEF TypeInv, TypeOK
<1>1. \A w \in Workers : ExecutionStored(w)'
  BY AcceptedQuiet DEF HandlerStep, GetKey, LoadHolder, Reserve, CreateRow,
                       Enqueue, CountSubmitted, Reply
<1>2. \A s \in Replicas \ {r} : req'[s] = req[s]
  BY <1>0 DEF HandlerStep, GetKey, LoadHolder, Reserve, CreateRow, Enqueue,
              CountSubmitted, Reply
<1>3. \A s \in Replicas \ {r} : RequestStored(s)'
  BY <1>2, AcceptedQuiet
<1>4. CASE GetKey(r)
  <2>. DEFINE holder == idem[StoreHome(r)][req[r].key]
              next == IF holder = None THEN Unresolved(req[r].pc)
                      ELSE IF req[r].pc = "get1" THEN "load1" ELSE "load2"
  <2>1. next \in {"load1", "load2", "reserve", "create"} /\ next \in RequestPcs
    BY DEF Unresolved, RequestPcs
  <2>2. holder \in JobId
    BY <1>0, <1>4, HomesOK DEF TypeInv, TypeOK, GetKey, RequestOK
  <2>3. req' = [req EXCEPT ![r] = Holding(req[r], next, holder)]
    BY <1>4 DEF GetKey
  <2>. HIDE DEF holder, next
  <2>4. req'[r].pc = next
    BY <1>0, <2>1, <2>2, <2>3, HoldingOK
  <2>5. RequestStored(r)'
    BY <2>1, <2>4 DEF RequestStored
  <2>. QED
    BY <1>1, <1>3, <1>4, <2>5, AcceptedQuiet, AcceptedParts DEF GetKey,
       RequestStored, QueuesStored, ExecutionStored, AcceptedJobIsStored
<1>5. CASE LoadHolder(r)
  <2>1. RequestStored(r)'
    <3>1. CASE Exists(req[r].held)
      <4>1. req'[r].pc = "reply" /\ req'[r].job = req[r].held
        BY <1>0, <1>5, <3>1, ReplayedOK DEF LoadHolder
      <4>. QED
        BY <1>5, <3>1, <4>1 DEF LoadHolder, RequestStored, Exists
    <3>2. CASE ~Exists(req[r].held)
      <4>1. req'[r].pc \in {"reserve", "create"}
        BY <1>0, <1>5, <3>2 DEF LoadHolder, Unresolved
      <4>. QED
        BY <4>1 DEF RequestStored
    <3>. QED
      BY <3>1, <3>2
  <2>2. QueuesStored'
    BY <1>5, AcceptedQuiet DEF LoadHolder
  <2>. QED
    BY <1>1, <1>3, <2>1, <2>2 DEF RequestStored, QueuesStored,
       ExecutionStored, AcceptedJobIsStored
<1>6. CASE Reserve(r)
  <2>1. RequestStored(r)'
    <3>1. req'[r].pc \in {"create", "get2"}
      <4>1. CASE req' = [req EXCEPT ![r].pc = "create"]
        BY <1>0, <4>1
      <4>2. CASE req' = [req EXCEPT ![r].pc = "get2"]
        BY <1>0, <4>2
      <4>. QED
        BY <1>6, <4>1, <4>2 DEF Reserve
    <3>. QED
      BY <3>1 DEF RequestStored
  <2>2. QueuesStored'
    BY <1>6, AcceptedQuiet DEF Reserve
  <2>. QED
    BY <1>1, <1>3, <2>1, <2>2 DEF RequestStored, QueuesStored,
       ExecutionStored, AcceptedJobIsStored
<1>7. CASE CreateRow(r)
  <2>1. RequestStored(r)'
    <3>1. req'[r].job = req[r].job /\ req[r].job \in Jobs
      BY <1>0, <1>7 DEF CreateRow, RequestOK
    <3>2. row'[req[r].job] = NewJob
      BY <1>7, <3>1 DEF CreateRow, TypeInv, TypeOK
    <3>. QED
      BY <3>1, <3>2 DEF RequestStored, Exists, NewJob
  <2>2. QueuesStored'
    BY <1>7, AcceptedQuiet DEF CreateRow
  <2>. QED
    BY <1>1, <1>3, <2>1, <2>2 DEF RequestStored, QueuesStored,
       ExecutionStored, AcceptedJobIsStored
<1>8. CASE Enqueue(r)
  <2>1. /\ req[r].pc = "enqueue" /\ req'[r].job = req[r].job
        /\ UNCHANGED row
        /\ Exists(req[r].job)
    BY <1>0, <1>8 DEF Enqueue, RequestStored
  <2>2. RequestStored(r)'
    BY <2>1 DEF RequestStored, Exists
  <2>3. QueuesStored'
    BY <1>0, <1>8, <2>1, HomesOK DEF Enqueue, QueuesStored, Exists, TypeInv,
                                     TypeOK
  <2>. QED
    BY <1>1, <1>3, <2>2, <2>3 DEF RequestStored, QueuesStored,
       ExecutionStored, AcceptedJobIsStored
<1>9. CASE CountSubmitted(r)
  <2>1. RequestStored(r)'
    BY <1>0, <1>9 DEF CountSubmitted, RequestStored, Exists
  <2>2. QueuesStored'
    BY <1>9, AcceptedQuiet DEF CountSubmitted
  <2>. QED
    BY <1>1, <1>3, <2>1, <2>2 DEF RequestStored, QueuesStored,
       ExecutionStored, AcceptedJobIsStored
<1>10. CASE Reply(r)
  <2>1. RequestStored(r)'
    BY <1>0, <1>10, IdleRequestOK DEF Reply, RequestStored
  <2>2. QueuesStored'
    BY <1>10, AcceptedQuiet DEF Reply
  <2>. QED
    BY <1>1, <1>3, <2>1, <2>2 DEF RequestStored, QueuesStored,
       ExecutionStored, AcceptedJobIsStored
<1>. QED
  BY <1>4, <1>5, <1>6, <1>7, <1>8, <1>9, <1>10 DEF HandlerStep

\* So does an executor's step: Take hands on what a queue holds.
LEMMA AcceptedExecutor ==
  ASSUME TypeInv, AcceptedJobIsStored, [Next]_vars, NEW w \in Workers,
         ExecutorStep(w) \/ ExecutionFails(w)
  PROVE  AcceptedJobIsStored'
<1>0. /\ wk \in [Workers -> Execution]
      /\ wk[w] \in Execution
      /\ wk[w].copy \in PipelineJob
      /\ QueuesStored
      /\ \A j \in Jobs : Exists(j) => Exists(j)'
  BY RowsStay, AcceptedParts DEF TypeInv, TypeOK, Execution
<1>1. \A r \in Replicas : RequestStored(r)'
  BY AcceptedQuiet DEF ExecutorStep, Take, Fetch, Start, RunPipeline, Finish,
                       Update, Notify, Ack, ExecutionFails
<1>2. CASE Take(w)
  <2>1. PICK j \in queue[WorkerHome(w)] :
          /\ queue' = [queue EXCEPT ![WorkerHome(w)] = @ \ {j}]
          /\ wk' = [wk EXCEPT ![w] =
                      [pc |-> "fetch", job |-> j, copy |-> NoRow]]
    BY <1>2 DEF Take
  <2>2. UNCHANGED row /\ Exists(j)
    BY <1>0, <1>2, HomesOK DEF Take, QueuesStored
  <2>3. QueuesStored'
    BY <1>0, <2>1, <2>2, HomesOK DEF QueuesStored, Exists, TypeInv, TypeOK
  <2>4. ASSUME NEW v \in Workers PROVE ExecutionStored(v)'
    <3>1. CASE v = w
      BY <1>0, <2>1, <2>2, <3>1 DEF ExecutionStored, Exists
    <3>2. CASE v # w
      BY <1>0, <2>1, <3>2, AcceptedQuiet
    <3>. QED
      BY <3>1, <3>2
  <2>. QED
    BY <1>1, <2>3, <2>4 DEF RequestStored, QueuesStored, ExecutionStored,
                            AcceptedJobIsStored
<1>3. CASE ~Take(w)
  <2>1. QueuesStored'
    BY <1>3, AcceptedQuiet DEF ExecutorStep, Fetch, Start, RunPipeline, Finish,
                               Update, Notify, Ack, ExecutionFails
  <2>2. \A v \in Workers \ {w} : wk'[v] = wk[v]
    BY <1>0, <1>3 DEF ExecutorStep, Fetch, Start, RunPipeline, Finish, Update,
                      Notify, Ack, ExecutionFails
  <2>3. \/ wk'[w].pc = "idle"
        \/ wk[w].pc # "idle" /\ wk'[w].job = wk[w].job
    <3>0. ASSUME NEW pc \in WorkerPcs, NEW copy \in PipelineJob,
                 wk[w].pc # "idle",
                 wk' = [wk EXCEPT ![w] = Holds(wk[w], pc, copy)]
          PROVE  wk[w].pc # "idle" /\ wk'[w].job = wk[w].job
      BY <1>0, <3>0, HoldsOK
    <3>1. CASE Fetch(w)
      <4>1. wk[w].pc = "fetch" /\ row[wk[w].job] \in PipelineJob
        BY <3>1 DEF Fetch, TypeInv, TypeOK
      <4>2. CASE wk' = [wk EXCEPT ![w] = Holds(wk[w], "start", row[wk[w].job])]
        BY <3>0, <4>1, <4>2 DEF WorkerPcs
      <4>3. CASE wk' = [wk EXCEPT ![w].pc = "ack"]
        BY <1>0, <4>1, <4>3
      <4>. QED
        BY <3>1, <4>2, <4>3 DEF Fetch
    <3>3. CASE Start(w)
      <4>1. [status |-> "running",
             filled |-> wk[w].copy.filled \cup {"started_at"}] \in PipelineJob
        BY <1>0, CopyOK DEF JobStatus, Columns
      <4>. QED
        BY <3>0, <3>3, <4>1 DEF Start, Update, WorkerPcs
    <3>4. CASE RunPipeline(w)
      <4>1. PICK outcome \in Outcomes :
              wk' = [wk EXCEPT ![w] = Holds(wk[w], "finish",
                       [status |-> outcome.status,
                        filled |-> wk[w].copy.filled \cup {outcome.column}])]
        BY <3>4 DEF RunPipeline
      <4>2. outcome.status \in JobStatus /\ outcome.column \in Columns
        BY DEF Outcomes, JobStatus, Columns
      <4>3. [status |-> outcome.status,
             filled |-> wk[w].copy.filled \cup {outcome.column}] \in PipelineJob
        BY <1>0, <4>2, CopyOK
      <4>. QED
        BY <3>0, <3>4, <4>1, <4>3 DEF RunPipeline, WorkerPcs
    <3>5. CASE Finish(w)
      <4>1. wk[w].copy.status \in JobStatus
        BY <3>5 DEF Finish, TypeInv, FinishOutcome, Terminal, JobStatus
      <4>2. [status |-> wk[w].copy.status,
             filled |-> wk[w].copy.filled \cup {"finished_at"}] \in PipelineJob
        BY <1>0, <4>1, CopyOK DEF Columns
      <4>. QED
        BY <3>0, <3>5, <4>2 DEF Finish, Update, WorkerPcs
    <3>6. CASE Notify(w)
      BY <1>0, <3>6 DEF Notify
    <3>7. CASE Ack(w)
      BY <1>0, <3>7, IdleWorkerOK DEF Ack
    <3>8. CASE ExecutionFails(w)
      BY <1>0, <3>8, FaultsAssumption DEF ExecutionFails, HandlerFaults,
                                          ExecutorFaults, Mishaps
    <3>. QED
      BY <1>3, <3>1, <3>3, <3>4, <3>5, <3>6, <3>7, <3>8 DEF ExecutorStep
  <2>4. \A v \in Workers : ExecutionStored(v)'
    BY <2>2, <2>3, AcceptedQuiet
  <2>. QED
    BY <1>1, <2>1, <2>4 DEF RequestStored, QueuesStored, ExecutionStored,
                            AcceptedJobIsStored
<1>. QED
  BY <1>2, <1>3

\* The broker puts back jobs that workers hold, which are stored.
LEMMA AcceptedBroker ==
  ASSUME TypeInv, AcceptedJobIsStored, [Next]_vars, NEW w \in Workers,
         VisibilityTimeout(w) \/ WorkerCrash(w) \/ ChildLost(w)
  PROVE  AcceptedJobIsStored'
<1>0. /\ wk \in [Workers -> Execution]
      /\ QueuesStored
      /\ wk[w].pc # "idle" => Exists(wk[w].job)
      /\ UNCHANGED row
  BY AcceptedParts DEF TypeInv, TypeOK, ExecutionStored, VisibilityTimeout,
                       WorkerCrash, ChildLost
<1>1. \A r \in Replicas : RequestStored(r)'
  BY AcceptedQuiet DEF VisibilityTimeout, WorkerCrash, ChildLost
<1>2. QueuesStored'
  <2>1. CASE UNCHANGED queue
    BY <2>1, AcceptedQuiet
  <2>2. CASE PutBack(w) /\ wk[w].pc # "idle"
    BY <1>0, <2>2, HomesOK DEF PutBack, QueuesStored, Exists, TypeInv, TypeOK
  <2>. QED
    BY <2>1, <2>2 DEF VisibilityTimeout, WorkerCrash, ChildLost, TypeInv,
                      UnackedBusy
<1>3. \A v \in Workers : wk'[v] = wk[v] \/ wk'[v].pc = "idle"
  BY <1>0, IdleWorkerOK DEF VisibilityTimeout, WorkerCrash, ChildLost
<1>4. \A v \in Workers : ExecutionStored(v)'
  BY <1>3, AcceptedQuiet
<1>. QED
  BY <1>1, <1>2, <1>4 DEF RequestStored, QueuesStored, ExecutionStored,
                          AcceptedJobIsStored

\* What is left: requests that arrive or end, and the life of a process.
LEMMA AcceptedReplica ==
  ASSUME TypeInv, AcceptedJobIsStored, [Next]_vars, NEW r \in Replicas,
         \/ \E k \in Keys \cup {None} : CreateJob(r, k)
         \/ RequestFails(r)
         \/ Crash(r)
         \/ BeginShutdown(r)
         \/ EndShutdown(r)
  PROVE  AcceptedJobIsStored'
<1>0. req \in [Replicas -> Request] /\ wk \in [Workers -> Execution]
  BY DEF TypeInv, TypeOK
<1>1. \A s \in Replicas :
        req'[s] = req[s] \/ req'[s].pc \in {"idle", "get1", "create"}
  BY <1>0, IdleRequestOK DEF CreateJob, RequestFails, Crash, BeginShutdown,
                             EndShutdown, Restart
<1>2. \A s \in Replicas : RequestStored(s)'
  BY <1>1, AcceptedQuiet DEF RequestStored
<1>3. QueuesStored'
  <2>1. CASE UNCHANGED queue
    BY <2>1, AcceptedQuiet
  <2>2. CASE queue' = [queue EXCEPT ![r] = {}] /\ UNCHANGED row
    BY <2>2, AcceptedParts DEF QueuesStored, Exists, TypeInv, TypeOK
  <2>. QED
    BY <2>1, <2>2 DEF CreateJob, RequestFails, Crash, BeginShutdown,
                      EndShutdown, Restart
<1>4. \A v \in Workers : wk'[v] = wk[v] \/ wk'[v].pc = "idle"
  BY <1>0, IdleWorkerOK DEF CreateJob, RequestFails, Crash, BeginShutdown,
                            EndShutdown, Restart
<1>5. \A v \in Workers : ExecutionStored(v)'
  BY <1>4, AcceptedQuiet
<1>. QED
  BY <1>2, <1>3, <1>5 DEF RequestStored, QueuesStored, ExecutionStored,
                          AcceptedJobIsStored

LEMMA AcceptedNext ==
  TypeInv /\ AcceptedJobIsStored /\ [Next]_vars => AcceptedJobIsStored'
<1>. SUFFICES ASSUME TypeInv, AcceptedJobIsStored, [Next]_vars
              PROVE  AcceptedJobIsStored'
  OBVIOUS
<1>1. CASE UNCHANGED vars
  BY <1>1 DEF vars, AcceptedJobIsStored, Exists
<1>2. ASSUME NEW h \in Homes, NEW k \in Keys, Expire(h, k)
      PROVE  AcceptedJobIsStored'
  <2>1. /\ \A s \in Replicas : /\ req'[s].pc = req[s].pc
                               /\ req'[s].job = req[s].job
        /\ UNCHANGED <<queue, wk>>
    BY <1>2 DEF Expire, TypeInv, TypeOK, Request
  <2>. QED
    BY <2>1, AcceptedQuiet DEF RequestStored, QueuesStored, ExecutionStored,
                               AcceptedJobIsStored
<1>. QED
  BY <1>1, <1>2, AcceptedHandler, AcceptedExecutor, AcceptedBroker,
     AcceptedReplica DEF Next

\* Whatever crashes, fails or is delivered twice, an accepted job can be
\* polled, and no executor is handed an id that the table does not know.
THEOREM AcceptedJobsStored == Spec => []AcceptedJobIsStored
BY TypeInvariant, AcceptedInit, AcceptedNext, PTL DEF Spec

-----------------------------------------------------------------------------
(***************************************************************************)
(* A retry is answered with the job that holds its key.                    *)
(***************************************************************************)

\* A request that was promised a job is on the replay path of execute, its
\* key still names that job, and whatever it has read so far agrees.
PromiseOK(r) ==
  req[r].promised # None =>
    /\ req[r].pc \in {"get1", "load1", "reply"}
    /\ req[r].key \in Keys
    /\ req[r].promised \in Jobs
    /\ Exists(req[r].promised)
    /\ idem[StoreHome(r)][req[r].key] = req[r].promised
    /\ req[r].pc = "load1" => req[r].held = req[r].promised
    /\ req[r].pc = "reply" => req[r].job = req[r].promised

PromiseInv == \A r \in Replicas : PromiseOK(r)

\* The promise survives steps that leave the request and its key alone.
LEMMA PromiseKept ==
  ASSUME TypeInv, [Next]_vars, NEW r \in Replicas, PromiseOK(r),
         req'[r] = req[r],
         req[r].promised # None =>
           idem'[StoreHome(r)][req[r].key] = idem[StoreHome(r)][req[r].key]
  PROVE  PromiseOK(r)'
<1>. SUFFICES ASSUME req'[r].promised # None PROVE PromiseOK(r)'
  BY DEF PromiseOK
<1>1. Exists(req[r].promised)'
  BY RowsStay DEF PromiseOK
<1>2. idem'[StoreHome(r)][req'[r].key] = req'[r].promised
  BY DEF PromiseOK
<1>. QED
  BY <1>1, <1>2 DEF PromiseOK, StoreHome

\* An idle request has been promised nothing.
LEMMA PromiseIdle ==
  ASSUME NEW r \in Replicas, req'[r] = IdleRequest
  PROVE  PromiseOK(r)'
BY IdleRequestOK DEF PromiseOK

\* The step of a handler: on the replay path it finds what was promised.
LEMMA PromiseHandler ==
  ASSUME TypeInv, PromiseInv, [Next]_vars, NEW r \in Replicas, HandlerStep(r)
  PROVE  PromiseOK(r)'
<1>0. /\ req \in [Replicas -> Request]
      /\ req[r] \in Request
      /\ RequestOK(req[r])
      /\ PromiseOK(r)
  BY DEF TypeInv, TypeOK, PromiseInv
<1>1. CASE GetKey(r)
  <2>. DEFINE holder == idem[StoreHome(r)][req[r].key]
              next == IF holder = None THEN Unresolved(req[r].pc)
                      ELSE IF req[r].pc = "get1" THEN "load1" ELSE "load2"
  <2>1. next \in RequestPcs /\ req[r].pc \in {"get1", "get2"}
    BY <1>1 DEF Unresolved, RequestPcs, GetKey
  <2>2. holder \in JobId
    BY <1>0, <1>1, HomesOK DEF TypeInv, TypeOK, GetKey, RequestOK
  <2>3. /\ req' = [req EXCEPT ![r] = Holding(req[r], next, holder)]
        /\ UNCHANGED <<idem, row>>
    BY <1>1 DEF GetKey
  <2>4. req[r].promised # None =>
          holder = req[r].promised /\ holder # None /\ next = "load1"
    BY <1>0, <2>1, NoneAssumption DEF PromiseOK
  <2>. HIDE DEF holder, next
  <2>5. /\ req'[r].pc = next /\ req'[r].held = holder
        /\ req'[r].key = req[r].key
        /\ req'[r].promised = req[r].promised
    BY <1>0, <2>1, <2>2, <2>3, HoldingOK
  <2>. QED
    BY <1>0, <2>3, <2>4, <2>5 DEF PromiseOK, Exists, StoreHome
<1>2. CASE LoadHolder(r)
  <2>1. UNCHANGED <<idem, row>> /\ req[r].pc \in {"load1", "load2"}
    BY <1>2 DEF LoadHolder
  <2>2. CASE Exists(req[r].held)
    <3>1. req' = [req EXCEPT ![r] = Replayed(req[r])]
      BY <1>2, <2>2 DEF LoadHolder
    <3>2. /\ req'[r].pc = "reply" /\ req'[r].job = req[r].held
          /\ req'[r].key = req[r].key
          /\ req'[r].promised = req[r].promised
      BY <1>0, <3>1, ReplayedOK
    <3>. QED
      BY <1>0, <2>1, <3>2 DEF PromiseOK, Exists, StoreHome
  <2>3. CASE ~Exists(req[r].held)
    <3>1. req[r].promised = None
      BY <1>0, <2>1, <2>3 DEF PromiseOK
    <3>2. req' = [req EXCEPT ![r].pc = Unresolved(req[r].pc)]
      BY <1>2, <2>3 DEF LoadHolder
    <3>3. req'[r].promised = None
      BY <1>0, <3>1, <3>2 DEF Request
    <3>. QED
      BY <3>3 DEF PromiseOK
  <2>. QED
    BY <2>2, <2>3
<1>3. CASE Reply(r)
  <2>1. req'[r] = IdleRequest
    BY <1>0, <1>3 DEF Reply
  <2>. QED
    BY <2>1, PromiseIdle
<1>4. CASE Reserve(r) \/ CreateRow(r) \/ Enqueue(r) \/ CountSubmitted(r)
  <2>1. req[r].promised = None
    BY <1>0, <1>4 DEF PromiseOK, Reserve, CreateRow, Enqueue, CountSubmitted
  <2>2. \E pc \in RequestPcs : req' = [req EXCEPT ![r].pc = pc]
    BY <1>4 DEF Reserve, CreateRow, Enqueue, CountSubmitted, RequestPcs
  <2>3. req'[r].promised = None
    BY <1>0, <2>1, <2>2 DEF Request
  <2>. QED
    BY <2>3 DEF PromiseOK
<1>. QED
  BY <1>1, <1>2, <1>3, <1>4 DEF HandlerStep

\* The others' requests: a handler writes a key only when nobody holds it.
LEMMA PromiseOthers ==
  ASSUME TypeInv, PromiseInv, [Next]_vars, NEW r \in Replicas, HandlerStep(r),
         NEW s \in Replicas \ {r}
  PROVE  PromiseOK(s)'
<1>0. /\ req \in [Replicas -> Request]
      /\ idem \in [Homes -> [Keys -> JobId]]
      /\ RequestOK(req[r])
      /\ PromiseOK(s)
      /\ StoreHome(r) \in Homes /\ StoreHome(s) \in Homes
  BY HomesOK DEF TypeInv, TypeOK, PromiseInv
<1>1. req'[s] = req[s]
  BY <1>0 DEF HandlerStep, GetKey, LoadHolder, Reserve, CreateRow, Enqueue,
              CountSubmitted, Reply
<1>2. CASE UNCHANGED idem
  BY <1>0, <1>1, <1>2, PromiseKept
<1>3. CASE /\ Reserve(r)
           /\ idem[StoreHome(r)][req[r].key] = None
           /\ idem' = [idem EXCEPT ![StoreHome(r)][req[r].key] = req[r].job]
  <2>1. req[r].key \in Keys
    BY <1>0, <1>3 DEF Reserve, RequestOK
  <2>2. \A h \in Homes, k \in Keys :
          idem[h][k] # None => idem'[h][k] = idem[h][k]
    BY <1>0, <1>3, <2>1
  <2>3. req[s].promised # None =>
          idem'[StoreHome(s)][req[s].key] = idem[StoreHome(s)][req[s].key]
    BY <1>0, <2>2, NoneAssumption DEF PromiseOK
  <2>. QED
    BY <1>0, <1>1, <2>3, PromiseKept
<1>. QED
  BY <1>2, <1>3 DEF HandlerStep, GetKey, LoadHolder, Reserve, CreateRow,
                    Enqueue, CountSubmitted, Reply

LEMMA PromiseReplica ==
  ASSUME TypeInv, PromiseInv, [Next]_vars, NEW r \in Replicas,
         \/ \E k \in Keys \cup {None} : CreateJob(r, k)
         \/ RequestFails(r)
         \/ Crash(r)
         \/ BeginShutdown(r)
         \/ EndShutdown(r)
  PROVE  PromiseInv'
<1>. SUFFICES ASSUME NEW s \in Replicas PROVE PromiseOK(s)'
  BY DEF PromiseInv
<1>0. /\ req \in [Replicas -> Request]
      /\ idem \in [Homes -> [Keys -> JobId]]
      /\ PromiseOK(s)
  BY DEF TypeInv, TypeOK, PromiseInv
<1>1. CASE \E k \in Keys \cup {None} : CreateJob(r, k)
  <2>1. PICK k \in Keys \cup {None} : CreateJob(r, k)
    BY <1>1
  <2>2. UNCHANGED <<idem, row>>
    BY <2>1 DEF CreateJob
  <2>3. CASE s # r
    BY <1>0, <2>1, <2>2, <2>3, PromiseKept DEF CreateJob
  <2>4. CASE s = r
    <3>1. /\ req'[r].pc = IF k = None THEN "create" ELSE "get1"
          /\ req'[r].key = k
          /\ req'[r].promised = Promise(r, k)
      BY <1>0, <2>1 DEF CreateJob
    <3>2. ASSUME Promise(r, k) # None
          PROVE  /\ k \in Keys
                 /\ Promise(r, k) = idem[StoreHome(r)][k]
                 /\ Promise(r, k) \in Jobs
                 /\ Exists(Promise(r, k))
      BY <1>0, <3>2, HomesOK DEF Promise, JobId
    <3>. QED
      BY <2>2, <2>4, <3>1, <3>2, NoneAssumption DEF PromiseOK, Exists, StoreHome
  <2>. QED
    BY <2>3, <2>4
<1>2. CASE RequestFails(r) \/ BeginShutdown(r)
  <2>1. /\ UNCHANGED idem
        /\ req'[s] = req[s] \/ req'[s] = IdleRequest
    BY <1>0, <1>2 DEF RequestFails, BeginShutdown
  <2>. QED
    BY <1>0, <2>1, PromiseKept, PromiseIdle
<1>3. CASE Restart(r)
  <2>1. CASE s = r
    BY <1>0, <1>3, <2>1, PromiseIdle DEF Restart
  <2>2. CASE s # r
    <3>1. req'[s] = req[s]
      BY <1>0, <1>3, <2>2 DEF Restart
    <3>2. idem'[StoreHome(s)] = idem[StoreHome(s)]
      BY <1>0, <1>3, <2>2, HomesOK DEF Restart, StoreHome
    <3>. QED
      BY <1>0, <3>1, <3>2, PromiseKept
  <2>. QED
    BY <2>1, <2>2
<1>. QED
  BY <1>1, <1>2, <1>3 DEF Crash, EndShutdown

\* An expiring key takes with it what was promised under it.
LEMMA PromiseExpire ==
  ASSUME TypeInv, PromiseInv, [Next]_vars,
         NEW h \in Homes, NEW k \in Keys, Expire(h, k)
  PROVE  PromiseInv'
<1>. SUFFICES ASSUME NEW s \in Replicas PROVE PromiseOK(s)'
  BY DEF PromiseInv
<1>0. /\ req[s] \in Request
      /\ idem \in [Homes -> [Keys -> JobId]]
      /\ PromiseOK(s)
      /\ StoreHome(s) \in Homes
  BY HomesOK DEF TypeInv, TypeOK, PromiseInv
<1>1. CASE StoreHome(s) = h /\ req[s].key = k
  <2>1. req'[s] = [req[s] EXCEPT !.promised = None]
    BY <1>1 DEF Expire
  <2>2. req'[s].promised = None
    BY <1>0, <2>1 DEF Request
  <2>. QED
    BY <2>2 DEF PromiseOK
<1>2. CASE ~(StoreHome(s) = h /\ req[s].key = k)
  <2>1. req'[s] = req[s]
    BY <1>2 DEF Expire
  <2>2. req[s].promised # None =>
          idem'[StoreHome(s)][req[s].key] = idem[StoreHome(s)][req[s].key]
    BY <1>0, <1>2 DEF Expire, PromiseOK
  <2>. QED
    BY <1>0, <2>1, <2>2, PromiseKept
<1>. QED
  BY <1>1, <1>2

LEMMA PromiseNext == TypeInv /\ PromiseInv /\ [Next]_vars => PromiseInv'
<1>. SUFFICES ASSUME TypeInv, PromiseInv, [Next]_vars PROVE PromiseInv'
  OBVIOUS
<1>1. CASE UNCHANGED <<req, idem>>
  BY <1>1, PromiseKept DEF PromiseInv
<1>2. ASSUME NEW r \in Replicas, HandlerStep(r)
      PROVE  PromiseInv'
  BY <1>2, PromiseHandler, PromiseOthers DEF PromiseInv
<1>3. ASSUME NEW w \in Workers,
             \/ ExecutorStep(w)
             \/ ExecutionFails(w)
             \/ VisibilityTimeout(w)
             \/ WorkerCrash(w)
             \/ ChildLost(w)
      PROVE  UNCHANGED <<req, idem>>
  BY <1>3 DEF ExecutorStep, Take, Fetch, Start, RunPipeline, Finish, Update,
              Notify, Ack, ExecutionFails, VisibilityTimeout, WorkerCrash,
              ChildLost
<1>4. CASE UNCHANGED vars
  BY <1>1, <1>4 DEF vars
<1>. QED
  BY <1>1, <1>2, <1>3, <1>4, PromiseReplica, PromiseExpire DEF Next

LEMMA PromiseInit == Init => PromiseInv
BY IdleRequestOK DEF Init, PromiseInv, PromiseOK

\* With either runner and either store, and whatever crashes or fails: a
\* request whose key already names a stored job never creates another one and
\* is answered with that job.
THEOREM RetriesGetTheJob == Spec => []RetryGetsSameJob
<1>1. PromiseInv => RetryGetsSameJob
  BY DEF PromiseInv, PromiseOK, RetryGetsSameJob
<1>. QED
  BY <1>1, TypeInvariant, PromiseInit, PromiseNext, PTL DEF Spec

-----------------------------------------------------------------------------
(***************************************************************************)
(* A job id is its request's own until the row is written.                 *)
(***************************************************************************)

\* Until a request writes the row of its job, nothing else knows the job,
\* except the key that the request has reserved for it.
BeforeRow == {"get1", "load1", "reserve", "get2", "load2", "create"}

FreshRequest(r) ==
  req[r].pc \in BeforeRow =>
    /\ ~Exists(req[r].job)
    /\ \A s \in Replicas \ {r} : req[s].job # req[r].job
    /\ \A h \in Homes, k \in Keys :
         idem[h][k] = req[r].job =>
           h = StoreHome(r) /\ k = req[r].key /\ req[r].pc = "create"

FreshInv == \A r \in Replicas : FreshRequest(r)

\* Only the request of a job makes its row.
LEMMA NoOtherRow ==
  ASSUME TypeInv, AcceptedJobIsStored, [Next]_vars, NEW j \in Jobs, ~Exists(j),
         \A r \in Replicas : CreateRow(r) => req[r].job # j
  PROVE  ~Exists(j)'
<1>0. row \in [Jobs -> PipelineJob]
  BY DEF TypeInv, TypeOK
<1>1. CASE UNCHANGED row
  BY <1>1 DEF Exists
<1>2. ASSUME NEW r \in Replicas, CreateRow(r)
      PROVE  ~Exists(j)'
  BY <1>0, <1>2 DEF CreateRow, Exists
<1>3. ASSUME NEW w \in Workers, Start(w) \/ Finish(w)
      PROVE  ~Exists(j)'
  <2>1. wk[w].job # j
    BY <1>3, AcceptedParts DEF ExecutionStored, Start, Finish
  <2>. QED
    BY <1>0, <1>3, <2>1 DEF Start, Finish, Update, Exists
<1>4. \/ UNCHANGED row
      \/ \E r \in Replicas : CreateRow(r)
      \/ \E w \in Workers : Start(w) \/ Finish(w)
  BY DEF Next, vars, CreateJob, HandlerStep, GetKey, LoadHolder, Reserve,
         Enqueue, CountSubmitted, Reply, RequestFails, Crash, BeginShutdown,
         EndShutdown, Restart, ExecutorStep, Take, Fetch, RunPipeline, Notify,
         Ack, ExecutionFails, VisibilityTimeout, WorkerCrash, ChildLost, Expire
<1>. QED
  BY <1>1, <1>2, <1>3, <1>4

\* What a step of a handler does to its request, and to the keys.
LEMMA HandlerEffect ==
  ASSUME TypeInv, NEW r \in Replicas, HandlerStep(r)
  PROVE  /\ req[r].pc # "idle"
         /\ \A s \in Replicas \ {r} : req'[s] = req[s]
         /\ \/ req'[r] = IdleRequest
            \/ /\ req'[r].job = req[r].job
               /\ req'[r].key = req[r].key
            \/ /\ LoadHolder(r) /\ Exists(req[r].held)
               /\ req'[r].job = req[r].held
               /\ req'[r].key = req[r].key
               /\ req'[r].pc = "reply"
         /\ req'[r].pc \in BeforeRow =>
              /\ req[r].pc \in BeforeRow \ {"create"}
              /\ req'[r].job = req[r].job
              /\ req'[r].key = req[r].key
         /\ \/ UNCHANGED idem
            \/ /\ Reserve(r)
               /\ idem[StoreHome(r)][req[r].key] = None
               /\ req'[r].pc = "create"
               /\ idem' = [idem EXCEPT ![StoreHome(r)][req[r].key] = req[r].job]
<1>0. /\ req \in [Replicas -> Request]
      /\ req[r] \in Request
      /\ RequestOK(req[r])
  BY DEF TypeInv, TypeOK
<1>1. CASE GetKey(r)
  <2>. DEFINE holder == idem[StoreHome(r)][req[r].key]
              next == IF holder = None THEN Unresolved(req[r].pc)
                      ELSE IF req[r].pc = "get1" THEN "load1" ELSE "load2"
  <2>1. next \in RequestPcs /\ req[r].pc \in {"get1", "get2"}
    BY <1>1 DEF Unresolved, RequestPcs, GetKey
  <2>2. holder \in JobId
    BY <1>0, <1>1, HomesOK DEF TypeInv, TypeOK, GetKey, RequestOK
  <2>3. /\ req' = [req EXCEPT ![r] = Holding(req[r], next, holder)]
        /\ UNCHANGED idem
    BY <1>1 DEF GetKey
  <2>. HIDE DEF holder, next
  <2>4. req'[r].job = req[r].job /\ req'[r].key = req[r].key
    BY <1>0, <2>1, <2>2, <2>3, HoldingOK
  <2>. QED
    BY <1>0, <2>1, <2>3, <2>4 DEF BeforeRow
<1>2. CASE LoadHolder(r)
  <2>1. UNCHANGED idem /\ req[r].pc \in {"load1", "load2"}
    BY <1>2 DEF LoadHolder
  <2>2. CASE Exists(req[r].held)
    <3>1. req' = [req EXCEPT ![r] = Replayed(req[r])]
      BY <1>2, <2>2 DEF LoadHolder
    <3>2. /\ req'[r].pc = "reply" /\ req'[r].job = req[r].held
          /\ req'[r].key = req[r].key
      BY <1>0, <3>1, ReplayedOK
    <3>. QED
      BY <1>0, <1>2, <2>1, <2>2, <3>1, <3>2 DEF BeforeRow
  <2>3. CASE ~Exists(req[r].held)
    <3>1. req' = [req EXCEPT ![r].pc = Unresolved(req[r].pc)]
      BY <1>2, <2>3 DEF LoadHolder
    <3>. QED
      BY <1>0, <2>1, <3>1 DEF Request, BeforeRow
  <2>. QED
    BY <2>2, <2>3
<1>3. CASE Reserve(r)
  <2>1. CASE idem[StoreHome(r)][req[r].key] = None
    BY <1>0, <1>3, <2>1 DEF Reserve, Request, BeforeRow
  <2>2. CASE idem[StoreHome(r)][req[r].key] # None
    BY <1>0, <1>3, <2>2 DEF Reserve, Request, BeforeRow
  <2>. QED
    BY <2>1, <2>2
<1>4. CASE CreateRow(r) \/ Enqueue(r) \/ CountSubmitted(r)
  BY <1>0, <1>4 DEF CreateRow, Enqueue, CountSubmitted, Request, BeforeRow
<1>5. CASE Reply(r)
  BY <1>0, <1>5, IdleRequestOK DEF Reply, BeforeRow
<1>. QED
  BY <1>1, <1>2, <1>3, <1>4, <1>5 DEF HandlerStep

\* What has to be seen of a step so that a request's job stays its own.
LEMMA FreshKept ==
  ASSUME TypeInv, AcceptedJobIsStored, FreshInv, [Next]_vars,
         NEW r \in Replicas,
         req'[r].pc \in BeforeRow =>
           /\ req[r].pc \in BeforeRow
           /\ req'[r].job = req[r].job
           /\ req'[r].key = req[r].key
           /\ \A s \in Replicas \ {r} : req'[s].job # req[r].job
           /\ \A h \in Homes, k \in Keys :
                idem'[h][k] = req[r].job =>
                  h = StoreHome(r) /\ k = req[r].key /\ req'[r].pc = "create",
         ~CreateRow(r)
  PROVE  FreshRequest(r)'
<1>. SUFFICES ASSUME req'[r].pc \in BeforeRow PROVE FreshRequest(r)'
  BY DEF FreshRequest
<1>1. req[r].job \in Jobs /\ ~Exists(req[r].job)
  BY DEF FreshInv, FreshRequest, TypeInv, TypeOK, RequestOK, BeforeRow
<1>2. \A s \in Replicas : CreateRow(s) => req[s].job # req[r].job
  BY DEF FreshInv, FreshRequest
<1>3. ~Exists(req[r].job)'
  BY <1>1, <1>2, NoOtherRow
<1>. QED
  BY <1>3 DEF FreshRequest, Exists, StoreHome

LEMMA FreshHandler ==
  ASSUME TypeInv, AcceptedJobIsStored, FreshInv, [Next]_vars,
         NEW r \in Replicas, HandlerStep(r)
  PROVE  FreshInv'
<1>. SUFFICES ASSUME NEW s \in Replicas PROVE FreshRequest(s)'
  BY DEF FreshInv
<1>0. /\ idem \in [Homes -> [Keys -> JobId]]
      /\ req[r].pc # "idle"
      /\ \A q \in Replicas \ {r} : req'[q] = req[q]
      /\ \A q \in Replicas : req[q].pc \in BeforeRow => req[q].job \in Jobs
      /\ StoreHome(r) \in Homes
  BY HandlerEffect, HomesOK DEF TypeInv, TypeOK, RequestOK, BeforeRow
<1>1. CASE CreateRow(r) /\ s = r
  <2>1. req'[r].pc = "enqueue"
    BY <1>1 DEF CreateRow, TypeInv, TypeOK, Request
  <2>. QED
    BY <1>1, <2>1 DEF FreshRequest, BeforeRow
<1>2. CASE s = r /\ ~CreateRow(r)
  <2>1. req'[r].pc \in BeforeRow =>
          /\ req[r].pc \in BeforeRow \ {"create"}
          /\ req'[r].job = req[r].job
          /\ req'[r].key = req[r].key
    BY HandlerEffect
  <2>2. CASE UNCHANGED idem
    BY <1>0, <1>2, <2>1, <2>2, FreshKept DEF FreshInv, FreshRequest
  <2>3. CASE /\ Reserve(r)
             /\ req'[r].pc = "create"
             /\ idem' = [idem EXCEPT ![StoreHome(r)][req[r].key] = req[r].job]
    <3>1. req[r].key \in Keys
      BY <2>3 DEF Reserve, TypeInv, TypeOK, RequestOK
    <3>2. \A h \in Homes, k \in Keys :
            idem'[h][k] = req[r].job /\ ~(h = StoreHome(r) /\ k = req[r].key)
              => idem[h][k] = req[r].job
      BY <1>0, <2>3, <3>1
    <3>. QED
      BY <1>0, <1>2, <2>1, <2>3, <3>2, FreshKept DEF FreshInv, FreshRequest
  <2>. QED
    BY <2>2, <2>3, HandlerEffect
<1>3. CASE s # r
  <2>1. req'[s] = req[s]
    BY <1>0, <1>3
  <2>2. req[s].pc \in BeforeRow => req'[r].job # req[s].job
    <3>1. req[s].pc \in BeforeRow => req[s].job # None
      BY <1>0, NoneAssumption
    <3>2. IdleRequest.job = None
      BY DEF IdleRequest
    <3>. QED
      BY <1>3, <3>1, <3>2, HandlerEffect DEF FreshInv, FreshRequest
  <2>3. \A q \in Replicas \ {s} :
          req[s].pc \in BeforeRow => req'[q].job # req[s].job
    BY <1>0, <2>2 DEF FreshInv, FreshRequest
  <2>4. ~CreateRow(s) \/ req[s] = req'[s]
    BY <2>1
  <2>5. ~CreateRow(s)
    BY <1>0, <1>3, <2>1 DEF CreateRow, TypeInv, TypeOK, Request
  <2>6. CASE UNCHANGED idem
    BY <2>1, <2>3, <2>5, <2>6, FreshKept DEF FreshInv, FreshRequest
  <2>7. CASE /\ Reserve(r)
             /\ idem' = [idem EXCEPT ![StoreHome(r)][req[r].key] = req[r].job]
    <3>1. req[r].key \in Keys
      BY <2>7 DEF Reserve, TypeInv, TypeOK, RequestOK
    <3>2. \A h \in Homes, k \in Keys :
            idem'[h][k] = idem[h][k] \/ idem'[h][k] = req[r].job
      BY <1>0, <2>7, <3>1
    <3>3. req[s].pc \in BeforeRow => req[r].job # req[s].job
      BY <1>3 DEF FreshInv, FreshRequest
    <3>. QED
      BY <2>1, <2>3, <2>5, <3>2, <3>3, FreshKept DEF FreshInv, FreshRequest
  <2>. QED
    BY <2>6, <2>7, HandlerEffect
<1>. QED
  BY <1>1, <1>2, <1>3

LEMMA FreshReplica ==
  ASSUME TypeInv, AcceptedJobIsStored, FreshInv, [Next]_vars,
         NEW r \in Replicas,
         \/ \E k \in Keys \cup {None} : CreateJob(r, k)
         \/ RequestFails(r)
         \/ Crash(r)
         \/ BeginShutdown(r)
         \/ EndShutdown(r)
  PROVE  FreshInv'
<1>. SUFFICES ASSUME NEW s \in Replicas PROVE FreshRequest(s)'
  BY DEF FreshInv
<1>0. /\ req \in [Replicas -> Request]
      /\ idem \in [Homes -> [Keys -> JobId]]
      /\ \A q \in Replicas : req[q].pc \in BeforeRow => req[q].job \in Jobs
      /\ IdleRequest.job = None /\ IdleRequest.pc = "idle"
  BY IdleRequestOK DEF TypeInv, TypeOK, RequestOK, BeforeRow, IdleRequest
<1>1. CASE \E k \in Keys \cup {None} : CreateJob(r, k)
  <2>1. PICK k \in Keys \cup {None}, j \in Jobs :
          /\ Fresh(j)
          /\ req' = [req EXCEPT ![r] =
               [pc |-> IF k = None THEN "create" ELSE "get1", key |-> k,
                job |-> j, held |-> None, promised |-> Promise(r, k)]]
          /\ UNCHANGED <<row, idem>>
    BY <1>1 DEF CreateJob
  <2>2. CASE s = r
    <3>1. req'[r].job = j /\ \A q \in Replicas \ {r} : req'[q].job # j
      BY <1>0, <2>1 DEF Fresh
    <3>. QED
      BY <2>1, <2>2, <3>1 DEF FreshRequest, Fresh, Exists
  <2>3. CASE s # r
    <3>1. /\ req'[s] = req[s] /\ req[s].job # j /\ req'[r].job = j
          /\ \A q \in Replicas \ {r} : req'[q] = req[q]
      BY <1>0, <2>1, <2>3 DEF Fresh
    <3>2. ~CreateRow(s)
      BY <1>0, <3>1 DEF CreateRow, Request
    <3>. QED
      BY <2>1, <3>1, <3>2, FreshKept DEF FreshInv, FreshRequest
  <2>. QED
    BY <2>2, <2>3
<1>2. ASSUME \A q \in Replicas : req'[q] = req[q] \/ req'[q] = IdleRequest,
             \A h \in Homes, k \in Keys :
               idem'[h][k] = idem[h][k] \/ idem'[h][k] = None
      PROVE  FreshRequest(s)'
  <2>1. CASE req'[s] = IdleRequest
    BY <1>0, <2>1 DEF FreshRequest, BeforeRow
  <2>2. CASE req'[s] = req[s]
    <3>1. ~CreateRow(s)
      BY <1>0, <2>2 DEF CreateRow, Request
    <3>2. req[s].pc \in BeforeRow => req[s].job # None
      BY <1>0, NoneAssumption
    <3>. QED
      BY <1>0, <1>2, <2>2, <3>1, <3>2, FreshKept DEF FreshInv, FreshRequest
  <2>. QED
    BY <1>2, <2>1, <2>2
<1>3. CASE RequestFails(r) \/ BeginShutdown(r)
  BY <1>0, <1>2, <1>3 DEF RequestFails, BeginShutdown
<1>4. CASE Restart(r)
  <2>1. \A q \in Replicas : req'[q] = req[q] \/ req'[q] = IdleRequest
    BY <1>0, <1>4 DEF Restart
  <2>2. \A h \in Homes, k \in Keys :
          idem'[h][k] = idem[h][k] \/ idem'[h][k] = None
    BY <1>0, <1>4 DEF Restart, EmptyStore
  <2>. QED
    BY <1>2, <2>1, <2>2
<1>. QED
  BY <1>1, <1>3, <1>4 DEF Crash, EndShutdown

LEMMA FreshExpire ==
  ASSUME TypeInv, AcceptedJobIsStored, FreshInv, [Next]_vars,
         NEW h \in Homes, NEW k \in Keys, Expire(h, k)
  PROVE  FreshInv'
<1>. SUFFICES ASSUME NEW s \in Replicas PROVE FreshRequest(s)'
  BY DEF FreshInv
<1>1. \A q \in Replicas : /\ req'[q].pc = req[q].pc
                          /\ req'[q].job = req[q].job
                          /\ req'[q].key = req[q].key
  BY DEF Expire, TypeInv, TypeOK, Request
<1>2. \A g \in Homes, l \in Keys :
        idem'[g][l] = idem[g][l] \/ idem'[g][l] = None
  BY DEF Expire, TypeInv, TypeOK
<1>3. req[s].pc \in BeforeRow => req[s].job # None
  BY NoneAssumption DEF TypeInv, TypeOK, RequestOK, BeforeRow
<1>4. ~CreateRow(s)
  BY <1>1 DEF CreateRow, TypeInv, TypeOK, Request
<1>. QED
  BY <1>1, <1>2, <1>3, <1>4, FreshKept DEF FreshInv, FreshRequest

LEMMA FreshNext ==
  TypeInv /\ AcceptedJobIsStored /\ FreshInv /\ [Next]_vars => FreshInv'
<1>. SUFFICES ASSUME TypeInv, AcceptedJobIsStored, FreshInv, [Next]_vars
              PROVE  FreshInv'
  OBVIOUS
<1>1. CASE UNCHANGED <<req, idem>>
  <2>1. \A r \in Replicas : ~CreateRow(r)
    BY <1>1 DEF CreateRow, TypeInv, TypeOK, Request
  <2>. QED
    BY <1>1, <2>1, FreshKept DEF FreshInv, FreshRequest
<1>2. ASSUME NEW w \in Workers,
             \/ ExecutorStep(w)
             \/ ExecutionFails(w)
             \/ VisibilityTimeout(w)
             \/ WorkerCrash(w)
             \/ ChildLost(w)
      PROVE  UNCHANGED <<req, idem>>
  BY <1>2 DEF ExecutorStep, Take, Fetch, Start, RunPipeline, Finish, Update,
              Notify, Ack, ExecutionFails, VisibilityTimeout, WorkerCrash,
              ChildLost
<1>3. CASE UNCHANGED vars
  BY <1>1, <1>3 DEF vars
<1>. QED
  BY <1>1, <1>2, <1>3, FreshHandler, FreshReplica, FreshExpire DEF Next

LEMMA FreshInit == Init => FreshInv
BY IdleRequestOK DEF Init, FreshInv, FreshRequest, BeforeRow

\* A job id is told to nobody but its key's store before the job is stored.
LEMMA FreshInvariant == Spec => []FreshInv
BY TypeInvariant, AcceptedJobsStored, FreshInit, FreshNext, PTL DEF Spec

-----------------------------------------------------------------------------
(***************************************************************************)
(* A key names one job where no two processes share a store of keys: with  *)
(* the stores in memory, and with Redis when there is one API process.     *)
(***************************************************************************)
OwnStores == \A r, s \in Replicas : StoreHome(r) = StoreHome(s) => r = s

\* The key is reserved for a job in the table.
Live(h, k) == idem[h][k] # None /\ Exists(idem[h][k])

StoreOK(h, k) ==
  /\ idem[h][k] = None => answers[h][k] = {}
  /\ Live(h, k) => answers[h][k] \subseteq {idem[h][k]}

\* What the one request that uses the store knows of its key: past the replay
\* path no stored job has the key, a job that gets its row now was answered
\* to nobody, and the answer on its way is the holder.
KeyOK(r) ==
  /\ req[r].pc \in BeforeRow =>
       \A k \in Keys : idem[StoreHome(r)][k] = req[r].job
                         => answers[StoreHome(r)][k] = {}
  /\ req[r].key \in Keys =>
       /\ req[r].pc \in {"reserve", "get2", "load2", "create"} =>
            ~Live(StoreHome(r), req[r].key)
       /\ req[r].pc = "load1" =>
            idem[StoreHome(r)][req[r].key] \in {None, req[r].held}
       /\ req[r].pc \in {"enqueue", "count", "reply"} =>
            (Live(StoreHome(r), req[r].key)
               => req[r].job = idem[StoreHome(r)][req[r].key])

KeyInv ==
  /\ \A h \in Homes, k \in Keys : StoreOK(h, k)
  /\ \A r \in Replicas : KeyOK(r)

\* A key comes to life only by the INSERT of the request that reserved it.
LEMMA ComesToLife ==
  ASSUME TypeInv, AcceptedJobIsStored, FreshInv, [Next]_vars,
         NEW h \in Homes, NEW k \in Keys,
         idem'[h][k] = idem[h][k], Live(h, k)', ~Live(h, k)
  PROVE  \E r \in Replicas : /\ CreateRow(r) /\ idem[h][k] = req[r].job
                             /\ h = StoreHome(r) /\ k = req[r].key
<1>1. idem[h][k] \in Jobs /\ ~Exists(idem[h][k]) /\ Exists(idem[h][k])'
  BY DEF Live, TypeInv, TypeOK, JobId, Exists
<1>2. PICK r \in Replicas : CreateRow(r) /\ req[r].job = idem[h][k]
  BY <1>1, NoOtherRow
<1>3. req[r].pc \in BeforeRow
  BY <1>2 DEF CreateRow, BeforeRow
<1>. QED
  BY <1>2, <1>3 DEF FreshInv, FreshRequest

LEMMA LiveStays ==
  ASSUME TypeInv, [Next]_vars, NEW h \in Homes, NEW k \in Keys,
         idem'[h][k] = idem[h][k], Live(h, k)
  PROVE  Live(h, k)'
<1>1. idem[h][k] \in Jobs
  BY DEF Live, TypeInv, TypeOK, JobId
<1>. QED
  BY <1>1, RowsStay DEF Live, Exists

\* The store is left alone, and so is its request.
LEMMA StoreKept ==
  ASSUME TypeInv, AcceptedJobIsStored, FreshInv, KeyInv, [Next]_vars,
         NEW h \in Homes, NEW k \in Keys,
         idem'[h][k] = idem[h][k], answers'[h][k] = answers[h][k]
  PROVE  StoreOK(h, k)'
<1>1. StoreOK(h, k)
  BY DEF KeyInv
<1>2. ASSUME Live(h, k)', ~Live(h, k)
      PROVE  answers[h][k] = {}
  <2>1. PICK r \in Replicas : /\ CreateRow(r) /\ idem[h][k] = req[r].job
                              /\ h = StoreHome(r)
    BY <1>2, ComesToLife
  <2>. QED
    BY <2>1 DEF KeyInv, KeyOK, CreateRow, BeforeRow
<1>. QED
  BY <1>1, <1>2 DEF StoreOK

LEMMA KeyKept ==
  ASSUME TypeInv, AcceptedJobIsStored, FreshInv, KeyInv, [Next]_vars,
         NEW r \in Replicas, ~CreateRow(r), OwnStores,
         req'[r].pc = req[r].pc, req'[r].job = req[r].job,
         req'[r].key = req[r].key, req'[r].held = req[r].held,
         \A k \in Keys :
           /\ idem'[StoreHome(r)][k] = idem[StoreHome(r)][k]
           /\ answers'[StoreHome(r)][k] = answers[StoreHome(r)][k]
  PROVE  KeyOK(r)'
<1>1. StoreHome(r) \in Homes /\ StoreHome(r)' = StoreHome(r)
  BY HomesOK DEF StoreHome
<1>2. \A k \in Keys : Live(StoreHome(r), k)' => Live(StoreHome(r), k)
  BY <1>1, ComesToLife DEF OwnStores
<1>3. KeyOK(r)
  BY DEF KeyInv
<1>. QED
  BY <1>1, <1>2, <1>3 DEF KeyOK, Live, StoreHome

LEMMA KeyIdle ==
  ASSUME NEW r \in Replicas, req'[r] = IdleRequest
  PROVE  KeyOK(r)'
BY IdleRequestOK DEF KeyOK, BeforeRow

LEMMA KeyHandlerStore ==
  ASSUME TypeInv, AcceptedJobIsStored, FreshInv, KeyInv, [Next]_vars,
         NEW r \in Replicas, HandlerStep(r), NEW h \in Homes, NEW k \in Keys
  PROVE  StoreOK(h, k)'
<1>0. /\ req[r] \in Request /\ RequestOK(req[r])
      /\ idem \in [Homes -> [Keys -> JobId]]
      /\ answers \in [Homes -> [Keys -> SUBSET Jobs]]
      /\ StoreHome(r) \in Homes
      /\ StoreOK(h, k)
  BY HomesOK DEF TypeInv, TypeOK, KeyInv
<1>1. CASE UNCHANGED <<idem, answers>>
  BY <1>1, StoreKept
<1>2. CASE Reserve(r)
  <2>1. req[r].key \in Keys /\ UNCHANGED <<answers, row>>
    BY <1>0, <1>2 DEF Reserve, RequestOK
  <2>2. ~Exists(req[r].job)
    BY <1>2 DEF FreshInv, FreshRequest, Reserve, BeforeRow
  <2>3. CASE h = StoreHome(r) /\ k = req[r].key /\ idem[h][k] = None
    <3>1. idem'[h][k] = req[r].job /\ answers'[h][k] = {}
      BY <1>0, <1>2, <2>1, <2>3 DEF Reserve, StoreOK
    <3>. QED
      BY <3>1 DEF StoreOK
  <2>4. CASE ~(h = StoreHome(r) /\ k = req[r].key /\ idem[h][k] = None)
    <3>1. idem'[h][k] = idem[h][k]
      BY <1>0, <1>2, <2>1, <2>4 DEF Reserve
    <3>. QED
      BY <2>1, <3>1, StoreKept
  <2>. QED
    BY <2>3, <2>4
<1>3. CASE Reply(r)
  <2>1. UNCHANGED <<idem, row>> /\ req[r].pc = "reply"
    BY <1>3 DEF Reply
  <2>2. CASE h = StoreHome(r) /\ k = req[r].key /\ idem[h][k] # None
    <3>1. req[r].key # None
      BY <2>2, NoneAssumption
    <3>2. answers'[h][k] = answers[h][k] \cup {req[r].job}
      BY <1>0, <1>3, <2>2, <3>1 DEF Reply
    <3>3. Live(h, k) => req[r].job = idem[h][k]
      BY <2>1, <2>2 DEF KeyInv, KeyOK
    <3>. QED
      BY <1>0, <2>1, <2>2, <3>2, <3>3 DEF StoreOK, Live, Exists
  <2>3. CASE ~(h = StoreHome(r) /\ k = req[r].key /\ idem[h][k] # None)
    <3>1. answers'[h][k] = answers[h][k]
      BY <1>0, <1>3, <2>3 DEF Reply, Request
    <3>. QED
      BY <2>1, <3>1, StoreKept
  <2>. QED
    BY <2>2, <2>3
<1>. QED
  BY <1>1, <1>2, <1>3 DEF HandlerStep, GetKey, LoadHolder, CreateRow, Enqueue,
                          CountSubmitted

LEMMA KeyHandlerOwn ==
  ASSUME TypeInv, AcceptedJobIsStored, FreshInv, KeyInv, [Next]_vars,
         OwnStores, NEW r \in Replicas, HandlerStep(r)
  PROVE  KeyOK(r)'
<1>. DEFINE h == StoreHome(r)
            q == req[r]
<1>0. /\ q \in Request /\ RequestOK(q) /\ KeyOK(r)
      /\ req \in [Replicas -> Request]
      /\ idem \in [Homes -> [Keys -> JobId]]
      /\ answers \in [Homes -> [Keys -> SUBSET Jobs]]
      /\ h \in Homes /\ h' = h
      /\ q.pc \in BeforeRow => ~Exists(q.job) /\ q.job \in Jobs
  BY HomesOK DEF TypeInv, TypeOK, KeyInv, StoreHome, FreshInv, FreshRequest,
                 RequestOK, BeforeRow
<1>1. CASE GetKey(r)
  <2>. DEFINE holder == idem[h][q.key]
              next == IF holder = None THEN Unresolved(q.pc)
                      ELSE IF q.pc = "get1" THEN "load1" ELSE "load2"
  <2>1. /\ next \in {"load1", "load2", "reserve", "create"} /\ next \in RequestPcs
        /\ q.pc \in {"get1", "get2"} /\ q.key \in Keys
        /\ UNCHANGED <<row, idem, answers>>
    BY <1>0, <1>1 DEF Unresolved, RequestPcs, GetKey, RequestOK
  <2>2. holder \in JobId
    BY <1>0, <2>1
  <2>3. req' = [req EXCEPT ![r] = Holding(q, next, holder)]
    BY <1>1 DEF GetKey
  <2>4. /\ next \in {"reserve", "create"} => holder = None
        /\ next = "load2" => q.pc = "get2"
    BY <2>1, NoneAssumption DEF Unresolved
  <2>5. ~Live(h, q.key) \/ next = "load1"
    BY <1>0, <2>1, <2>4 DEF KeyOK, Live
  <2>. HIDE DEF next
  <2>6. /\ req'[r].pc = next /\ req'[r].held = holder
        /\ req'[r].key = q.key /\ req'[r].job = q.job
    BY <1>0, <2>1, <2>2, <2>3, HoldingOK
  <2>. QED
    BY <1>0, <2>1, <2>5, <2>6 DEF KeyOK, Live, Exists, StoreHome, BeforeRow
<1>2. CASE LoadHolder(r)
  <2>1. UNCHANGED <<row, idem, answers>> /\ q.pc \in {"load1", "load2"}
        /\ q.key \in Keys
    BY <1>0, <1>2 DEF LoadHolder, RequestOK
  <2>2. CASE Exists(q.held)
    <3>1. req' = [req EXCEPT ![r] = Replayed(q)]
      BY <1>2, <2>2 DEF LoadHolder
    <3>2. /\ req'[r].pc = "reply" /\ req'[r].job = q.held
          /\ req'[r].key = q.key
      BY <1>0, <3>1, ReplayedOK
    <3>. QED
      BY <1>0, <2>1, <3>2 DEF KeyOK, Live, Exists, StoreHome, BeforeRow
  <2>3. CASE ~Exists(q.held)
    <3>1. req' = [req EXCEPT ![r].pc = Unresolved(q.pc)]
      BY <1>2, <2>3 DEF LoadHolder
    <3>2. /\ req'[r].pc \in {"reserve", "create"} /\ req'[r].job = q.job
          /\ req'[r].key = q.key
      BY <1>0, <3>1 DEF Unresolved, Request
    <3>3. ~Live(h, q.key)
      BY <1>0, <2>1, <2>3 DEF KeyOK, Live
    <3>. QED
      BY <1>0, <2>1, <3>2, <3>3 DEF KeyOK, Live, Exists, StoreHome, BeforeRow
  <2>. QED
    BY <2>2, <2>3
<1>3. CASE Reserve(r)
  <2>1. /\ UNCHANGED <<row, answers>> /\ q.pc = "reserve" /\ q.key \in Keys
    BY <1>0, <1>3 DEF Reserve, RequestOK
  <2>2. CASE idem[h][q.key] = None
    <3>1. /\ idem' = [idem EXCEPT ![h][q.key] = q.job]
          /\ req' = [req EXCEPT ![r].pc = "create"]
      BY <1>3, <2>2 DEF Reserve
    <3>2. /\ req'[r].pc = "create" /\ req'[r].job = q.job /\ req'[r].key = q.key
      BY <1>0, <3>1 DEF Request
    <3>3. answers'[h][q.key] = {}
      BY <1>0, <2>1, <2>2 DEF KeyInv, StoreOK
    <3>4. idem'[h][q.key] = q.job /\ ~Exists(q.job)'
      BY <1>0, <2>1, <3>1 DEF Exists, BeforeRow
    <3>5. \A k \in Keys : k # q.key => idem'[h][k] = idem[h][k]
      BY <1>0, <3>1
    <3>6. \A k \in Keys : k # q.key => idem[h][k] # q.job
      BY <1>0, <2>1 DEF FreshInv, FreshRequest, BeforeRow
    <3>7. \A k \in Keys : idem'[h][k] = q.job => answers'[h][k] = {}
      BY <3>3, <3>5, <3>6
    <3>. QED
      BY <1>0, <3>2, <3>4, <3>7 DEF KeyOK, Live, StoreHome, Exists, BeforeRow
  <2>3. CASE idem[h][q.key] # None
    <3>1. req' = [req EXCEPT ![r].pc = "get2"] /\ UNCHANGED idem
      BY <1>3, <2>3 DEF Reserve
    <3>2. /\ req'[r].pc = "get2" /\ req'[r].job = q.job /\ req'[r].key = q.key
      BY <1>0, <3>1 DEF Request
    <3>. QED
      BY <1>0, <2>1, <3>1, <3>2 DEF KeyOK, Live, StoreHome, Exists, BeforeRow
  <2>. QED
    BY <2>2, <2>3
<1>4. CASE CreateRow(r)
  <2>1. /\ UNCHANGED <<idem, answers>> /\ q.pc = "create"
        /\ req'[r].pc = "enqueue" /\ req'[r].job = q.job /\ req'[r].key = q.key
    BY <1>0, <1>4 DEF CreateRow, Request
  <2>2. ASSUME q.key \in Keys, Live(h, q.key)'
        PROVE  q.job = idem[h][q.key]
    <3>1. ~Live(h, q.key)
      BY <1>0, <2>1, <2>2 DEF KeyOK
    <3>2. PICK s \in Replicas : idem[h][q.key] = req[s].job /\ h = StoreHome(s)
      BY <1>0, <2>1, <2>2, <3>1, ComesToLife
    <3>. QED
      BY <3>2 DEF OwnStores
  <2>. QED
    BY <1>0, <2>1, <2>2 DEF KeyOK, StoreHome, Live, Exists, BeforeRow
<1>5. CASE Enqueue(r) \/ CountSubmitted(r)
  <2>1. /\ UNCHANGED <<row, idem, answers>> /\ q.pc \in {"enqueue", "count"}
        /\ req'[r].pc \in {"count", "reply"} /\ req'[r].job = q.job
        /\ req'[r].key = q.key
    BY <1>0, <1>5 DEF Enqueue, CountSubmitted, Request
  <2>. QED
    BY <1>0, <2>1 DEF KeyOK, Live, StoreHome, Exists, BeforeRow
<1>6. CASE Reply(r)
  BY <1>0, <1>6, KeyIdle DEF Reply
<1>. QED
  BY <1>1, <1>2, <1>3, <1>4, <1>5, <1>6 DEF HandlerStep

\* The request of another process does not see the step.
LEMMA KeyHandlerOthers ==
  ASSUME TypeInv, AcceptedJobIsStored, FreshInv, KeyInv, [Next]_vars,
         OwnStores, NEW r \in Replicas, HandlerStep(r),
         NEW s \in Replicas \ {r}
  PROVE  KeyOK(s)'
<1>0. /\ req \in [Replicas -> Request]
      /\ req'[s] = req[s]
      /\ StoreHome(s) # StoreHome(r) /\ StoreHome(s) \in Homes
  BY HandlerEffect, HomesOK DEF TypeInv, TypeOK, OwnStores
<1>1. ~CreateRow(s)
  BY <1>0 DEF CreateRow, Request
<1>2. /\ idem'[StoreHome(s)] = idem[StoreHome(s)]
      /\ answers'[StoreHome(s)] = answers[StoreHome(s)]
  BY <1>0 DEF TypeInv, TypeOK, HandlerStep, GetKey, LoadHolder, Reserve,
              CreateRow, Enqueue, CountSubmitted, Reply
<1>. QED
  BY <1>0, <1>1, <1>2, KeyKept

LEMMA KeyReplica ==
  ASSUME TypeInv, AcceptedJobIsStored, FreshInv, KeyInv, [Next]_vars,
         OwnStores, NEW r \in Replicas,
         \/ \E k \in Keys \cup {None} : CreateJob(r, k)
         \/ RequestFails(r)
         \/ Crash(r)
         \/ BeginShutdown(r)
         \/ EndShutdown(r)
  PROVE  KeyInv'
<1>0. /\ req \in [Replicas -> Request]
      /\ idem \in [Homes -> [Keys -> JobId]]
      /\ answers \in [Homes -> [Keys -> SUBSET Jobs]]
      /\ \A s \in Replicas : StoreHome(s) \in Homes
  BY HomesOK DEF TypeInv, TypeOK
<1>1. CASE \E k \in Keys \cup {None} : CreateJob(r, k)
  <2>1. PICK k \in Keys \cup {None}, j \in Jobs :
          /\ Fresh(j)
          /\ req' = [req EXCEPT ![r] =
               [pc |-> IF k = None THEN "create" ELSE "get1", key |-> k,
                job |-> j, held |-> None, promised |-> Promise(r, k)]]
          /\ UNCHANGED <<row, idem, answers>>
    BY <1>1 DEF CreateJob
  <2>2. KeyOK(r)'
    <3>1. /\ req'[r].job = j /\ req'[r].key = k
          /\ req'[r].pc = IF k = None THEN "create" ELSE "get1"
      BY <1>0, <2>1
    <3>2. \A l \in Keys : idem[StoreHome(r)][l] # j
      BY <1>0, <2>1 DEF Fresh
    <3>. QED
      BY <2>1, <3>1, <3>2, NoneAssumption DEF KeyOK, StoreHome, BeforeRow
  <2>3. ASSUME NEW s \in Replicas \ {r} PROVE KeyOK(s)'
    <3>1. req'[s] = req[s]
      BY <1>0, <2>1
    <3>2. ~CreateRow(s)
      BY <1>0, <3>1 DEF CreateRow, Request
    <3>. QED
      BY <2>1, <3>1, <3>2, KeyKept
  <2>. QED
    BY <2>1, <2>2, <2>3, StoreKept DEF KeyInv
<1>2. CASE RequestFails(r) \/ BeginShutdown(r)
  <2>1. /\ UNCHANGED <<idem, answers>>
        /\ \A s \in Replicas : req'[s] = req[s] \/ req'[s] = IdleRequest
    BY <1>0, <1>2 DEF RequestFails, BeginShutdown
  <2>2. ASSUME NEW s \in Replicas, req'[s] = req[s] PROVE KeyOK(s)'
    <3>1. ~CreateRow(s)
      BY <1>0, <2>2 DEF CreateRow, Request
    <3>. QED
      BY <2>1, <2>2, <3>1, KeyKept
  <2>. QED
    BY <2>1, <2>2, KeyIdle, StoreKept DEF KeyInv
<1>3. CASE Restart(r)
  <2>1. KeyOK(r)'
    BY <1>0, <1>3, KeyIdle DEF Restart
  <2>2. ASSUME NEW s \in Replicas \ {r} PROVE KeyOK(s)'
    <3>1. req'[s] = req[s]
      BY <1>0, <1>3 DEF Restart
    <3>2. ~CreateRow(s)
      BY <1>0, <3>1 DEF CreateRow, Request
    <3>3. /\ idem'[StoreHome(s)] = idem[StoreHome(s)]
          /\ answers'[StoreHome(s)] = answers[StoreHome(s)]
      BY <1>0, <1>3, HomesOK DEF Restart, StoreHome
    <3>. QED
      BY <3>1, <3>2, <3>3, KeyKept
  <2>3. ASSUME NEW h \in Homes, NEW k \in Keys PROVE StoreOK(h, k)'
    <3>1. CASE ~RedisUrl /\ h = r
      <4>1. idem'[h][k] = None /\ answers'[h][k] = {}
        BY <1>0, <1>3, <3>1 DEF Restart, EmptyStore, NoAnswers
      <4>. QED
        BY <4>1 DEF StoreOK, Live
    <3>2. CASE RedisUrl \/ h # r
      <4>1. idem'[h][k] = idem[h][k] /\ answers'[h][k] = answers[h][k]
        BY <1>0, <1>3, <3>2 DEF Restart
      <4>. QED
        BY <4>1, StoreKept
    <3>. QED
      BY <3>1, <3>2
  <2>. QED
    BY <2>1, <2>2, <2>3 DEF KeyInv
<1>. QED
  BY <1>1, <1>2, <1>3 DEF Crash, EndShutdown

LEMMA KeyExpire ==
  ASSUME TypeInv, AcceptedJobIsStored, FreshInv, KeyInv, [Next]_vars,
         OwnStores, NEW h \in Homes, NEW k \in Keys, Expire(h, k)
  PROVE  KeyInv'
<1>0. /\ \A s \in Replicas : /\ req'[s].pc = req[s].pc
                             /\ req'[s].job = req[s].job
                             /\ req'[s].key = req[s].key
                             /\ req'[s].held = req[s].held
      /\ UNCHANGED row
      /\ idem \in [Homes -> [Keys -> JobId]]
      /\ answers \in [Homes -> [Keys -> SUBSET Jobs]]
      /\ \A s \in Replicas : StoreHome(s) \in Homes
  BY HomesOK DEF Expire, TypeInv, TypeOK, Request
<1>1. /\ idem'[h][k] = None /\ answers'[h][k] = {}
      /\ \A g \in Homes, l \in Keys :
           ~(g = h /\ l = k) => /\ idem'[g][l] = idem[g][l]
                                /\ answers'[g][l] = answers[g][l]
  BY <1>0 DEF Expire
<1>2. ASSUME NEW g \in Homes, NEW l \in Keys PROVE StoreOK(g, l)'
  BY <1>1, StoreKept DEF StoreOK, Live
<1>3. ASSUME NEW s \in Replicas PROVE KeyOK(s)'
  <2>1. \A l \in Keys :
          \/ /\ idem'[StoreHome(s)][l] = idem[StoreHome(s)][l]
             /\ answers'[StoreHome(s)][l] = answers[StoreHome(s)][l]
          \/ /\ idem'[StoreHome(s)][l] = None
             /\ answers'[StoreHome(s)][l] = {}
    BY <1>0, <1>1
  <2>2. KeyOK(s)
    BY DEF KeyInv
  <2>. QED
    BY <1>0, <2>1, <2>2 DEF KeyOK, Live, Exists, StoreHome
<1>. QED
  BY <1>2, <1>3 DEF KeyInv

LEMMA KeyNext ==
  ASSUME OwnStores
  PROVE  TypeInv /\ AcceptedJobIsStored /\ FreshInv /\ KeyInv /\ [Next]_vars
           => KeyInv'
<1>. SUFFICES ASSUME TypeInv, AcceptedJobIsStored, FreshInv, KeyInv,
                     [Next]_vars
              PROVE  KeyInv'
  OBVIOUS
<1>1. CASE UNCHANGED <<req, idem, answers>>
  <2>1. \A r \in Replicas : ~CreateRow(r)
    BY <1>1 DEF CreateRow, TypeInv, TypeOK, Request
  <2>. QED
    BY <1>1, <2>1, KeyKept, StoreKept DEF KeyInv
<1>2. ASSUME NEW r \in Replicas, HandlerStep(r)
      PROVE  KeyInv'
  BY <1>2, KeyHandlerStore, KeyHandlerOwn, KeyHandlerOthers DEF KeyInv
<1>3. ASSUME NEW w \in Workers,
             \/ ExecutorStep(w)
             \/ ExecutionFails(w)
             \/ VisibilityTimeout(w)
             \/ WorkerCrash(w)
             \/ ChildLost(w)
      PROVE  UNCHANGED <<req, idem, answers>>
  BY <1>3 DEF ExecutorStep, Take, Fetch, Start, RunPipeline, Finish, Update,
              Notify, Ack, ExecutionFails, VisibilityTimeout, WorkerCrash,
              ChildLost
<1>4. CASE UNCHANGED vars
  BY <1>1, <1>4 DEF vars
<1>. QED
  BY <1>1, <1>2, <1>3, <1>4, KeyReplica, KeyExpire DEF Next

LEMMA KeyInit == Init => KeyInv
BY IdleRequestOK, HomesOK
   DEF Init, KeyInv, StoreOK, KeyOK, Live, EmptyStore, NoAnswers, BeforeRow

\* While a key is reserved, every answer for it names its holder, if each API
\* process has the store of its keys to itself, unless the request of the holder
\* left without an INSERT.  Two that share Redis do not keep this.
THEOREM AnswersNameTheirHolder ==
  ASSUME OwnStores
  PROVE  Spec => []AnswersNameHolder
<1>1. TypeInv /\ AcceptedJobIsStored /\ FreshInv /\ KeyInv => AnswersNameHolder
  <2>. SUFFICES ASSUME TypeInv, AcceptedJobIsStored, FreshInv, KeyInv,
                       NEW h \in Homes, NEW k \in Keys, idem[h][k] # None,
                       Exists(idem[h][k]) \/ InProgress(idem[h][k])
                PROVE  answers[h][k] \subseteq {idem[h][k]}
    BY DEF AnswersNameHolder
  <2>1. CASE Exists(idem[h][k])
    BY <2>1 DEF KeyInv, StoreOK, Live
  <2>2. CASE ~Exists(idem[h][k])
    <3>1. PICK r \in Replicas : req[r].pc # "idle" /\ req[r].job = idem[h][k]
      BY <2>2 DEF InProgress
    <3>2. req[r].pc \in BeforeRow
      BY <2>2, <3>1 DEF AcceptedJobIsStored, TypeInv, TypeOK, Request,
                        RequestPcs, BeforeRow
    <3>3. h = StoreHome(r)
      BY <3>1, <3>2 DEF FreshInv, FreshRequest
    <3>. QED
      BY <3>1, <3>2, <3>3 DEF KeyInv, KeyOK
  <2>. QED
    BY <2>1, <2>2
<1>2. TypeInv /\ AcceptedJobIsStored /\ FreshInv /\ KeyInv /\ [Next]_vars
        => KeyInv'
  BY KeyNext
<1>. QED
  BY <1>1, <1>2, TypeInvariant, AcceptedJobsStored, FreshInvariant, KeyInit, PTL
     DEF Spec

\* A process that shuts down has answered its requests.
DrainInv == \A r \in Replicas : phase[r] = "draining" => req[r].pc = "idle"

LEMMA DrainNext == TypeInv /\ DrainInv /\ [Next]_vars => DrainInv'
<1>. SUFFICES ASSUME TypeInv, DrainInv, [Next]_vars, NEW s \in Replicas,
                     phase'[s] = "draining"
              PROVE  req'[s].pc = "idle"
  BY DEF DrainInv
<1>0. /\ phase \in [Replicas -> {"up", "draining"}]
      /\ req \in [Replicas -> Request]
  BY DEF TypeInv, TypeOK
<1>1. ASSUME NEW r \in Replicas, NEW k \in Keys \cup {None}, CreateJob(r, k)
      PROVE  req'[s].pc = "idle"
  BY <1>0, <1>1 DEF CreateJob, DrainInv
<1>2. ASSUME NEW r \in Replicas, HandlerStep(r)
      PROVE  req'[s].pc = "idle"
  <2>1. phase' = phase
    BY <1>2 DEF HandlerStep, GetKey, LoadHolder, Reserve, CreateRow, Enqueue,
                CountSubmitted, Reply
  <2>. QED
    BY <1>2, <2>1, HandlerEffect DEF DrainInv
<1>3. ASSUME NEW r \in Replicas, RequestFails(r) \/ BeginShutdown(r)
      PROVE  req'[s].pc = "idle"
  BY <1>0, <1>3, IdleRequestOK DEF RequestFails, BeginShutdown, DrainInv
<1>4. ASSUME NEW r \in Replicas, Restart(r)
      PROVE  req'[s].pc = "idle"
  BY <1>0, <1>4, IdleRequestOK DEF Restart, DrainInv
<1>5. ASSUME NEW h \in Homes, NEW k \in Keys, Expire(h, k)
      PROVE  req'[s].pc = "idle"
  <2>1. req'[s].pc = req[s].pc /\ phase' = phase
    BY <1>0, <1>5 DEF Expire, Request
  <2>. QED
    BY <2>1 DEF DrainInv
<1>6. CASE UNCHANGED <<req, phase>>
  BY <1>6 DEF DrainInv
<1>7. \/ UNCHANGED <<req, phase>>
      \/ \E r \in Replicas :
           \/ \E k \in Keys \cup {None} : CreateJob(r, k)
           \/ HandlerStep(r) \/ RequestFails(r) \/ BeginShutdown(r)
           \/ Restart(r)
      \/ \E h \in Homes, k \in Keys : Expire(h, k)
  BY DEF Next, vars, Crash, EndShutdown, ExecutorStep, Take, Fetch, Start,
         RunPipeline, Finish, Update, Notify, Ack, ExecutionFails,
         VisibilityTimeout, WorkerCrash, ChildLost
<1>. QED
  BY <1>1, <1>2, <1>3, <1>4, <1>5, <1>6, <1>7

(***************************************************************************)
(* No request leaves between reserve and the INSERT: the INSERT does not   *)
(* raise, and no process dies that leaves its reservations in Redis.       *)
(***************************************************************************)
InsertsHappen ==
  "create" \notin Faults /\ (RedisUrl => Replicas \cap Crashable = {})

HolderOK(h, k) ==
  idem[h][k] = None \/ Exists(idem[h][k]) \/ InProgress(idem[h][k])

HolderInv == \A h \in Homes, k \in Keys : HolderOK(h, k)

\* A request is on its way to the INSERT with the id that its key holds, or it
\* has made it.
LEMMA HolderOfRequest ==
  ASSUME TypeInv, AcceptedJobIsStored, FreshInv,
         NEW h \in Homes, NEW k \in Keys, idem[h][k] # None,
         NEW r \in Replicas, req[r].pc # "idle", req[r].job = idem[h][k]
  PROVE  \/ Exists(idem[h][k])
         \/ req[r].pc = "create" /\ h = StoreHome(r)
<1>1. CASE req[r].pc \in BeforeRow
  BY <1>1 DEF FreshInv, FreshRequest
<1>2. CASE req[r].pc \notin BeforeRow
  <2>1. req[r].pc \in RequestPcs
    BY DEF TypeInv, TypeOK, Request
  <2>2. req[r].pc \in {"enqueue", "count", "reply"}
    BY <1>2, <2>1 DEF RequestPcs, BeforeRow
  <2>3. Exists(req[r].job)
    BY <2>2 DEF AcceptedJobIsStored
  <2>. QED
    BY <2>3 DEF Exists
<1>. QED
  BY <1>1, <1>2

LEMMA HolderKept ==
  ASSUME TypeInv, AcceptedJobIsStored, FreshInv, HolderInv, [Next]_vars,
         NEW h \in Homes, NEW k \in Keys, idem'[h][k] = idem[h][k],
         \A r \in Replicas : req[r].pc = "create" /\ h = StoreHome(r) =>
           \/ req'[r].pc # "idle" /\ req'[r].job = req[r].job
           \/ CreateRow(r)
  PROVE  HolderOK(h, k)'
<1>. SUFFICES ASSUME idem[h][k] # None PROVE HolderOK(h, k)'
  BY DEF HolderOK
<1>1. idem[h][k] \in Jobs
  BY DEF TypeInv, TypeOK, JobId
<1>2. CASE Exists(idem[h][k])
  BY <1>1, <1>2, RowsStay DEF HolderOK, Exists
<1>3. CASE ~Exists(idem[h][k])
  <2>1. PICK r \in Replicas : req[r].pc # "idle" /\ req[r].job = idem[h][k]
    BY <1>3 DEF HolderInv, HolderOK, InProgress
  <2>2. req[r].pc = "create" /\ h = StoreHome(r)
    BY <1>3, <2>1, HolderOfRequest
  <2>3. CASE req'[r].pc # "idle" /\ req'[r].job = req[r].job
    BY <2>1, <2>3 DEF HolderOK, InProgress
  <2>4. CASE CreateRow(r)
    <3>1. row'[idem[h][k]] = NewJob
      BY <1>1, <2>1, <2>4 DEF CreateRow, TypeInv, TypeOK
    <3>. QED
      BY <3>1 DEF HolderOK, Exists, NewJob
  <2>. QED
    BY <2>2, <2>3, <2>4
<1>. QED
  BY <1>2, <1>3

\* A handler does not leave between reserve and the INSERT by itself.
LEMMA HolderHandler ==
  ASSUME TypeInv, AcceptedJobIsStored, FreshInv, HolderInv, [Next]_vars,
         NEW r \in Replicas, HandlerStep(r), NEW h \in Homes, NEW k \in Keys
  PROVE  HolderOK(h, k)'
<1>0. /\ req[r] \in Request /\ req \in [Replicas -> Request]
      /\ idem \in [Homes -> [Keys -> JobId]] /\ StoreHome(r) \in Homes
      /\ RequestOK(req[r])
  BY HomesOK DEF TypeInv, TypeOK
<1>1. CASE Reserve(r) /\ idem'[h][k] # idem[h][k]
  <2>1. /\ idem'[h][k] = req[r].job
        /\ req' = [req EXCEPT ![r].pc = "create"]
    BY <1>0, <1>1 DEF Reserve, RequestOK
  <2>2. req'[r].pc # "idle" /\ req'[r].job = req[r].job
    BY <1>0, <2>1 DEF Request
  <2>. QED
    BY <2>1, <2>2 DEF HolderOK, InProgress
<1>2. CASE idem'[h][k] = idem[h][k]
  <2>1. ASSUME NEW s \in Replicas, req[s].pc = "create"
        PROVE  CreateRow(s) \/ req'[s] = req[s]
    <3>1. CASE s = r
      BY <2>1, <1>0, <3>1 DEF HandlerStep, GetKey, LoadHolder, Reserve, Enqueue,
                         CountSubmitted, Reply
    <3>2. CASE s # r
      BY <3>2, HandlerEffect
    <3>. QED
      BY <3>1, <3>2
  <2>2. \A s \in Replicas :
          req[s].pc = "create" /\ h = StoreHome(s) =>
            \/ req'[s].pc # "idle" /\ req'[s].job = req[s].job
            \/ CreateRow(s)
    BY <2>1
  <2>. QED
    BY <1>2, <2>2, HolderKept
<1>3. UNCHANGED idem \/ Reserve(r)
  BY HandlerEffect
<1>. QED
  BY <1>1, <1>2, <1>3

\* Nothing else takes it away: the INSERT does not raise, and a process that
\* goes away has no request in progress or takes its store with it.
LEMMA HolderReplica ==
  ASSUME TypeInv, AcceptedJobIsStored, FreshInv, HolderInv, DrainInv,
         [Next]_vars, InsertsHappen, NEW r \in Replicas,
         \/ \E k \in Keys \cup {None} : CreateJob(r, k)
         \/ RequestFails(r)
         \/ Crash(r)
         \/ BeginShutdown(r)
         \/ EndShutdown(r),
         NEW h \in Homes, NEW k \in Keys
  PROVE  HolderOK(h, k)'
<1>0. /\ req \in [Replicas -> Request]
      /\ idem \in [Homes -> [Keys -> JobId]]
      /\ \A s \in Replicas : s \in Homes
  BY HomesOK DEF TypeInv, TypeOK
<1>1. CASE \/ \E l \in Keys \cup {None} : CreateJob(r, l)
           \/ RequestFails(r)
           \/ BeginShutdown(r)
  <2>1. /\ idem' = idem
        /\ \A s \in Replicas : req[s].pc = "create" => req'[s] = req[s]
    BY <1>0, <1>1 DEF CreateJob, RequestFails, BeginShutdown, InsertsHappen
  <2>2. \A s \in Replicas :
          req[s].pc = "create" /\ h = StoreHome(s) =>
            \/ req'[s].pc # "idle" /\ req'[s].job = req[s].job
            \/ CreateRow(s)
    BY <2>1
  <2>. QED
    BY <2>1, <2>2, HolderKept
<1>2. CASE Restart(r) /\ ~RedisUrl /\ h = r
  BY <1>0, <1>2 DEF Restart, HolderOK, EmptyStore
<1>3. CASE (Crash(r) \/ EndShutdown(r)) /\ (RedisUrl \/ h # r)
  <2>0. Restart(r)
    BY <1>3 DEF Crash, EndShutdown
  <2>1. idem'[h][k] = idem[h][k]
    BY <1>0, <1>3, <2>0 DEF Restart
  <2>2. RedisUrl => req[r].pc = "idle"
    BY <1>3 DEF InsertsHappen, Crash, EndShutdown, DrainInv
  <2>3. \A s \in Replicas :
          req[s].pc = "create" /\ h = StoreHome(s) =>
            req'[s].pc # "idle" /\ req'[s].job = req[s].job
    BY <1>0, <1>3, <2>0, <2>2 DEF Restart, StoreHome
  <2>. QED
    BY <2>1, <2>3, HolderKept
<1>. QED
  BY <1>1, <1>2, <1>3 DEF Crash, EndShutdown

LEMMA HolderNext ==
  ASSUME InsertsHappen
  PROVE  TypeInv /\ AcceptedJobIsStored /\ FreshInv /\ HolderInv /\ DrainInv
           /\ [Next]_vars => HolderInv'
<1>. SUFFICES ASSUME TypeInv, AcceptedJobIsStored, FreshInv, HolderInv,
                     DrainInv, [Next]_vars
              PROVE  \A h \in Homes, k \in Keys : HolderOK(h, k)'
  BY DEF HolderInv
<1>. TAKE h \in Homes, k \in Keys
<1>1. CASE UNCHANGED <<req, idem>>
  BY <1>1, HolderKept
<1>2. ASSUME NEW w \in Workers,
             \/ ExecutorStep(w)
             \/ ExecutionFails(w)
             \/ VisibilityTimeout(w)
             \/ WorkerCrash(w)
             \/ ChildLost(w)
      PROVE  UNCHANGED <<req, idem>>
  BY <1>2 DEF ExecutorStep, Take, Fetch, Start, RunPipeline, Finish, Update,
              Notify, Ack, ExecutionFails, VisibilityTimeout, WorkerCrash,
              ChildLost
<1>3. ASSUME NEW g \in Homes, NEW l \in Keys, Expire(g, l)
      PROVE  HolderOK(h, k)'
  <2>1. \A s \in Replicas : req'[s].pc = req[s].pc /\ req'[s].job = req[s].job
    BY <1>3 DEF Expire, TypeInv, TypeOK, Request
  <2>2. idem'[h][k] = idem[h][k] \/ idem'[h][k] = None
    BY <1>3 DEF Expire, TypeInv, TypeOK
  <2>3. CASE idem'[h][k] = idem[h][k]
    BY <2>1, <2>3, HolderKept
  <2>. QED
    BY <2>2, <2>3 DEF HolderOK
<1>4. CASE UNCHANGED vars
  BY <1>1, <1>4 DEF vars
<1>. QED
  BY <1>1, <1>2, <1>3, <1>4, HolderHandler, HolderReplica DEF Next

\* While a key is reserved all answers for it carry one job id, if each API
\* process has the store of its keys to itself and every reservation is followed
\* by its INSERT.  celery_key_race shows what two replicas
\* do without the first; without the second a key may name no row, and every
\* retry is answered with another job.
THEOREM KeysNameOneJob ==
  ASSUME OwnStores, InsertsHappen
  PROVE  Spec => []KeyNamesOneJob
<1>1. Init => HolderInv /\ DrainInv
  BY IdleRequestOK DEF Init, HolderInv, HolderOK, EmptyStore, DrainInv
<1>2. TypeInv /\ DrainInv /\ [Next]_vars => DrainInv'
  BY DrainNext
<1>3. TypeInv /\ AcceptedJobIsStored /\ FreshInv /\ HolderInv /\ DrainInv
        /\ [Next]_vars => HolderInv'
  BY HolderNext
<1>4. AnswersNameHolder /\ HolderInv => KeyNamesOneJob
  BY DEF AnswersNameHolder, HolderInv, HolderOK, KeyNamesOneJob
<1>5. Spec => []AnswersNameHolder
  BY AnswersNameTheirHolder
<1>. QED
  BY <1>1, <1>2, <1>3, <1>4, <1>5, TypeInvariant, AcceptedJobsStored,
     FreshInvariant, PTL DEF Spec

-----------------------------------------------------------------------------
(***************************************************************************)
(* Who executes a job, and what its row says: the inductive invariants.    *)
(***************************************************************************)

\* The places where a job may be on its way to its end: with a handler that
\* is about to hand it over, in a queue, or with an executor.
Sends(r, j) == req[r].pc = "enqueue" /\ req[r].job = j

Executes(w, j) == wk[w].pc \in Owing \cup {"notify"} /\ wk[w].job = j

\* It is in one of them at most.
OnePlace(j) ==
  /\ \A r \in Replicas :
       Sends(r, j) => /\ \A s \in Replicas \ {r} : ~Sends(s, j)
                      /\ \A h \in Homes : j \notin queue[h]
                      /\ \A w \in Workers : ~Executes(w, j)
  /\ \A h \in Homes :
       j \in queue[h] => /\ \A g \in Homes \ {h} : j \notin queue[g]
                         /\ \A w \in Workers : ~Executes(w, j)
  /\ \A w \in Workers :
       Executes(w, j) => \A v \in Workers \ {w} : ~Executes(v, j)

\* The rows an execution writes, and the copies it keeps of them.
RunningJob == [status |-> "running", filled |-> {"started_at"}]

RanJobs == {[status |-> o.status, filled |-> {"started_at", o.column}] :
              o \in Outcomes}

EndedJobs == {[status |-> o.status,
               filled |-> {"started_at", o.column, "finished_at"}] :
                o \in Outcomes}

\* What the row, and the copy of the executor, hold in each of the places.
InStep(j, x) ==
  /\ x.pc = "fetch" => row[j] = NewJob
  /\ x.pc = "start" => row[j] = NewJob /\ x.copy = NewJob
  /\ x.pc = "run" => row[j] = RunningJob /\ x.copy = RunningJob
  /\ x.pc = "finish" => row[j] = RunningJob /\ x.copy \in RanJobs
  /\ x.pc = "notify" => row[j] = x.copy /\ x.copy \in EndedJobs

RowInStep(j) ==
  /\ \A r \in Replicas : Sends(r, j) => row[j] = NewJob
  /\ \A h \in Homes : j \in queue[h] => row[j] = NewJob
  /\ \A w \in Workers : Executes(w, j) => InStep(j, wk[w])
  /\ row[j] \in {NoRow, NewJob, RunningJob} \cup EndedJobs

\* A job whose message was never delivered again is executed once.
Once(j) == redeliveries[j] = 0 => OnePlace(j) /\ RowInStep(j)

OnceInv == \A j \in Jobs : Once(j)

\* Nobody redelivers what waits in the queue of a pool.
NoRedeliveries == ~Celery => \A j \in Jobs : redeliveries[j] = 0

ExecutionInv ==
  TypeInv /\ AcceptedJobIsStored /\ FreshInv /\ OnceInv /\ NoRedeliveries

\* The ended jobs that no executor is still to count.
Counted(ended) ==
  {j \in Jobs : /\ row[j].status = ended
                /\ \A w \in Workers : ~(wk[w].pc = "notify" /\ wk[w].job = j)}

CountInv ==
  \A h \in Homes :
    /\ metrics[h].completed <= Cardinality(Counted("completed"))
    /\ metrics[h].failed <= Cardinality(Counted("failed"))

\* An executor whose delivery the broker let go of before its end has a
\* redelivered job.
OverdueInv ==
  Celery => \A w \in Workers :
              wk[w].pc \in Owing /\ w \notin unacked
                => redeliveries[wk[w].job] > 0

-----------------------------------------------------------------------------
(***************************************************************************)
(* A job whose message is not delivered again is executed once.            *)
(***************************************************************************)

LEMMA PcsApart ==
  /\ Owing \cup {"notify"} = WorkerPcs \ {"idle", "ack"}
  /\ IdleRequest.pc = "idle" /\ IdleWorker.pc = "idle"
BY DEF Owing, WorkerPcs, IdleRequest, IdleWorker

\* A step that brings the job to no place keeps what is known of it.
LEMMA OnceKept ==
  ASSUME NEW j \in Jobs, Once(j),
         redeliveries'[j] = 0 => redeliveries[j] = 0,
         row'[j] = row[j],
         \A r \in Replicas : Sends(r, j)' => Sends(r, j),
         \A h \in Homes : j \in queue'[h] => j \in queue[h],
         \A w \in Workers : Executes(w, j)' => wk'[w] = wk[w]
  PROVE  Once(j)'
<1>. SUFFICES ASSUME redeliveries'[j] = 0
              PROVE  OnePlace(j)' /\ RowInStep(j)'
  BY DEF Once
<1>1. OnePlace(j) /\ RowInStep(j)
  BY DEF Once
<1>2. \A w \in Workers : Executes(w, j)' => Executes(w, j)
  BY DEF Executes
<1>3. OnePlace(j)'
  BY <1>1, <1>2 DEF OnePlace
<1>4. \A w \in Workers : Executes(w, j)' => InStep(j, wk[w])'
  BY <1>1, <1>2 DEF RowInStep, InStep
<1>5. row'[j] \in {NoRow, NewJob, RunningJob} \cup EndedJobs
  BY <1>1 DEF RowInStep
<1>6. /\ \A r \in Replicas : Sends(r, j)' => row'[j] = NewJob
      /\ \A h \in Homes : j \in queue'[h] => row'[j] = NewJob
  BY <1>1 DEF RowInStep
<1>. QED
  BY <1>3, <1>4, <1>5, <1>6 DEF RowInStep

\* A step of the executor that has the job keeps it, if the row and the copy
\* are those of the step that is next.
LEMMA OnceExecutes ==
  ASSUME NEW j \in Jobs, Once(j), NEW w \in Workers, Executes(w, j),
         UNCHANGED <<req, queue, redeliveries>>,
         \A v \in Workers \ {w} : wk'[v] = wk[v],
         redeliveries[j] = 0 =>
           /\ InStep(j, wk[w])'
           /\ row'[j] \in {NoRow, NewJob, RunningJob} \cup EndedJobs
  PROVE  Once(j)'
<1>. SUFFICES ASSUME redeliveries[j] = 0
              PROVE  OnePlace(j)' /\ RowInStep(j)'
  BY DEF Once
<1>1. OnePlace(j)
  BY DEF Once
<1>2. /\ \A r \in Replicas : ~Sends(r, j)
      /\ \A h \in Homes : j \notin queue[h]
      /\ \A v \in Workers \ {w} : ~Executes(v, j)
  BY <1>1 DEF OnePlace
<1>3. /\ \A r \in Replicas : ~Sends(r, j)'
      /\ \A h \in Homes : j \notin queue'[h]
      /\ \A v \in Workers \ {w} : ~Executes(v, j)'
  BY <1>2 DEF Sends, Executes
<1>. QED
  BY <1>3 DEF OnePlace, RowInStep, InStep

\* The handler: the row is written once, by its own request, and the id goes
\* from the handler to one queue.
LEMMA OnceHandler ==
  ASSUME ExecutionInv, [Next]_vars, NEW r \in Replicas, HandlerStep(r),
         NEW j \in Jobs
  PROVE  Once(j)'
<1>0. /\ TypeInv /\ AcceptedJobIsStored /\ Once(j)
      /\ req \in [Replicas -> Request] /\ req[r] \in Request
      /\ RequestOK(req[r])
      /\ row \in [Jobs -> PipelineJob] /\ queue \in [Homes -> SUBSET Jobs]
      /\ RunnerHome(r) \in Homes
      /\ UNCHANGED <<wk, redeliveries>>
      /\ \A s \in Replicas \ {r} : req'[s] = req[s]
  BY HandlerEffect, HomesOK
     DEF ExecutionInv, OnceInv, TypeInv, TypeOK, HandlerStep, GetKey,
         LoadHolder, Reserve, CreateRow, Enqueue, CountSubmitted, Reply
<1>1. CASE CreateRow(r)
  <2>1. /\ req'[r].pc = "enqueue" /\ req'[r].job = req[r].job
        /\ row' = [row EXCEPT ![req[r].job] = NewJob]
        /\ queue' = queue /\ req[r].pc = "create" /\ req[r].job \in Jobs
    BY <1>0, <1>1 DEF CreateRow, Request, RequestOK
  <2>2. CASE j = req[r].job
    <3>1. ~Exists(j)
      BY <2>1, <2>2 DEF ExecutionInv, FreshInv, FreshRequest, BeforeRow
    <3>2. /\ \A s \in Replicas : ~Sends(s, j)
          /\ \A h \in Homes : j \notin queue[h]
          /\ \A w \in Workers : ~Executes(w, j)
      BY <1>0, <3>1, AcceptedParts
         DEF RequestStored, QueuesStored, ExecutionStored, Sends, Executes, Owing
    <3>3. /\ \A s \in Replicas : Sends(s, j)' => s = r
          /\ \A h \in Homes : j \notin queue'[h]
          /\ \A w \in Workers : ~Executes(w, j)'
      BY <1>0, <2>1, <3>2 DEF Sends, Executes
    <3>4. row'[j] = NewJob
      BY <1>0, <2>1, <2>2
    <3>. QED
      BY <3>3, <3>4 DEF Once, OnePlace, RowInStep
  <2>3. CASE j # req[r].job
    <3>1. \A s \in Replicas : Sends(s, j)' => Sends(s, j)
      BY <1>0, <2>1, <2>3 DEF Sends
    <3>2. row'[j] = row[j]
      BY <1>0, <2>1, <2>3
    <3>. QED
      BY <1>0, <2>1, <3>1, <3>2, OnceKept
  <2>. QED
    BY <2>2, <2>3
<1>2. CASE Enqueue(r)
  <2>1. /\ req'[r].pc = "count"
        /\ queue' = [queue EXCEPT ![RunnerHome(r)] = @ \cup {req[r].job}]
        /\ row' = row /\ req[r].pc = "enqueue"
    BY <1>0, <1>2 DEF Enqueue, Request
  <2>2. \A s \in Replicas : Sends(s, j)' => Sends(s, j) /\ s # r
    BY <1>0, <2>1 DEF Sends
  <2>3. CASE j = req[r].job
    <3>. SUFFICES ASSUME redeliveries[j] = 0
                  PROVE  OnePlace(j)' /\ RowInStep(j)'
      BY <1>0 DEF Once
    <3>1. Sends(r, j) /\ OnePlace(j) /\ RowInStep(j)
      BY <1>0, <2>1, <2>3 DEF Sends, Once
    <3>2. /\ \A s \in Replicas : ~Sends(s, j)'
          /\ \A h \in Homes : j \in queue'[h] => h = RunnerHome(r)
          /\ \A w \in Workers : ~Executes(w, j)'
      <4>1. \A h \in Homes : j \notin queue[h]
        BY <3>1 DEF OnePlace
      <4>2. \A w \in Workers : ~Executes(w, j)
        BY <3>1 DEF OnePlace
      <4>3. \A s \in Replicas : ~Sends(s, j)'
        BY <2>2, <3>1 DEF OnePlace
      <4>. QED
        BY <1>0, <2>1, <4>1, <4>2, <4>3 DEF Executes
    <3>3. row'[j] = NewJob
      BY <2>1, <3>1 DEF RowInStep
    <3>. QED
      BY <3>2, <3>3 DEF OnePlace, RowInStep
  <2>4. CASE j # req[r].job
    <3>1. \A h \in Homes : j \in queue'[h] => j \in queue[h]
      BY <1>0, <2>1, <2>4
    <3>. QED
      BY <1>0, <2>1, <2>2, <3>1, OnceKept
  <2>. QED
    BY <2>3, <2>4
<1>3. CASE ~CreateRow(r) /\ ~Enqueue(r)
  <2>1. UNCHANGED <<row, queue>>
    BY <1>3 DEF HandlerStep, GetKey, LoadHolder, Reserve, CountSubmitted, Reply
  <2>2. req'[r].pc # "enqueue"
    <3>1. CASE GetKey(r)
      <4>. DEFINE holder == idem[StoreHome(r)][req[r].key]
                  next == IF holder = None THEN Unresolved(req[r].pc)
                          ELSE IF req[r].pc = "get1" THEN "load1" ELSE "load2"
      <4>1. next \in {"load1", "load2", "reserve", "create"}
            /\ next \in RequestPcs
        BY DEF Unresolved, RequestPcs
      <4>2. holder \in JobId
        BY <1>0, <3>1, HomesOK DEF TypeInv, TypeOK, GetKey, RequestOK
      <4>3. req' = [req EXCEPT ![r] = Holding(req[r], next, holder)]
        BY <3>1 DEF GetKey
      <4>. HIDE DEF holder, next
      <4>. QED
        BY <1>0, <4>1, <4>2, <4>3, HoldingOK
    <3>2. CASE LoadHolder(r)
      BY <1>0, <3>2, ReplayedOK DEF LoadHolder, Unresolved, Request
    <3>3. CASE Reserve(r)
      BY <1>0, <3>3 DEF Reserve, Request
    <3>4. CASE CountSubmitted(r) \/ Reply(r)
      BY <1>0, <3>4, PcsApart DEF CountSubmitted, Reply, Request
    <3>. QED
      BY <1>3, <3>1, <3>2, <3>3, <3>4 DEF HandlerStep
  <2>. QED
    BY <1>0, <2>1, <2>2, OnceKept DEF Sends
<1>. QED
  BY <1>1, <1>2, <1>3

\* Requests that arrive or end, the life of a process, and expiring keys.
LEMMA OnceReplica ==
  ASSUME ExecutionInv, [Next]_vars, NEW j \in Jobs,
         \/ \E r \in Replicas :
              \/ \E k \in Keys \cup {None} : CreateJob(r, k)
              \/ RequestFails(r)
              \/ Crash(r)
              \/ BeginShutdown(r)
              \/ EndShutdown(r)
         \/ \E h \in Homes, k \in Keys : Expire(h, k)
  PROVE  Once(j)'
<1>0. /\ Once(j)
      /\ req \in [Replicas -> Request] /\ wk \in [Workers -> Execution]
      /\ queue \in [Homes -> SUBSET Jobs]
  BY DEF ExecutionInv, OnceInv, TypeInv, TypeOK
<1>1. CASE \E h \in Homes, k \in Keys : Expire(h, k)
  <2>1. /\ \A s \in Replicas : req'[s].pc = req[s].pc /\ req'[s].job = req[s].job
        /\ UNCHANGED <<row, queue, redeliveries, wk>>
    BY <1>0, <1>1 DEF Expire, Request
  <2>. QED
    BY <1>0, <2>1, OnceKept DEF Sends
<1>2. ASSUME NEW r \in Replicas,
             \/ \E k \in Keys \cup {None} : CreateJob(r, k)
             \/ RequestFails(r)
             \/ BeginShutdown(r)
             \/ Restart(r)
      PROVE  Once(j)'
  <2>1. /\ \A s \in Replicas : req'[s] = req[s] \/ req'[s].pc # "enqueue"
        /\ UNCHANGED <<row, redeliveries>>
    BY <1>0, <1>2, PcsApart DEF CreateJob, RequestFails, BeginShutdown, Restart
  <2>2. \A h \in Homes : queue'[h] \subseteq queue[h]
    BY <1>0, <1>2 DEF CreateJob, RequestFails, BeginShutdown, Restart
  <2>3. \A w \in Workers : wk'[w] = wk[w] \/ wk'[w] = IdleWorker
    BY <1>0, <1>2 DEF CreateJob, RequestFails, BeginShutdown, Restart
  <2>4. \A w \in Workers : Executes(w, j)' => wk'[w] = wk[w]
    BY <2>3, PcsApart DEF Executes
  <2>. QED
    BY <1>0, <2>1, <2>2, <2>4, OnceKept DEF Sends
<1>. QED
  BY <1>1, <1>2 DEF Crash, EndShutdown

\* Take moves the job from its queue to the worker.
LEMMA OnceTake ==
  ASSUME ExecutionInv, NEW w \in Workers, Take(w), NEW j \in Jobs
  PROVE  Once(j)'
<1>0. /\ Once(j) /\ WorkerHome(w) \in Homes
      /\ wk \in [Workers -> Execution] /\ queue \in [Homes -> SUBSET Jobs]
      /\ UNCHANGED <<row, req, redeliveries>> /\ wk[w].pc = "idle"
  BY HomesOK DEF ExecutionInv, OnceInv, TypeInv, TypeOK, Take
<1>1. PICK i \in queue[WorkerHome(w)] :
        /\ queue' = [queue EXCEPT ![WorkerHome(w)] = @ \ {i}]
        /\ wk' = [wk EXCEPT ![w] = [pc |-> "fetch", job |-> i, copy |-> NoRow]]
  BY DEF Take
<1>2. /\ wk'[w].pc = "fetch" /\ wk'[w].job = i
      /\ \A v \in Workers \ {w} : wk'[v] = wk[v]
      /\ \A h \in Homes : queue'[h] \subseteq queue[h]
      /\ i \notin queue'[WorkerHome(w)]
  BY <1>0, <1>1
<1>3. CASE j # i
  <2>1. \A v \in Workers : Executes(v, j)' => wk'[v] = wk[v]
    BY <1>2, <1>3 DEF Executes
  <2>. QED
    BY <1>0, <1>2, <2>1, OnceKept DEF Sends
<1>4. CASE j = i
  <2>. SUFFICES ASSUME redeliveries[j] = 0
                PROVE  OnePlace(j)' /\ RowInStep(j)'
    BY <1>0 DEF Once
  <2>1. OnePlace(j) /\ RowInStep(j)
    BY <1>0 DEF Once
  <2>2. row[j] = NewJob
    BY <1>0, <1>1, <1>4, <2>1 DEF RowInStep
  <2>3. \A h \in Homes : j \notin queue'[h]
    <3>1. \A h \in Homes \ {WorkerHome(w)} : j \notin queue[h]
      BY <1>0, <1>1, <1>4, <2>1 DEF OnePlace
    <3>. QED
      BY <1>2, <1>4, <3>1
  <2>4. \A v \in Workers \ {w} : ~Executes(v, j)'
    <3>1. \A v \in Workers : ~Executes(v, j)
      BY <1>0, <1>1, <1>4, <2>1 DEF OnePlace
    <3>. QED
      BY <1>2, <3>1 DEF Executes
  <2>5. \A r \in Replicas : ~Sends(r, j)'
    <3>1. \A r \in Replicas : ~Sends(r, j)
      BY <1>0, <1>1, <1>4, <2>1 DEF OnePlace
    <3>. QED
      BY <1>0, <3>1 DEF Sends
  <2>6. InStep(j, wk[w])'
    BY <1>0, <1>2, <2>2 DEF InStep
  <2>. QED
    BY <1>0, <2>2, <2>3, <2>4, <2>5, <2>6 DEF OnePlace, RowInStep
<1>. QED
  BY <1>3, <1>4

\* The executor's steps on a job that was not redelivered: what they find,
\* and the row and the copy that they leave.
LEMMA ExecutionFacts ==
  ASSUME ExecutionInv, NEW w \in Workers, wk[w].pc \in Owing \cup {"notify"}
  PROVE  /\ TypeInv /\ wk[w] \in Execution /\ wk[w].job \in Jobs
         /\ row \in [Jobs -> PipelineJob] /\ wk \in [Workers -> Execution]
         /\ Exists(wk[w].job) /\ Executes(w, wk[w].job) /\ Once(wk[w].job)
         /\ redeliveries[wk[w].job] = 0 => InStep(wk[w].job, wk[w])
BY AcceptedParts DEF ExecutionInv, OnceInv, Once, RowInStep, TypeInv, TypeOK,
   ExecutionStored, Executes, Owing

LEMMA ExecutorOutcome ==
  ASSUME ExecutionInv, NEW w \in Workers,
         Fetch(w) \/ Start(w) \/ RunPipeline(w) \/ Finish(w)
  PROVE  /\ wk[w].pc \in Owing /\ Executes(w, wk[w].job)
         /\ \A v \in Workers \ {w} : wk'[v] = wk[v]
         /\ wk'[w].job = wk[w].job
         /\ \A i \in Jobs \ {wk[w].job} : row'[i] = row[i]
         /\ redeliveries[wk[w].job] = 0 =>
              /\ InStep(wk[w].job, wk[w])'
              /\ row'[wk[w].job] \in {NewJob, RunningJob} \cup EndedJobs
<1>. DEFINE x == wk[w]
            j == x.job
<1>0. /\ x.pc \in Owing /\ TypeInv /\ x \in Execution /\ j \in Jobs
      /\ row \in [Jobs -> PipelineJob] /\ wk \in [Workers -> Execution]
      /\ Exists(j) /\ Executes(w, j)
      /\ redeliveries[j] = 0 => InStep(j, x)
      /\ x.copy \in PipelineJob /\ row[j] \in PipelineJob
  <2>1. x.pc \in Owing
    BY DEF Fetch, Start, RunPipeline, Finish, Owing
  <2>. QED
    BY <2>1, ExecutionFacts DEF Execution
<1>h. ASSUME NEW pc \in WorkerPcs, NEW copy \in PipelineJob,
             wk' = [wk EXCEPT ![w] = Holds(x, pc, copy)]
      PROVE  /\ wk'[w].pc = pc /\ wk'[w].job = j /\ wk'[w].copy = copy
             /\ \A v \in Workers \ {w} : wk'[v] = wk[v]
  BY <1>0, <1>h, HoldsOK
<1>1. CASE Fetch(w)
  <2>1. wk' = [wk EXCEPT ![w] = Holds(x, "start", row[j])]
    BY <1>0, <1>1 DEF Fetch
  <2>2. /\ wk'[w].pc = "start" /\ wk'[w].job = j /\ wk'[w].copy = row[j]
    BY <1>0, <2>1, <1>h DEF WorkerPcs
  <2>. QED
    BY <1>0, <1>1, <2>1, <2>2 DEF Fetch, InStep
<1>2. CASE Start(w)
  <2>. DEFINE c == [status |-> "running",
                    filled |-> x.copy.filled \cup {"started_at"}]
  <2>1. c \in PipelineJob
    BY <1>0, CopyOK DEF JobStatus, Columns
  <2>2. /\ wk' = [wk EXCEPT ![w] = Holds(x, "run", c)]
        /\ row' = [row EXCEPT ![j] = c]
    BY <1>2 DEF Start, Update
  <2>3. redeliveries[j] = 0 => c = RunningJob
    BY <1>0, <1>2 DEF Start, InStep, NewJob, RunningJob
  <2>. HIDE DEF c
  <2>4. wk'[w].pc = "run" /\ wk'[w].job = j /\ wk'[w].copy = c
    BY <1>0, <2>1, <2>2, <1>h DEF WorkerPcs
  <2>. QED
    BY <1>0, <1>2, <2>2, <2>3, <2>4 DEF Start, Update, InStep
<1>3. CASE RunPipeline(w)
  <2>1. PICK o \in Outcomes :
          wk' = [wk EXCEPT ![w] = Holds(x, "finish",
                   [status |-> o.status,
                    filled |-> x.copy.filled \cup {o.column}])]
    BY <1>3 DEF RunPipeline
  <2>. DEFINE c == [status |-> o.status, filled |-> x.copy.filled \cup {o.column}]
  <2>2. c \in PipelineJob
    <3>1. o.status \in JobStatus /\ o.column \in Columns
      BY DEF Outcomes, JobStatus, Columns
    <3>. QED
      BY <1>0, <3>1, CopyOK
  <2>3. wk' = [wk EXCEPT ![w] = Holds(x, "finish", c)]
    BY <2>1
  <2>4. redeliveries[j] = 0 => c \in RanJobs /\ row[j] = RunningJob
    <3>1. SUFFICES ASSUME redeliveries[j] = 0
                   PROVE  c \in RanJobs /\ row[j] = RunningJob
      OBVIOUS
    <3>2. x.copy = RunningJob /\ row[j] = RunningJob
      BY <1>0, <1>3, <3>1 DEF RunPipeline, InStep
    <3>3. c = [status |-> o.status, filled |-> {"started_at", o.column}]
      BY <3>2 DEF RunningJob
    <3>. QED
      BY <3>2, <3>3 DEF RanJobs
  <2>. HIDE DEF c
  <2>5. wk'[w].pc = "finish" /\ wk'[w].job = j /\ wk'[w].copy = c
    BY <1>0, <2>2, <2>3, <1>h DEF WorkerPcs
  <2>. QED
    BY <1>0, <1>3, <2>3, <2>4, <2>5 DEF RunPipeline, InStep
<1>4. CASE Finish(w)
  <2>. DEFINE c == [status |-> x.copy.status,
                    filled |-> x.copy.filled \cup {"finished_at"}]
  <2>1. c \in PipelineJob
    <3>1. x.copy.status \in JobStatus
      BY <1>0, <1>4 DEF Finish, TypeInv, FinishOutcome, Terminal, JobStatus
    <3>. QED
      BY <1>0, <3>1, CopyOK DEF Columns
  <2>2. /\ wk' = [wk EXCEPT ![w] = Holds(x, "notify", c)]
        /\ row' = [row EXCEPT ![j] = c]
    BY <1>4 DEF Finish, Update
  <2>3. redeliveries[j] = 0 => c \in EndedJobs
    <3>1. SUFFICES ASSUME redeliveries[j] = 0 PROVE c \in EndedJobs
      OBVIOUS
    <3>2. x.copy \in RanJobs
      BY <1>0, <1>4, <3>1 DEF Finish, InStep
    <3>3. PICK o \in Outcomes :
            x.copy = [status |-> o.status, filled |-> {"started_at", o.column}]
      BY <3>2 DEF RanJobs
    <3>4. c = [status |-> o.status,
               filled |-> {"started_at", o.column, "finished_at"}]
      BY <3>3
    <3>. QED
      BY <3>4 DEF EndedJobs
  <2>. HIDE DEF c
  <2>4. wk'[w].pc = "notify" /\ wk'[w].job = j /\ wk'[w].copy = c
    BY <1>0, <2>1, <2>2, <1>h DEF WorkerPcs
  <2>. QED
    BY <1>0, <1>4, <2>2, <2>3, <2>4 DEF Finish, Update, InStep
<1>. QED
  BY <1>1, <1>2, <1>3, <1>4

\* Steps of an executor after which it has the job no more.
LEMMA OnceLeaves ==
  ASSUME ExecutionInv, NEW w \in Workers, NEW j \in Jobs,
         Notify(w) \/ Ack(w) \/ ExecutionFails(w)
  PROVE  Once(j)'
<1>0. /\ Once(j) /\ wk \in [Workers -> Execution]
      /\ UNCHANGED <<row, req, queue, redeliveries>>
  BY DEF ExecutionInv, OnceInv, TypeInv, TypeOK, Notify, Ack, ExecutionFails
<1>1. wk'[w].pc \in {"idle", "ack"} /\ \A v \in Workers \ {w} : wk'[v] = wk[v]
  BY <1>0, PcsApart DEF Notify, Ack, ExecutionFails, Execution
<1>2. \A v \in Workers : Executes(v, j)' => wk'[v] = wk[v]
  BY <1>1 DEF Executes, Owing
<1>. QED
  BY <1>0, <1>2, OnceKept DEF Sends

LEMMA OnceExecutor ==
  ASSUME ExecutionInv, NEW w \in Workers, NEW j \in Jobs,
         ExecutorStep(w) \/ ExecutionFails(w)
  PROVE  Once(j)'
<1>1. CASE Fetch(w) \/ Start(w) \/ RunPipeline(w) \/ Finish(w)
  <2>0. /\ Once(j) /\ wk \in [Workers -> Execution]
        /\ UNCHANGED <<req, queue, redeliveries>>
    BY <1>1 DEF ExecutionInv, OnceInv, TypeInv, TypeOK, Fetch, Start,
                RunPipeline, Finish, Update
  <2>1. /\ wk[w].pc \in Owing /\ Executes(w, wk[w].job)
        /\ \A v \in Workers \ {w} : wk'[v] = wk[v]
        /\ wk'[w].job = wk[w].job
        /\ \A i \in Jobs \ {wk[w].job} : row'[i] = row[i]
        /\ redeliveries[wk[w].job] = 0 =>
             /\ InStep(wk[w].job, wk[w])'
             /\ row'[wk[w].job] \in {NewJob, RunningJob} \cup EndedJobs
    BY <1>1, ExecutorOutcome
  <2>2. CASE wk[w].job = j
    <3>1. redeliveries[j] = 0 => InStep(j, wk[w])'
      BY <2>1, <2>2 DEF InStep
    <3>. QED
      BY <2>0, <2>1, <2>2, <3>1, OnceExecutes
  <2>3. CASE wk[w].job # j
    <3>1. \A v \in Workers : Executes(v, j)' => wk'[v] = wk[v]
      BY <2>1, <2>3 DEF Executes
    <3>. QED
      BY <2>0, <2>1, <2>3, <3>1, OnceKept DEF Sends
  <2>. QED
    BY <2>2, <2>3
<1>. QED
  BY <1>1, OnceTake, OnceLeaves DEF ExecutorStep

\* The broker: a message that it puts back is of a job that is redelivered.
LEMMA PutBackFacts ==
  ASSUME TypeInv, NEW w \in Workers, wk[w].pc # "idle", PutBack(w)
  PROVE  /\ redeliveries'[wk[w].job] > 0
         /\ \A j \in Jobs \ {wk[w].job} :
              /\ redeliveries'[j] = redeliveries[j]
              /\ \A h \in Homes : j \in queue'[h] => j \in queue[h]
         /\ \A j \in Jobs : redeliveries[j] > 0 => redeliveries'[j] > 0
         /\ wk[w].job \in queue'[Shared]
         /\ \A h \in Homes : queue[h] \subseteq queue'[h]
         /\ unacked' = unacked \ {w}
<1>1. wk[w].job \in Jobs /\ Shared \in Homes
  BY HomesOK DEF TypeInv, TypeOK
<1>2. /\ redeliveries \in [Jobs -> Nat]
      /\ queue \in [Homes -> SUBSET Jobs]
  BY BoundAssumption DEF TypeInv, TypeOK
<1>. QED
  BY <1>1, <1>2 DEF PutBack

LEMMA OnceBroker ==
  ASSUME ExecutionInv, NEW w \in Workers, NEW j \in Jobs,
         VisibilityTimeout(w) \/ WorkerCrash(w) \/ ChildLost(w)
  PROVE  Once(j)'
<1>0. /\ TypeInv /\ Once(j) /\ wk \in [Workers -> Execution]
      /\ UNCHANGED <<row, req>> /\ wk[w].pc # "idle"
      /\ redeliveries[j] \in Nat
  BY BoundAssumption
     DEF ExecutionInv, OnceInv, TypeInv, TypeOK, UnackedBusy,
         VisibilityTimeout, WorkerCrash, ChildLost
<1>1. \A v \in Workers : wk'[v] = wk[v] \/ wk'[v].pc = "idle"
  BY <1>0, PcsApart DEF VisibilityTimeout, WorkerCrash, ChildLost
<1>2. \A v \in Workers : Executes(v, j)' => wk'[v] = wk[v]
  BY <1>1 DEF Executes, Owing
<1>3. CASE UNCHANGED <<queue, redeliveries>>
  BY <1>0, <1>2, <1>3, OnceKept DEF Sends
<1>4. CASE PutBack(w)
  <2>1. CASE j = wk[w].job
    BY <1>0, <1>4, <2>1, PutBackFacts DEF Once
  <2>2. CASE j # wk[w].job
    BY <1>0, <1>2, <1>4, <2>2, PutBackFacts, OnceKept DEF Sends
  <2>. QED
    BY <2>1, <2>2
<1>. QED
  BY <1>3, <1>4 DEF VisibilityTimeout, WorkerCrash, ChildLost

LEMMA OnceNext == ExecutionInv /\ [Next]_vars => OnceInv'
<1>. SUFFICES ASSUME ExecutionInv, [Next]_vars, NEW j \in Jobs
              PROVE  Once(j)'
  BY DEF OnceInv
<1>1. CASE UNCHANGED vars
  BY <1>1, OnceKept DEF vars, ExecutionInv, OnceInv, Sends, Executes
<1>. QED
  BY <1>1, OnceHandler, OnceReplica, OnceExecutor, OnceBroker DEF Next

\* Without a broker there is nothing that could be delivered again.
LEMMA NoRedeliveriesNext ==
  TypeInv /\ NoRedeliveries /\ [Next]_vars => NoRedeliveries'
<1>. SUFFICES ASSUME TypeInv, NoRedeliveries, [Next]_vars, ~Celery
              PROVE  UNCHANGED redeliveries
  BY DEF NoRedeliveries, Celery
<1>1. unacked = {}
  BY DEF TypeInv, UnackedBusy
<1>. QED
  BY <1>1 DEF Next, vars, CreateJob, HandlerStep, GetKey, LoadHolder, Reserve,
       CreateRow, Enqueue, CountSubmitted, Reply, RequestFails, Crash,
       BeginShutdown, EndShutdown, Restart, ExecutorStep, Take, Fetch, Start,
       RunPipeline, Finish, Update, Notify, Ack, ExecutionFails,
       VisibilityTimeout, WorkerCrash, ChildLost, Expire

LEMMA ExecutionInit == Init => ExecutionInv
<1>. SUFFICES ASSUME Init PROVE ExecutionInv
  OBVIOUS
<1>1. \A j \in Jobs : OnePlace(j) /\ RowInStep(j)
  BY PcsApart DEF Init, OnePlace, RowInStep, Sends, Executes, Owing
<1>2. NoRedeliveries
  BY DEF Init, NoRedeliveries
<1>. QED
  BY <1>1, <1>2, TypeInvInit, AcceptedInit, FreshInit
     DEF ExecutionInv, OnceInv, Once

LEMMA ExecutionNext == ExecutionInv /\ [Next]_vars => ExecutionInv'
BY OnceNext, NoRedeliveriesNext, TypeInvNext, AcceptedNext, FreshNext
   DEF ExecutionInv

\* Until its message is delivered again, a job is in one place at a time, with
\* the row that belongs to the place.
LEMMA ExecutionInvariant == Spec => []ExecutionInv
BY ExecutionInit, ExecutionNext, PTL DEF Spec

-----------------------------------------------------------------------------
(***************************************************************************)
(* What a client that polls the job sees.                                  *)
(***************************************************************************)
LEMMA StatusOfRows ==
  /\ NoRow.status = "none" /\ NewJob.status = "pending"
  /\ RunningJob.status = "running"
  /\ \A e \in EndedJobs : e.status \in Terminal
BY DEF NoRow, NewJob, RunningJob, EndedJobs, Outcomes, Terminal

\* The life of a row: one step of one job at a time, in this order, unless its
\* message was delivered again.
LEMMA RowMoves ==
  ASSUME ExecutionInv, [Next]_vars, NEW j \in Jobs, row'[j] # row[j]
  PROVE  /\ \A i \in Jobs \ {j} : row'[i] = row[i]
         /\ redeliveries[j] = 0 =>
              \/ row[j] = NoRow /\ row'[j] = NewJob
              \/ row[j] = NewJob /\ row'[j] = RunningJob
              \/ /\ row[j] = RunningJob /\ row'[j] \in EndedJobs
                 /\ \E w \in Workers :
                      wk'[w].pc = "notify" /\ wk'[w].job = j
<1>0. row \in [Jobs -> PipelineJob] /\ TypeInv /\ Once(j)
  BY DEF ExecutionInv, TypeInv, TypeOK, OnceInv
<1>1. ASSUME NEW r \in Replicas, CreateRow(r)
      PROVE  /\ \A i \in Jobs \ {j} : row'[i] = row[i]
             /\ redeliveries[j] = 0 => row[j] = NoRow /\ row'[j] = NewJob
  <2>1. row' = [row EXCEPT ![req[r].job] = NewJob] /\ req[r].pc = "create"
    BY <1>1 DEF CreateRow
  <2>2. j = req[r].job /\ row'[j] = NewJob
    BY <1>0, <2>1
  <2>3. row[j].status = "none"
    BY <2>1, <2>2 DEF ExecutionInv, FreshInv, FreshRequest, BeforeRow, Exists
  <2>4. redeliveries[j] = 0 => row[j] = NoRow
    BY <1>0, <2>3, StatusOfRows DEF Once, RowInStep, Terminal
  <2>. QED
    BY <1>0, <2>1, <2>2, <2>4
<1>2. ASSUME NEW w \in Workers, Start(w) \/ Finish(w)
      PROVE  /\ \A i \in Jobs \ {j} : row'[i] = row[i]
             /\ redeliveries[j] = 0 =>
                  \/ row[j] = NewJob /\ row'[j] = RunningJob
                  \/ /\ row[j] = RunningJob /\ row'[j] \in EndedJobs
                     /\ wk'[w].pc = "notify" /\ wk'[w].job = j
  <2>1. /\ wk'[w].job = wk[w].job /\ wk[w].pc \in Owing
        /\ \A i \in Jobs \ {wk[w].job} : row'[i] = row[i]
        /\ redeliveries[wk[w].job] = 0 => InStep(wk[w].job, wk[w])'
    BY <1>2, ExecutorOutcome
  <2>2. j = wk[w].job
    BY <2>1
  <2>3. redeliveries[j] = 0 => InStep(j, wk[w]) /\ InStep(j, wk[w])'
    BY <2>1, <2>2, ExecutionFacts DEF InStep
  <2>4. ASSUME NEW pc \in WorkerPcs, NEW c, Update(w, c, pc)
        PROVE  wk'[w].pc = pc
    BY <1>0, <2>4 DEF Update, Holds, TypeInv, TypeOK, Execution
  <2>5. CASE Start(w)
    <3>1. wk[w].pc = "start" /\ wk'[w].pc = "run"
      BY <2>4, <2>5 DEF Start, WorkerPcs
    <3>. QED
      BY <2>1, <2>2, <2>3, <3>1 DEF InStep
  <2>6. CASE Finish(w)
    <3>1. wk[w].pc = "finish" /\ wk'[w].pc = "notify"
      BY <2>4, <2>6 DEF Finish, WorkerPcs
    <3>. QED
      BY <2>1, <2>2, <2>3, <3>1 DEF InStep
  <2>. QED
    BY <1>2, <2>5, <2>6
<1>3. \/ UNCHANGED row
      \/ \E r \in Replicas : CreateRow(r)
      \/ \E w \in Workers : Start(w) \/ Finish(w)
  BY DEF Next, vars, CreateJob, HandlerStep, GetKey, LoadHolder, Reserve,
         Enqueue, CountSubmitted, Reply, RequestFails, Crash, BeginShutdown,
         EndShutdown, Restart, ExecutorStep, Take, Fetch, RunPipeline, Notify,
         Ack, ExecutionFails, VisibilityTimeout, WorkerCrash, ChildLost, Expire
<1>. QED
  BY <1>1, <1>2, <1>3

\* The runner that keeps its queue in the process.
ThreadPool == JobRunnerBackend = "thread"

LEMMA ThreadRedeliversNothing ==
  ASSUME ThreadPool, ExecutionInv, NEW j \in Jobs
  PROVE  redeliveries[j] = 0
BY DEF ThreadPool, Celery, ExecutionInv, NoRedeliveries

\* The nullable columns of a job's row that hold a value are those that its
\* status says.
ColumnsMatch(j) ==
  /\ ("counts" \in row[j].filled) <=> row[j].status = "completed"
  /\ ("error_message" \in row[j].filled) <=> row[j].status = "failed"
  /\ ("finished_at" \in row[j].filled) <=> row[j].status \in Terminal
  /\ ("started_at" \in row[j].filled)
       <=> row[j].status \in Terminal \cup {"running"}

LEMMA ColumnsOfRows ==
  ASSUME ExecutionInv, NEW j \in Jobs, redeliveries[j] = 0
  PROVE  ColumnsMatch(j)
<1>1. row[j] \in {NoRow, NewJob, RunningJob} \cup EndedJobs
  BY DEF ExecutionInv, OnceInv, Once, RowInStep
<1>2. CASE row[j] \in {NoRow, NewJob, RunningJob}
  BY <1>2 DEF ColumnsMatch, NoRow, NewJob, RunningJob, Terminal
<1>3. CASE row[j] \in EndedJobs
  BY <1>3 DEF ColumnsMatch, EndedJobs, Outcomes, Terminal
<1>. QED
  BY <1>1, <1>2, <1>3

\* With either runner the columns of a row agree with its status as long as the
\* job's message was not delivered again: only a redelivery lets a stale copy
\* of the row be written back (update writes every column).
THEOREM RowsMatchUntilRedelivered ==
  Spec => [](\A j \in Jobs : redeliveries[j] = 0 => ColumnsMatch(j))
<1>1. ExecutionInv => \A j \in Jobs : redeliveries[j] = 0 => ColumnsMatch(j)
  BY ColumnsOfRows
<1>. QED
  BY <1>1, ExecutionInvariant, PTL

\* With the thread pool the columns of a row agree with its status at every
\* instant, whatever is killed, raises or is retried.
THEOREM RowsMatchStatus ==
  ASSUME ThreadPool
  PROVE  Spec => []RowMatchesStatus
<1>1. ExecutionInv => RowMatchesStatus
  BY ColumnsOfRows, ThreadRedeliversNothing DEF RowMatchesStatus, ColumnsMatch
<1>. QED
  BY <1>1, ExecutionInvariant, PTL

\* A step of the row of a job on its documented way.
StatusMovesOn(j) ==
  \/ row[j].status = "none" /\ row'[j].status = "pending"
  \/ row[j].status = "pending" /\ row'[j].status = "running"
  \/ row[j].status = "running" /\ row'[j].status \in Terminal

\* With either runner a job whose message was not delivered again goes through
\* pending and running to one end, which stays, and no step moves two jobs.
THEOREM JobsMoveOnUntilRedelivered ==
  Spec => [][\A j \in Jobs :
               row'[j] # row[j] =>
                 /\ \A i \in Jobs \ {j} : row'[i] = row[i]
                 /\ redeliveries[j] = 0 => StatusMovesOn(j)]_row
<1>1. ASSUME ExecutionInv, [Next]_vars, NEW j \in Jobs, row'[j] # row[j]
      PROVE  /\ \A i \in Jobs \ {j} : row'[i] = row[i]
             /\ redeliveries[j] = 0 => StatusMovesOn(j)
  <2>1. \A i \in Jobs \ {j} : row'[i] = row[i]
    BY <1>1, RowMoves
  <2>2. ASSUME redeliveries[j] = 0
        PROVE  StatusMovesOn(j)
    BY <1>1, <2>2, RowMoves, StatusOfRows DEF StatusMovesOn
  <2>. QED
    BY <2>1, <2>2
<1>2. ExecutionInv /\ [Next]_vars =>
        [\A j \in Jobs :
           row'[j] # row[j] =>
             /\ \A i \in Jobs \ {j} : row'[i] = row[i]
             /\ redeliveries[j] = 0 => StatusMovesOn(j)]_row
  BY <1>1
<1>. QED
  BY <1>2, ExecutionInvariant, PTL DEF Spec

\* With the thread pool every run of the service is, to the clients that poll,
\* a run of the documented life cycle: pending, running once, and an end that
\* is never taken back.
THEOREM ThreadPoolImplementsLifecycle ==
  ASSUME ThreadPool
  PROVE  Spec => ImplementsLifecycle
<1>. DEFINE status == [j \in Jobs |-> row[j].status]
<1>1. Init => Lifecycle!Init
  BY StatusOfRows DEF Init, Lifecycle!Init
<1>2. ExecutionInv /\ [Next]_vars => [Lifecycle!Next]_status
  <2>. SUFFICES ASSUME ExecutionInv, [Next]_vars, status' # status
                PROVE  Lifecycle!Next
    OBVIOUS
  <2>1. PICK j \in Jobs : row'[j] # row[j]
    OBVIOUS
  <2>2. /\ \A i \in Jobs \ {j} : row'[i] = row[i]
        /\ \/ row[j] = NoRow /\ row'[j] = NewJob
           \/ row[j] = NewJob /\ row'[j] = RunningJob
           \/ row[j] = RunningJob /\ row'[j] \in EndedJobs
    BY <2>1, RowMoves, ThreadRedeliversNothing
  <2>3. ASSUME NEW to, row'[j].status = to
        PROVE  status' = [status EXCEPT ![j] = to]
    BY <2>2, <2>3
  <2>4. /\ status[j] = row[j].status
        /\ row'[j].status \in {"pending", "running", "completed", "failed"}
    BY <2>2, StatusOfRows DEF Terminal
  <2>5. Lifecycle!Accept(j) \/ Lifecycle!PickUp(j) \/ Lifecycle!Complete(j)
          \/ Lifecycle!Fail(j)
    BY <2>2, <2>3, <2>4, StatusOfRows
       DEF Lifecycle!Accept, Lifecycle!PickUp, Lifecycle!Complete,
           Lifecycle!Fail, Lifecycle!Move, Terminal
  <2>. QED
    BY <2>5 DEF Lifecycle!Next
<1>. QED
  BY <1>1, <1>2, ExecutionInvariant, PTL
     DEF Spec, ImplementsLifecycle, Lifecycle!Spec

-----------------------------------------------------------------------------
(***************************************************************************)
(* The counters of ended jobs.                                             *)
(***************************************************************************)

\* Only the notification of an executor raises a counter of ended jobs.
LEMMA CountersStay ==
  ASSUME TypeInv, [Next]_vars, \A w \in Workers : ~Notify(w), NEW h \in Homes
  PROVE  /\ metrics'[h].completed <= metrics[h].completed
         /\ metrics'[h].failed <= metrics[h].failed
<1>0. /\ metrics \in [Homes -> [submitted : Nat, completed : Nat, failed : Nat]]
      /\ \A r \in Replicas : RunnerHome(r) \in Homes
  BY HomesOK DEF TypeInv, TypeOK
<1>1. CASE metrics' = metrics
  BY <1>0, <1>1
<1>2. ASSUME NEW r \in Replicas, CountSubmitted(r)
      PROVE  /\ metrics'[h].completed <= metrics[h].completed
             /\ metrics'[h].failed <= metrics[h].failed
  BY <1>0, <1>2 DEF CountSubmitted
<1>3. ASSUME NEW r \in Replicas, metrics' = [metrics EXCEPT ![r] = ZeroCounters]
      PROVE  /\ metrics'[h].completed <= metrics[h].completed
             /\ metrics'[h].failed <= metrics[h].failed
  BY <1>0, <1>3 DEF ZeroCounters
<1>4. \/ metrics' = metrics
      \/ \E r \in Replicas : \/ CountSubmitted(r)
                             \/ metrics' = [metrics EXCEPT ![r] = ZeroCounters]
  BY DEF Next, vars, CreateJob, HandlerStep, GetKey, LoadHolder, Reserve,
         CreateRow, Enqueue, Reply, RequestFails, Crash, BeginShutdown,
         EndShutdown, Restart, ExecutorStep, Take, Fetch, Start, RunPipeline,
         Finish, Update, Ack, ExecutionFails, VisibilityTimeout, WorkerCrash,
         ChildLost, Expire
<1>. QED
  BY <1>1, <1>2, <1>3, <1>4

\* An executor is about to count a job only if it was about to before, or has
\* just written the last row of it.
LEMMA NotifiesAfterFinish ==
  ASSUME ExecutionInv, [Next]_vars, NEW w \in Workers, wk'[w].pc = "notify"
  PROVE  wk'[w] = wk[w] \/ (wk[w].pc = "finish" /\ wk'[w].job = wk[w].job)
<1>0. wk \in [Workers -> Execution] /\ TypeInv
  BY DEF ExecutionInv, TypeInv, TypeOK
<1>1. ASSUME NEW v \in Workers, ExecutorStep(v)
      PROVE  wk'[w] = wk[w] \/ (wk[w].pc = "finish" /\ wk'[w].job = wk[w].job)
  <2>1. CASE Fetch(v) \/ Start(v) \/ RunPipeline(v) \/ Finish(v)
    <3>1. /\ wk'[v].job = wk[v].job
          /\ \A u \in Workers \ {v} : wk'[u] = wk[u]
      BY <2>1, ExecutorOutcome
    <3>2. ASSUME NEW pc \in WorkerPcs, NEW c \in PipelineJob,
                 wk' = [wk EXCEPT ![v] = Holds(wk[v], pc, c)]
          PROVE  wk'[v].pc = pc
      BY <1>0, <3>2, HoldsOK
    <3>3. wk[v].copy \in PipelineJob
      BY <1>0 DEF Execution
    <3>4. CASE Fetch(v)
      <4>1. row[wk[v].job] \in PipelineJob
        BY <3>4 DEF Fetch, ExecutionInv, TypeInv, TypeOK
      <4>2. wk'[v].pc \in {"start", "ack"}
        <5>1. CASE Exists(wk[v].job)
          BY <3>2, <3>4, <4>1, <5>1 DEF Fetch, WorkerPcs
        <5>2. CASE ~Exists(wk[v].job)
          BY <1>0, <3>4, <5>2 DEF Fetch, Execution
        <5>. QED
          BY <5>1, <5>2
      <4>. QED
        BY <3>1, <4>2
    <3>5. CASE Start(v)
      <4>1. [status |-> "running",
             filled |-> wk[v].copy.filled \cup {"started_at"}] \in PipelineJob
        BY <3>3, CopyOK DEF JobStatus, Columns
      <4>2. wk'[v].pc = "run"
        BY <3>2, <3>5, <4>1 DEF Start, Update, WorkerPcs
      <4>. QED
        BY <3>1, <4>2
    <3>6. CASE RunPipeline(v)
      <4>1. PICK o \in Outcomes :
              wk' = [wk EXCEPT ![v] = Holds(wk[v], "finish",
                       [status |-> o.status,
                        filled |-> wk[v].copy.filled \cup {o.column}])]
        BY <3>6 DEF RunPipeline
      <4>2. o.status \in JobStatus /\ o.column \in Columns
        BY DEF Outcomes, JobStatus, Columns
      <4>3. wk'[v].pc = "finish"
        BY <3>2, <3>3, <4>1, <4>2, CopyOK DEF WorkerPcs
      <4>. QED
        BY <3>1, <4>3
    <3>7. CASE Finish(v)
      BY <3>1, <3>7 DEF Finish
    <3>. QED
      BY <2>1, <3>4, <3>5, <3>6, <3>7
  <2>2. CASE Take(v) \/ Notify(v) \/ Ack(v)
    BY <1>0, <2>2, PcsApart DEF Take, Notify, Ack, Execution
  <2>. QED
    BY <1>1, <2>1, <2>2 DEF ExecutorStep
<1>2. ASSUME NEW v \in Workers,
             \/ ExecutionFails(v)
             \/ VisibilityTimeout(v)
             \/ WorkerCrash(v)
             \/ ChildLost(v)
      PROVE  wk'[w] = wk[w]
  BY <1>0, <1>2, PcsApart DEF ExecutionFails, VisibilityTimeout, WorkerCrash,
                              ChildLost, Execution
<1>3. ASSUME NEW r \in Replicas, Restart(r)
      PROVE  wk'[w] = wk[w]
  BY <1>0, <1>3, PcsApart DEF Restart
<1>4. \/ wk' = wk
      \/ \E v \in Workers : \/ ExecutorStep(v)
                            \/ ExecutionFails(v)
                            \/ VisibilityTimeout(v)
                            \/ WorkerCrash(v)
                            \/ ChildLost(v)
      \/ \E r \in Replicas : Restart(r)
  BY DEF Next, vars, CreateJob, HandlerStep, GetKey, LoadHolder, Reserve,
         CreateRow, Enqueue, CountSubmitted, Reply, RequestFails, Crash,
         BeginShutdown, EndShutdown, Expire
<1>. QED
  BY <1>1, <1>2, <1>3, <1>4

\* What was counted stays counted: an ended row never changes again.
LEMMA CountedStays ==
  ASSUME ThreadPool, ExecutionInv, [Next]_vars, NEW e \in Terminal
  PROVE  Counted(e) \subseteq Counted(e)'
<1>. SUFFICES ASSUME NEW j \in Counted(e) PROVE j \in Counted(e)'
  OBVIOUS
<1>1. /\ j \in Jobs /\ row[j].status = e /\ redeliveries[j] = 0
      /\ \A w \in Workers : ~(wk[w].pc = "notify" /\ wk[w].job = j)
  BY ThreadRedeliversNothing DEF Counted
<1>2. row'[j] = row[j]
  BY <1>1, RowMoves, StatusOfRows DEF Terminal
<1>3. ASSUME NEW w \in Workers, wk'[w].pc = "notify", wk'[w].job = j
      PROVE  FALSE
  <2>1. wk[w].pc = "finish" /\ wk[w].job = j
    BY <1>1, <1>3, NotifiesAfterFinish
  <2>2. row[j] = RunningJob
    BY <1>1, <2>1, ExecutionFacts DEF Owing, InStep
  <2>. QED
    BY <1>1, <2>2, StatusOfRows DEF Terminal
<1>. QED
  BY <1>1, <1>2, <1>3 DEF Counted

\* A notification counts a job that nobody has counted.
LEMMA NotifyCounts ==
  ASSUME ThreadPool, ExecutionInv, NEW w \in Workers, Notify(w)
  PROVE  \E e \in Terminal : /\ wk[w].copy.status = e
                             /\ wk[w].job \in Counted(e)'
                             /\ wk[w].job \notin Counted(e)
<1>. DEFINE j == wk[w].job
<1>1. /\ j \in Jobs /\ redeliveries[j] = 0 /\ wk[w].pc = "notify"
      /\ wk \in [Workers -> Execution] /\ Executes(w, j) /\ UNCHANGED row
      /\ row[j] = wk[w].copy /\ wk[w].copy \in EndedJobs
      /\ OnePlace(j)
  BY ExecutionFacts, ThreadRedeliversNothing
     DEF Notify, InStep, Once, ExecutionInv, OnceInv
<1>2. \A v \in Workers \ {w} : ~Executes(v, j)
  BY <1>1 DEF OnePlace
<1>3. wk'[w].pc = "ack" /\ \A v \in Workers \ {w} : wk'[v] = wk[v]
  BY <1>1 DEF Notify, Execution
<1>4. \A v \in Workers : ~(wk'[v].pc = "notify" /\ wk'[v].job = j)
  BY <1>2, <1>3 DEF Executes
<1>5. PICK e \in Terminal : wk[w].copy.status = e
  BY <1>1, StatusOfRows
<1>6. j \in Counted(e)'
  <2>1. row'[j].status = e
    BY <1>1, <1>5
  <2>. QED
    BY <1>1, <1>4, <2>1 DEF Counted
<1>7. j \notin Counted(e)
  BY <1>1 DEF Counted
<1>. QED
  BY <1>5, <1>6, <1>7

LEMMA CountNext ==
  ASSUME ThreadPool, IsFiniteSet(Jobs)
  PROVE  ExecutionInv /\ CountInv /\ [Next]_vars => CountInv'
<1>. SUFFICES ASSUME ExecutionInv, CountInv, [Next]_vars, NEW h \in Homes
              PROVE  /\ metrics'[h].completed <= Cardinality(Counted("completed")')
                     /\ metrics'[h].failed <= Cardinality(Counted("failed")')
  BY DEF CountInv
<1>1. \A e : /\ IsFiniteSet(Counted(e)) /\ IsFiniteSet(Counted(e)')
             /\ Cardinality(Counted(e)) \in Nat /\ Cardinality(Counted(e)') \in Nat
  BY FS_Subset, FS_CardinalityType DEF Counted
<1>2. \A e \in Terminal : Cardinality(Counted(e)) <= Cardinality(Counted(e)')
  BY <1>1, CountedStays, FS_Subset
<1>3. /\ metrics \in [Homes -> [submitted : Nat, completed : Nat, failed : Nat]]
      /\ metrics' \in [Homes -> [submitted : Nat, completed : Nat, failed : Nat]]
      /\ metrics[h].completed <= Cardinality(Counted("completed"))
      /\ metrics[h].failed <= Cardinality(Counted("failed"))
      /\ TypeInv
  BY TypeInvNext DEF ExecutionInv, TypeInv, TypeOK, CountInv
<1>4. CASE \A w \in Workers : ~Notify(w)
  <2>1. /\ metrics'[h].completed <= metrics[h].completed
        /\ metrics'[h].failed <= metrics[h].failed
    BY <1>3, <1>4, CountersStay
  <2>2. /\ Cardinality(Counted("completed")) <= Cardinality(Counted("completed")')
        /\ Cardinality(Counted("failed")) <= Cardinality(Counted("failed")')
    BY <1>2 DEF Terminal
  <2>. QED
    BY <1>1, <1>3, <2>1, <2>2
<1>5. ASSUME NEW w \in Workers, Notify(w)
      PROVE  /\ metrics'[h].completed <= Cardinality(Counted("completed")')
             /\ metrics'[h].failed <= Cardinality(Counted("failed")')
  <2>. DEFINE j == wk[w].job
  <2>1. PICK ended \in Terminal :
          /\ wk[w].copy.status = ended
          /\ j \in Counted(ended)' /\ j \notin Counted(ended)
    BY <1>5, NotifyCounts
  <2>2. Counted(ended) \cup {j} \subseteq Counted(ended)'
    BY <2>1, CountedStays
  <2>3. Cardinality(Counted(ended)) + 1 <= Cardinality(Counted(ended)')
    <3>1. /\ IsFiniteSet(Counted(ended) \cup {j})
          /\ Cardinality(Counted(ended) \cup {j}) = Cardinality(Counted(ended)) + 1
      BY <1>1, <2>1, FS_AddElement
    <3>2. Cardinality(Counted(ended) \cup {j}) <= Cardinality(Counted(ended)')
      BY <1>1, <2>2, FS_Subset
    <3>. QED
      BY <3>1, <3>2
  <2>4. /\ Cardinality(Counted("completed")) <= Cardinality(Counted("completed")')
        /\ Cardinality(Counted("failed")) <= Cardinality(Counted("failed")')
    BY <1>2 DEF Terminal
  <2>5. CASE ended = "completed"
    <3>1. metrics' = [metrics EXCEPT ![WorkerHome(w)].completed = @ + 1]
      BY <1>5, <2>1, <2>5 DEF Notify
    <3>2. /\ metrics'[h].completed <= metrics[h].completed + 1
          /\ metrics'[h].failed = metrics[h].failed
      BY <1>3, <3>1, HomesOK
    <3>. QED
      BY <1>1, <1>3, <2>3, <2>4, <2>5, <3>2
  <2>6. CASE ended = "failed"
    <3>1. metrics' = [metrics EXCEPT ![WorkerHome(w)].failed = @ + 1]
      BY <1>5, <2>1, <2>6 DEF Notify
    <3>2. /\ metrics'[h].failed <= metrics[h].failed + 1
          /\ metrics'[h].completed = metrics[h].completed
      BY <1>3, <3>1, HomesOK
    <3>. QED
      BY <1>1, <1>3, <2>3, <2>4, <2>6, <3>2
  <2>. QED
    BY <2>1, <2>5, <2>6 DEF Terminal
<1>. QED
  BY <1>4, <1>5

\* With the thread pool no process ever reports more completed, or failed,
\* jobs than the table has, whatever is killed, raises or is retried.
THEOREM CountersCountOnce ==
  ASSUME ThreadPool, IsFiniteSet(Jobs)
  PROVE  Spec => []JobsCountedOnce
<1>1. Init => CountInv
  <2>1. \A e : Cardinality(Counted(e)) \in Nat
    BY FS_Subset, FS_CardinalityType DEF Counted
  <2>. QED
    BY <2>1 DEF Init, CountInv, ZeroCounters
<1>2. ExecutionInv /\ CountInv /\ [Next]_vars => CountInv'
  BY CountNext
<1>3. ExecutionInv /\ CountInv => JobsCountedOnce
  <2>. SUFFICES ASSUME ExecutionInv, CountInv, NEW h \in Homes
                PROVE  /\ metrics[h].completed
                            <= Cardinality({j \in Jobs : row[j].status = "completed"})
                       /\ metrics[h].failed
                            <= Cardinality({j \in Jobs : row[j].status = "failed"})
    BY DEF JobsCountedOnce
  <2>1. ASSUME NEW e
        PROVE  /\ Cardinality(Counted(e)) \in Nat
               /\ Cardinality({j \in Jobs : row[j].status = e}) \in Nat
               /\ Cardinality(Counted(e))
                    <= Cardinality({j \in Jobs : row[j].status = e})
    <3>1. IsFiniteSet({j \in Jobs : row[j].status = e})
      BY FS_Subset
    <3>2. Counted(e) \subseteq {j \in Jobs : row[j].status = e}
      BY DEF Counted
    <3>. QED
      BY <3>1, <3>2, FS_Subset, FS_CardinalityType
  <2>2. metrics[h] \in [submitted : Nat, completed : Nat, failed : Nat]
    BY DEF ExecutionInv, TypeInv, TypeOK
  <2>. QED
    BY <2>1, <2>2 DEF CountInv
<1>. QED
  BY <1>1, <1>2, <1>3, ExecutionInvariant, PTL DEF Spec

-----------------------------------------------------------------------------
(***************************************************************************)
(* Which jobs a failure may take away, and which steps may not.            *)
(***************************************************************************)
LEMMA LossInitIsInit == LossInit => Init
BY DEF LossInit

LEMMA LossNextIsNext == [LossNext]_lossVars => [Next]_vars
BY DEF LossNext, Lossless, RequestFailsH, CrashH, ExecutionFailsH, ChildLostH,
       WorkerCrashH, Next, vars, lossVars

\* The history watches the service and does not disturb it.
LEMMA LossesOfExecution == LossSpec => []ExecutionInv
BY LossInitIsInit, LossNextIsNext, ExecutionInit, ExecutionNext, PTL
   DEF LossSpec

\* The end of a job is taken back only after its message was delivered again,
\* with either runner: no retry, shutdown, crash or restart reopens a job.
THEOREM EndsAreKept == LossSpec => OnlyRedeliveryReopens
<1>1. ExecutionInv /\ [Next]_vars =>
        [\A j \in Jobs : row[j].status \in Terminal /\ row[j]' # row[j]
                           => redeliveries[j] > 0]_row
  <2>. SUFFICES ASSUME ExecutionInv, [Next]_vars, NEW j \in Jobs,
                       row[j].status \in Terminal, row'[j] # row[j]
                PROVE  redeliveries[j] > 0
    OBVIOUS
  <2>1. redeliveries[j] \in Nat
    BY BoundAssumption DEF ExecutionInv, TypeInv, TypeOK
  <2>2. redeliveries[j] # 0
    BY RowMoves, StatusOfRows DEF Terminal
  <2>. QED
    BY <2>1, <2>2
<1>. QED
  BY <1>1, LossNextIsNext, LossesOfExecution, PTL
     DEF LossSpec, OnlyRedeliveryReopens

LEMMA OverdueNext == ExecutionInv /\ OverdueInv /\ [Next]_vars => OverdueInv'
<1>. SUFFICES ASSUME ExecutionInv, OverdueInv, [Next]_vars, Celery,
                     NEW w \in Workers, wk'[w].pc \in Owing, w \notin unacked'
              PROVE  redeliveries'[wk'[w].job] > 0
  BY DEF OverdueInv, Celery
<1>0. /\ wk \in [Workers -> Execution] /\ TypeInv
      /\ redeliveries \in [Jobs -> Nat]
  BY BoundAssumption DEF ExecutionInv, TypeInv, TypeOK
<1>1. CASE /\ wk[w].pc \in Owing /\ wk'[w].job = wk[w].job
           /\ w \notin unacked /\ redeliveries' = redeliveries
  BY <1>1 DEF OverdueInv
<1>2. ASSUME NEW v \in Workers, Take(v)
      PROVE  redeliveries'[wk'[w].job] > 0
  <2>1. /\ unacked' = unacked \cup {v} /\ redeliveries' = redeliveries
        /\ \A u \in Workers \ {v} : wk'[u] = wk[u]
    BY <1>0, <1>2 DEF Take
  <2>2. w # v
    BY <2>1
  <2>. QED
    BY <1>1, <2>1, <2>2
<1>3. ASSUME NEW v \in Workers,
             Fetch(v) \/ Start(v) \/ RunPipeline(v) \/ Finish(v)
      PROVE  redeliveries'[wk'[w].job] > 0
  <2>1. UNCHANGED <<unacked, redeliveries>>
    BY <1>3 DEF Fetch, Start, RunPipeline, Finish, Update
  <2>2. /\ wk[v].pc \in Owing /\ wk'[v].job = wk[v].job
        /\ \A u \in Workers \ {v} : wk'[u] = wk[u]
    BY <1>3, ExecutorOutcome
  <2>. QED
    BY <1>1, <2>1, <2>2
<1>4. ASSUME NEW v \in Workers,
             Notify(v) \/ Ack(v) \/ ExecutionFails(v) \/ ChildLost(v)
      PROVE  redeliveries'[wk'[w].job] > 0
  <2>1. /\ wk'[v].pc \in {"idle", "ack"} /\ redeliveries' = redeliveries
        /\ \A u \in Workers \ {v} : wk'[u] = wk[u]
        /\ unacked \subseteq unacked' \cup {v}
    BY <1>0, <1>4, PcsApart DEF Notify, Ack, ExecutionFails, ChildLost, Execution
  <2>2. w # v
    BY <2>1 DEF Owing
  <2>. QED
    BY <1>1, <2>1, <2>2
<1>5. ASSUME NEW v \in Workers, VisibilityTimeout(v) \/ WorkerCrash(v)
      PROVE  redeliveries'[wk'[w].job] > 0
  <2>1. wk'[w] = wk[w]
    BY <1>0, <1>5, PcsApart DEF VisibilityTimeout, WorkerCrash, Owing
  <2>2. wk[w].job \in Jobs /\ wk[w].pc \in Owing
    BY <1>0, <2>1, ExecutionFacts
  <2>3. wk[v].pc # "idle"
    BY <1>0, <1>5 DEF TypeInv, UnackedBusy, VisibilityTimeout, WorkerCrash
  <2>4. CASE PutBack(v)
    <3>1. CASE v = w
      BY <1>0, <2>1, <2>3, <2>4, <3>1, PutBackFacts
    <3>2. CASE v # w
      <4>1. w \notin unacked
        BY <2>4, <3>2 DEF PutBack
      <4>2. redeliveries[wk[w].job] > 0
        BY <2>2, <4>1 DEF OverdueInv
      <4>. QED
        BY <1>0, <2>1, <2>2, <2>3, <2>4, <4>2, PutBackFacts
    <3>. QED
      BY <3>1, <3>2
  <2>5. CASE UNCHANGED <<unacked, redeliveries>>
    BY <1>1, <2>1, <2>2, <2>5
  <2>. QED
    BY <1>5, <2>4, <2>5 DEF VisibilityTimeout, WorkerCrash
<1>6. CASE UNCHANGED <<wk, unacked, redeliveries>>
  BY <1>1, <1>6
<1>7. \/ UNCHANGED <<wk, unacked, redeliveries>>
      \/ \E v \in Workers :
           \/ ExecutorStep(v)
           \/ ExecutionFails(v)
           \/ VisibilityTimeout(v)
           \/ WorkerCrash(v)
           \/ ChildLost(v)
  BY DEF Next, vars, Celery, CreateJob, HandlerStep, GetKey, LoadHolder,
         Reserve, CreateRow, Enqueue, CountSubmitted, Reply, RequestFails,
         Crash, BeginShutdown, EndShutdown, Restart, Expire
<1>. QED
  BY <1>2, <1>3, <1>4, <1>5, <1>6, <1>7 DEF ExecutorStep

-----------------------------------------------------------------------------
(***************************************************************************)
(* No job is left behind.                                                  *)
(***************************************************************************)
Unfinished == {"pending", "running"}

Owes(w, j) == wk[w].pc \in Owing /\ wk[w].job = j

\* The part of NoOrphanedJob that is about j.
Safe(j) == Attended(j) \/ j \in lost

Kept(j) == row[j].status \in Unfinished => Safe(j)

LEMMA OrphanParts == NoOrphanedJob <=> \A j \in Jobs : Kept(j)
BY DEF NoOrphanedJob, Kept, Safe, Unfinished

LEMMA AttendedParts ==
  ASSUME NEW j \in Jobs
  PROVE  Attended(j) <=> \/ \E r \in Replicas : Sends(r, j)
                         \/ \E h \in Homes : j \in queue[h]
                         \/ \E w \in Workers : Owes(w, j)
BY DEF Attended, Unsent, OwedBy, Sends, Owes

\* A job stays with whoever attends to it, unless the step sees to it that
\* somebody else does or that it counts as lost.
LEMMA StaysKept ==
  ASSUME NEW j \in Jobs, Kept(j), lost \subseteq lost',
         row'[j].status \in Unfinished => row[j].status \in Unfinished,
         \A r \in Replicas : Sends(r, j) => Sends(r, j)' \/ Safe(j)',
         \A h \in Homes : j \in queue[h] => j \in queue'[h] \/ Safe(j)',
         \A w \in Workers : Owes(w, j) => Owes(w, j)' \/ Safe(j)'
  PROVE  Kept(j)'
<1>1. Safe(j)' <=> \/ \E r \in Replicas : Sends(r, j)'
                   \/ \E h \in Homes : j \in queue'[h]
                   \/ \E w \in Workers : Owes(w, j)'
                   \/ j \in lost'
  BY DEF Safe, Attended, Unsent, OwedBy, Sends, Owes
<1>2. Safe(j) => \/ \E r \in Replicas : Sends(r, j)
                 \/ \E h \in Homes : j \in queue[h]
                 \/ \E w \in Workers : Owes(w, j)
                 \/ j \in lost
  BY AttendedParts DEF Safe
<1>. QED
  BY <1>1, <1>2 DEF Kept

\* What attends to a job, for a step that is to bring it to safety.
LEMMA IsSafe ==
  ASSUME NEW j \in Jobs,
         \/ \E r \in Replicas : Sends(r, j)'
         \/ \E h \in Homes : j \in queue'[h]
         \/ \E w \in Workers : Owes(w, j)'
         \/ j \in lost'
  PROVE  Safe(j)'
BY DEF Safe, Attended, Unsent, OwedBy, Sends, Owes

\* The handler stores the row, hands the job over, and leaves it there.
LEMMA HandlerKeeps ==
  ASSUME ExecutionInv, NoOrphanedJob, NEW r \in Replicas, HandlerStep(r),
         UNCHANGED lost, NEW j \in Jobs
  PROVE  Kept(j)'
<1>0. /\ Kept(j) /\ req \in [Replicas -> Request] /\ req[r] \in Request
      /\ row \in [Jobs -> PipelineJob] /\ queue \in [Homes -> SUBSET Jobs]
      /\ RunnerHome(r) \in Homes
      /\ UNCHANGED wk
      /\ \A s \in Replicas \ {r} : req'[s] = req[s]
      /\ \A w \in Workers : Owes(w, j) => Owes(w, j)'
  BY OrphanParts, HandlerEffect, HomesOK
     DEF ExecutionInv, TypeInv, TypeOK, Owes, HandlerStep, GetKey,
         LoadHolder, Reserve, CreateRow, Enqueue, CountSubmitted, Reply
<1>1. CASE CreateRow(r)
  <2>1. /\ req'[r].pc = "enqueue" /\ req'[r].job = req[r].job
        /\ row' = [row EXCEPT ![req[r].job] = NewJob]
        /\ queue' = queue /\ req[r].pc = "create"
    BY <1>0, <1>1 DEF CreateRow, Request
  <2>2. CASE j = req[r].job
    BY <2>1, <2>2, IsSafe DEF Sends, Kept
  <2>3. CASE j # req[r].job
    <3>1. \A s \in Replicas : Sends(s, j) => Sends(s, j)'
      BY <1>0, <2>1 DEF Sends
    <3>. QED
      BY <1>0, <2>1, <2>3, <3>1, StaysKept
  <2>. QED
    BY <2>2, <2>3
<1>2. CASE Enqueue(r)
  <2>1. /\ queue' = [queue EXCEPT ![RunnerHome(r)] = @ \cup {req[r].job}]
        /\ row' = row
    BY <1>2 DEF Enqueue
  <2>2. CASE j = req[r].job
    <3>1. j \in queue'[RunnerHome(r)]
      BY <1>0, <2>1, <2>2
    <3>. QED
      BY <1>0, <3>1, IsSafe DEF Kept
  <2>3. CASE j # req[r].job
    <3>1. \A s \in Replicas : Sends(s, j) => Sends(s, j)'
      BY <1>0, <2>3 DEF Sends
    <3>2. \A h \in Homes : j \in queue[h] => j \in queue'[h]
      BY <1>0, <2>1
    <3>. QED
      BY <1>0, <2>1, <3>1, <3>2, StaysKept
  <2>. QED
    BY <2>2, <2>3
<1>3. CASE ~CreateRow(r) /\ ~Enqueue(r)
  <2>1. UNCHANGED <<row, queue>> /\ req[r].pc # "enqueue"
    BY <1>3 DEF HandlerStep, GetKey, LoadHolder, Reserve, CountSubmitted, Reply
  <2>2. \A s \in Replicas : Sends(s, j) => Sends(s, j)'
    BY <1>0, <2>1 DEF Sends
  <2>. QED
    BY <1>0, <2>1, <2>2, StaysKept
<1>. QED
  BY <1>1, <1>2, <1>3

\* New requests, the beginning of a shutdown, and expiring keys.
LEMMA QuietKeeps ==
  ASSUME ExecutionInv, NoOrphanedJob, UNCHANGED lost, NEW j \in Jobs,
         \/ \E r \in Replicas : \/ \E k \in Keys \cup {None} : CreateJob(r, k)
                                \/ BeginShutdown(r)
         \/ \E h \in Homes, k \in Keys : Expire(h, k)
         \/ UNCHANGED vars
  PROVE  Kept(j)'
<1>0. Kept(j) /\ req \in [Replicas -> Request]
  BY OrphanParts DEF ExecutionInv, TypeInv, TypeOK
<1>1. UNCHANGED <<row, queue, wk>>
  BY DEF CreateJob, BeginShutdown, Expire, vars
<1>2. \A s \in Replicas : Sends(s, j) => Sends(s, j)'
  BY <1>0 DEF CreateJob, BeginShutdown, Expire, vars, Sends, Request
<1>. QED
  BY <1>0, <1>1, <1>2, StaysKept DEF Owes

\* A graceful shutdown has nothing left to lose: the pool was drained.
LEMMA ShutdownKeeps ==
  ASSUME ExecutionInv, DrainInv, NoOrphanedJob, NEW r \in Replicas,
         EndShutdown(r), UNCHANGED lost, NEW j \in Jobs
  PROVE  Kept(j)'
<1>0. /\ Kept(j) /\ req \in [Replicas -> Request] /\ req[r].pc = "idle"
      /\ queue \in [Homes -> SUBSET Jobs] /\ UNCHANGED row
  BY OrphanParts DEF ExecutionInv, TypeInv, TypeOK, DrainInv, EndShutdown,
                     Restart
<1>1. \A s \in Replicas : Sends(s, j) => Sends(s, j)'
  BY <1>0 DEF EndShutdown, Restart, Sends
<1>2. \A h \in Homes : j \in queue[h] => j \in queue'[h]
  BY <1>0 DEF EndShutdown, Restart, PoolDrained
<1>3. \A w \in Workers : Owes(w, j) => Owes(w, j)'
  BY DEF EndShutdown, Restart, PoolDrained, Owes, Owing
<1>. QED
  BY <1>0, <1>1, <1>2, <1>3, StaysKept

\* A process that is killed loses what is in its memory and nothing else.
LEMMA CrashKeeps ==
  ASSUME ExecutionInv, NoOrphanedJob, NEW r \in Replicas, CrashH(r),
         NEW j \in Jobs
  PROVE  Kept(j)'
<1>0. /\ Kept(j) /\ req \in [Replicas -> Request]
      /\ queue \in [Homes -> SUBSET Jobs] /\ UNCHANGED row
      /\ lost' = lost \cup InMemory(r) /\ Restart(r)
  BY OrphanParts DEF ExecutionInv, TypeInv, TypeOK, CrashH, Crash, Restart, Lose
<1>1. \A s \in Replicas : Sends(s, j) => Sends(s, j)' \/ j \in lost'
  BY <1>0 DEF Restart, Sends, InMemory, Unsent
<1>2. \A h \in Homes : j \in queue[h] => j \in queue'[h] \/ j \in lost'
  BY <1>0 DEF Restart, InMemory
<1>3. \A w \in Workers : Owes(w, j) => Owes(w, j)' \/ j \in lost'
  BY <1>0 DEF Restart, InMemory, OwedBy, Owes
<1>. QED
  BY <1>0, <1>1, <1>2, <1>3, StaysKept, IsSafe

\* The 500 of a request, an exception in the executor and a lost pool child
\* lose the job of that request or executor.
LEMMA FailureKeeps ==
  ASSUME ExecutionInv, NoOrphanedJob, NEW j \in Jobs,
         \/ \E r \in Replicas : RequestFailsH(r)
         \/ \E w \in Workers : ExecutionFailsH(w) \/ ChildLostH(w)
  PROVE  Kept(j)'
<1>0. /\ Kept(j) /\ req \in [Replicas -> Request]
      /\ wk \in [Workers -> Execution] /\ UNCHANGED <<row, queue>>
      /\ lost \subseteq lost'
  BY OrphanParts DEF ExecutionInv, TypeInv, TypeOK, RequestFailsH, RequestFails,
       ExecutionFailsH, ExecutionFails, ChildLostH, ChildLost, Lose
<1>1. \A s \in Replicas : Sends(s, j) => Sends(s, j)' \/ j \in lost'
  BY <1>0 DEF RequestFailsH, RequestFails, Unsent, Sends, Lose, ExecutionFailsH,
              ExecutionFails, ChildLostH, ChildLost
<1>2. \A v \in Workers : Owes(v, j) => Owes(v, j)' \/ j \in lost'
  BY <1>0 DEF RequestFailsH, RequestFails, OwedBy, Owes, Lose, ExecutionFailsH,
              ExecutionFails, ChildLostH, ChildLost
<1>. QED
  BY <1>0, <1>1, <1>2, StaysKept, IsSafe

\* What the broker puts back is in its queue again; what it had put back
\* before, while the worker went on, is what the death of the worker loses.
LEMMA BrokerKeeps ==
  ASSUME ExecutionInv, OverdueInv, NoOrphanedJob, NEW w \in Workers,
         NEW j \in Jobs,
         WorkerCrashH(w) \/ (VisibilityTimeout(w) /\ UNCHANGED lost)
  PROVE  Kept(j)'
<1>0. /\ Kept(j) /\ TypeInv /\ UNCHANGED <<row, req>> /\ lost \subseteq lost'
      /\ wk \in [Workers -> Execution] /\ wk[w].pc # "idle"
      /\ \A v \in Workers \ {w} : wk'[v] = wk[v]
      /\ PutBack(w) \/ UNCHANGED queue
  BY OrphanParts
     DEF ExecutionInv, TypeInv, TypeOK, UnackedBusy, WorkerCrashH, WorkerCrash,
         VisibilityTimeout, Lose
<1>1. \A h \in Homes : j \in queue[h] => j \in queue'[h]
  BY <1>0, PutBackFacts
<1>2. Owes(w, j) => Owes(w, j)' \/ Safe(j)'
  <2>. SUFFICES ASSUME Owes(w, j), WorkerCrashH(w)
                PROVE  Safe(j)'
    BY DEF VisibilityTimeout, Owes
  <2>1. CASE w \in unacked
    <3>1. j \in queue'[Shared]
      BY <1>0, <2>1, PutBackFacts DEF WorkerCrashH, WorkerCrash, Owes
    <3>. QED
      BY <3>1, IsSafe, HomesOK
  <2>2. CASE w \notin unacked
    <3>1. redeliveries[j] > 0
      BY <2>2 DEF OverdueInv, WorkerCrashH, WorkerCrash, Owes
    <3>2. j \in lost'
      BY <2>2, <3>1 DEF WorkerCrashH, Lose, OwedBy, Owes
    <3>. QED
      BY <3>2, IsSafe
  <2>. QED
    BY <2>1, <2>2
<1>. QED
  BY <1>0, <1>1, <1>2, StaysKept DEF Sends, Owes

\* An executor that goes on owes its job until it has written the final row.
LEMMA ExecutorKeeps ==
  ASSUME ExecutionInv, NoOrphanedJob, NEW w \in Workers, ExecutorStep(w),
         UNCHANGED lost, NEW j \in Jobs
  PROVE  Kept(j)'
<1>0. /\ Kept(j) /\ TypeInv /\ wk \in [Workers -> Execution]
      /\ queue \in [Homes -> SUBSET Jobs] /\ row \in [Jobs -> PipelineJob]
      /\ \A s \in Replicas : Sends(s, j) => Sends(s, j)'
  BY OrphanParts
     DEF ExecutionInv, TypeInv, TypeOK, ExecutorStep, Take, Fetch, Start,
         RunPipeline, Finish, Update, Notify, Ack, Sends
<1>1. CASE Take(w)
  <2>1. PICK i \in queue[WorkerHome(w)] :
          /\ queue' = [queue EXCEPT ![WorkerHome(w)] = @ \ {i}]
          /\ wk' = [wk EXCEPT ![w] = [pc |-> "fetch", job |-> i, copy |-> NoRow]]
    BY <1>1 DEF Take
  <2>2. /\ wk[w].pc = "idle" /\ UNCHANGED row
        /\ wk'[w].pc = "fetch" /\ wk'[w].job = i
        /\ \A v \in Workers \ {w} : wk'[v] = wk[v]
    BY <1>0, <1>1, <2>1 DEF Take
  <2>3. \A v \in Workers : Owes(v, j) => Owes(v, j)'
    BY <2>2 DEF Owes, Owing
  <2>4. CASE j = i
    BY <2>2, <2>4, IsSafe DEF Kept, Owes, Owing
  <2>5. CASE j # i
    <3>1. \A h \in Homes : j \in queue[h] => j \in queue'[h]
      BY <1>0, <2>1, <2>5
    <3>. QED
      BY <1>0, <2>2, <2>3, <3>1, StaysKept
  <2>. QED
    BY <2>4, <2>5
<1>2. CASE Fetch(w) \/ Start(w) \/ RunPipeline(w) \/ Finish(w)
  <2>1. /\ wk[w].pc \in Owing /\ wk'[w].job = wk[w].job
        /\ \A v \in Workers \ {w} : wk'[v] = wk[v]
        /\ \A i \in Jobs \ {wk[w].job} : row'[i] = row[i]
        /\ UNCHANGED queue
    BY <1>2, ExecutorOutcome DEF Fetch, Start, RunPipeline, Finish, Update
  <2>2. /\ wk[w].job \in Jobs /\ wk[w] \in Execution /\ Exists(wk[w].job)
        /\ wk[w].copy \in PipelineJob /\ row[wk[w].job] \in PipelineJob
    BY <2>1, ExecutionFacts DEF Execution
  <2>h. ASSUME NEW pc \in WorkerPcs, NEW copy \in PipelineJob,
               wk' = [wk EXCEPT ![w] = Holds(wk[w], pc, copy)]
        PROVE  wk'[w].pc = pc
    BY <1>0, <2>2, <2>h, HoldsOK
  <2>3. wk'[w].pc \in Owing \/ row'[wk[w].job].status \in Terminal
    <3>1. CASE Fetch(w)
      BY <2>2, <2>h, <3>1 DEF Fetch, WorkerPcs, Owing
    <3>2. CASE Start(w)
      <4>1. [status |-> "running",
             filled |-> wk[w].copy.filled \cup {"started_at"}] \in PipelineJob
        BY <2>2, CopyOK DEF JobStatus, Columns
      <4>. QED
        BY <2>h, <3>2, <4>1 DEF Start, Update, WorkerPcs, Owing
    <3>3. CASE RunPipeline(w)
      <4>1. PICK o \in Outcomes :
              wk' = [wk EXCEPT ![w] = Holds(wk[w], "finish",
                       [status |-> o.status,
                        filled |-> wk[w].copy.filled \cup {o.column}])]
        BY <3>3 DEF RunPipeline
      <4>2. o.status \in JobStatus /\ o.column \in Columns
        BY DEF Outcomes, JobStatus, Columns
      <4>. QED
        BY <2>2, <2>h, <4>1, <4>2, CopyOK DEF WorkerPcs, Owing
    <3>4. CASE Finish(w)
      <4>1. wk[w].copy.status \in Terminal
        BY <1>0, <3>4 DEF TypeInv, FinishOutcome, Finish
      <4>2. row'[wk[w].job].status = wk[w].copy.status
        BY <1>0, <2>2, <3>4 DEF Finish, Update
      <4>. QED
        BY <4>1, <4>2
    <3>. QED
      BY <1>2, <3>1, <3>2, <3>3, <3>4
  <2>4. CASE j # wk[w].job
    <3>1. \A v \in Workers : Owes(v, j) => Owes(v, j)'
      BY <2>1, <2>4 DEF Owes
    <3>. QED
      BY <1>0, <2>1, <2>4, <3>1, StaysKept
  <2>5. CASE j = wk[w].job
    BY <2>1, <2>3, <2>5, IsSafe DEF Owes, Kept, Unfinished, Terminal
  <2>. QED
    BY <2>4, <2>5
<1>3. CASE Notify(w) \/ Ack(w)
  <2>1. \A v \in Workers : Owes(v, j) => Owes(v, j)'
    BY <1>0, <1>3 DEF Notify, Ack, Owes, Owing
  <2>2. UNCHANGED <<row, queue>>
    BY <1>3 DEF Notify, Ack
  <2>. QED
    BY <1>0, <2>1, <2>2, StaysKept
<1>. QED
  BY <1>1, <1>2, <1>3 DEF ExecutorStep

\* Whatever is killed, raises or is delivered twice: a job that a client sees
\* as pending or running is with a handler, a queue or an executor, or it is
\* one of those that the failure of its own request, executor or process took
\* away.
THEOREM NoJobIsOrphaned == LossSpec => []NoOrphanedJob
<1>1. LossInit => DrainInv /\ OverdueInv /\ NoOrphanedJob
  BY StatusOfRows, PcsApart
     DEF LossInit, Init, DrainInv, OverdueInv, NoOrphanedJob, Owing
<1>2. ExecutionInv /\ DrainInv /\ [Next]_vars => DrainInv'
  BY DrainNext DEF ExecutionInv
<1>3. ExecutionInv /\ OverdueInv /\ [Next]_vars => OverdueInv'
  BY OverdueNext
<1>4. ExecutionInv /\ DrainInv /\ OverdueInv /\ NoOrphanedJob
        /\ [LossNext]_lossVars => NoOrphanedJob'
  <2>. SUFFICES ASSUME ExecutionInv, DrainInv, OverdueInv, NoOrphanedJob,
                       [LossNext]_lossVars, NEW j \in Jobs
                PROVE  Kept(j)'
    BY DEF NoOrphanedJob, Kept, Safe, Unfinished
  <2>1. CASE UNCHANGED lossVars
    BY <2>1, QuietKeeps DEF lossVars
  <2>2. CASE Lossless /\ UNCHANGED lost
    <3>1. CASE \E w \in Workers : ExecutorStep(w) \/ VisibilityTimeout(w)
      BY <2>2, <3>1, ExecutorKeeps, BrokerKeeps
    <3>2. CASE \E r \in Replicas : HandlerStep(r) \/ EndShutdown(r)
      BY <2>2, <3>2, HandlerKeeps, ShutdownKeeps
    <3>. QED
      BY <2>2, <3>1, <3>2, QuietKeeps DEF Lossless
  <2>3. CASE \/ \E r \in Replicas : RequestFailsH(r) \/ CrashH(r)
             \/ \E w \in Workers : \/ ExecutionFailsH(w)
                                   \/ ChildLostH(w)
                                   \/ WorkerCrashH(w)
    BY <2>3, FailureKeeps, CrashKeeps, BrokerKeeps
  <2>. QED
    BY <2>1, <2>2, <2>3 DEF LossNext
<1>. QED
  BY <1>1, <1>2, <1>3, <1>4, LossNextIsNext, LossesOfExecution, PTL
     DEF LossSpec
=============================================================================
