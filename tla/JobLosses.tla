----------------------------- MODULE JobLosses -----------------------------
(***************************************************************************)
(* JobService with a history of its losses: which jobs the code gives up   *)
(* for lost when a call raises or a process dies.  Everything that is not  *)
(* lost must be attended to until it has ended, whatever else goes wrong.  *)
(***************************************************************************)
EXTENDS JobService

VARIABLE lost   \* the jobs that a failure took away from their executor

lossVars == <<vars, lost>>

-----------------------------------------------------------------------------
LossInit == Init /\ lost = {}

\* Where a worker still owes its job the final row.
Owing == {"fetch", "start", "run", "finish"}

OwedBy(W) == {j \in Jobs : \E w \in W : wk[w].pc \in Owing /\ wk[w].job = j}

\* The row is stored, but not handed over yet.
Unsent(r) == {j \in Jobs : req[r].pc = "enqueue" /\ req[r].job = j}

\* What is in the memory of process r: a request that has not enqueued its
\* job yet and, with the thread pool, the pool's queue and its threads.
InMemory(r) ==
  Unsent(r) \cup
    IF Celery THEN {} ELSE queue[r] \cup OwedBy({w \in Workers : HostOf[w] = r})

Lose(J) == lost' = lost \cup J

\* apply_async raises, or whatever raises before it: the row stays pending.
RequestFailsH(r) == RequestFails(r) /\ Lose(Unsent(r))

CrashH(r) == Crash(r) /\ Lose(InMemory(r))

\* The executor leaves by an exception; Celery acknowledges all the same.
ExecutionFailsH(w) == ExecutionFails(w) /\ Lose(OwedBy({w}))

ChildLostH(w) == ChildLost(w) /\ Lose(OwedBy({w}))

\* The broker delivers again what was not acknowledged.  The message of a
\* worker that had outlasted the visibility timeout went to another one before;
\* what such a worker still owes (it may have reopened a job that the other one
\* had ended) is lost with it.
WorkerCrashH(w) ==
  /\ WorkerCrash(w)
  /\ Lose({j \in OwedBy({w} \ unacked) : redeliveries[j] > 0})

\* No other step, a graceful shutdown included, is allowed to lose a job.
Lossless ==
  \/ \E r \in Replicas :
       \/ \E k \in Keys \cup {None} : CreateJob(r, k)
       \/ HandlerStep(r)
       \/ BeginShutdown(r)
       \/ EndShutdown(r)
  \/ \E w \in Workers : ExecutorStep(w) \/ VisibilityTimeout(w)
  \/ \E h \in Homes, k \in Keys : Expire(h, k)

LossNext ==
  \/ Lossless /\ UNCHANGED lost
  \/ \E r \in Replicas : RequestFailsH(r) \/ CrashH(r)
  \/ \E w \in Workers : ExecutionFailsH(w) \/ ChildLostH(w) \/ WorkerCrashH(w)

LossSpec == LossInit /\ [][LossNext]_lossVars

FairLossSpec == LossSpec /\ Fairness

-----------------------------------------------------------------------------
(***************************************************************************)
(* Properties.                                                             *)
(***************************************************************************)

\* Somebody is going to work on j: a handler about to enqueue it, a queue, or
\* an executor that has not written the final row yet.
Attended(j) ==
  \/ \E r \in Replicas : j \in Unsent(r)
  \/ \E h \in Homes : j \in queue[h]
  \/ j \in OwedBy(Workers)

\* No job is left behind: whatever a client can see as pending or running is
\* attended or was lost by a failure, across a graceful shutdown of the pool
\* (which drains it), the death of a Celery worker (task_acks_late) and
\* deliveries that come twice.
NoOrphanedJob ==
  \A j \in Jobs :
    row[j].status \in {"pending", "running"} => Attended(j) \/ j \in lost

\* Polling ends: "poll until completed or failed" (docs/ARCHITECTURE.md).
\* Every stored job is lost or terminal from some point on.
JobsSettle ==
  \A j \in Jobs :
    Exists(j) ~> [](row[j].status \in Terminal \/ j \in lost)

\* A job that has ended runs again only if its message was delivered again: a
\* retried POST, a shutdown or a restart never reopens it.
OnlyRedeliveryReopens ==
  [][\A j \in Jobs :
       row[j].status \in Terminal /\ row[j]' # row[j] => redeliveries[j] > 0]_row
=============================================================================
