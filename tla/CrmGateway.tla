----------------------------- MODULE CrmGateway -----------------------------
(***************************************************************************)
(* AmoCrmGateway.create_task: at most one AmoCRM task per idempotency key, *)
(* by a store of the tasks already made and, when the store knows none, a  *)
(* search of the newest AmoCRM tasks for the key's marker.  Every pipeline *)
(* run has its own gateway; all share one store (a map: see                *)
(* FileIdempotencyStore, or a Redis key per record) and one account.       *)
(***************************************************************************)
EXTENDS Integers, Sequences, FiniteSets

CONSTANTS
  Callers,      \* pipeline runs
  Keys,         \* idempotency keys: one per title and description
  Tasks,        \* AmoCRM task ids (bounds how many tasks are ever made)
  None,
  PageSize,     \* 250
  MaxPages,     \* 5
  MaxRetries,   \* HTTP_MAX_RETRIES
  Enabled,      \* CRM_IDEMPOTENCY_ENABLED
  MockModes,    \* values of MOCK_CRM that a run may be started with
  Faults,       \* what can go wrong, see AllFaults
  Others        \* what other users of the account do, see AllOthers

\* "stop": a call raises in the store, or its process dies, at any point
\* "refused": a request has no effect: HTTP 429, or no connection
\* "lost": AmoCRM creates the task, but its answer does not arrive
\* "rejected": the answer is an error status, or names no task
AllFaults == {"stop", "refused", "lost", "rejected"}

\* "create": another task becomes the newest
\* "touch": a task is edited and becomes the newest
AllOthers == {"create", "touch"}

\* The id that MOCK_CRM invents: "mock-task-" and the start of the key.
MockTask(k) == [mock |-> k]
TaskIds == Tasks \cup {MockTask(k) : k \in Keys}

ASSUME NoneAssumption == None \notin Keys \cup Tasks

\* AmoCRM's ids are numbers.
ASSUME MockAssumption == \A k \in Keys : MockTask(k) \notin Tasks

ASSUME LimitsAssumption ==
  PageSize \in Nat \ {0} /\ MaxPages \in Nat \ {0} /\ MaxRetries \in Nat \ {0}

ASSUME SettingsAssumption ==
  Enabled \in BOOLEAN /\ MockModes \subseteq BOOLEAN
    /\ Faults \subseteq AllFaults /\ Others \subseteq AllOthers

VARIABLES
  crm,      \* AmoCRM's tasks, the one updated last first
  store,    \* store[k]: the task id recorded for key k
  call,     \* call[c]: the create_task in progress
  outcome   \* outcome[c]: the last CrmTaskOutcome that c got

vars == <<crm, store, call, outcome>>

\* A task's text holds the marker of a key, or none.
CrmTask == [id : Tasks, marker : Keys \cup {None}]

IdleCall ==
  [pc |-> "idle", key |-> None, mock |-> FALSE, page |-> 1, tries |-> 0,
   task |-> None, reused |-> FALSE]

Call == [pc : {"idle", "get", "scan", "post", "put", "save"},
         key : Keys \cup {None}, mock : BOOLEAN, page : 1..MaxPages,
         tries : 0..(MaxRetries - 1), task : TaskIds \cup {None},
         reused : BOOLEAN]

Outcome == [key : Keys, task : TaskIds, mocked : BOOLEAN, reused : BOOLEAN]

TypeOK ==
  /\ crm \in Seq(CrmTask)
  /\ store \in [Keys -> TaskIds \cup {None}]
  /\ call \in [Callers -> Call]
  /\ outcome \in [Callers -> Outcome \cup {None}]

Init ==
  /\ crm = <<>>
  /\ store = [k \in Keys |-> None]
  /\ call = [c \in Callers |-> IdleCall]
  /\ outcome = [c \in Callers |-> None]

-----------------------------------------------------------------------------
Unused == Tasks \ {crm[i].id : i \in DOMAIN crm}

\* GET /tasks?limit=PageSize&page=p, ordered by updated_at, newest first: the
\* positions in crm that the answer lists.
Page(p) == {i \in DOMAIN crm : (p - 1) * PageSize < i /\ i <= p * PageSize}

\* A page that is empty or short ends the list.
LastPage(p) == Len(crm) < p * PageSize

\* How create_task returns.
Returned(c, task, reused) ==
  /\ outcome' = [outcome EXCEPT ![c] = [key |-> call[c].key, task |-> task,
                                        mocked |-> call[c].mock,
                                        reused |-> reused]]
  /\ call' = [call EXCEPT ![c] = IdleCall]

\* How it raises; the pipeline run fails, and the job with it.
Raised(c) ==
  /\ call' = [call EXCEPT ![c] = IdleCall]
  /\ UNCHANGED outcome

\* Call d with the id that is to be recorded, of a new task or a found one.
Holding(d, task, reused) ==
  [d EXCEPT !.pc = "put", !.task = task, !.reused = reused]

\* _create_mock_task makes up an id; _create_remote_task posts.
Creating(d) ==
  IF d.mock THEN Holding(d, MockTask(d.key), FALSE) ELSE [d EXCEPT !.pc = "post"]

NewCall(k, m) == [IdleCall EXCEPT !.pc = "get", !.key = k, !.mock = m]

\* A run calls create_task with settings read from its environment.  Without
\* CRM_IDEMPOTENCY_ENABLED nothing is looked up.
CreateTask(c, k, m) ==
  /\ call[c].pc = "idle"
  /\ LET d == NewCall(k, m)
     IN call' = [call EXCEPT ![c] = IF Enabled THEN d ELSE Creating(d)]
  /\ outcome' = [outcome EXCEPT ![c] = None]
  /\ UNCHANGED <<crm, store>>

\* Mutant: nothing but the store is asked.
GetOnly(c) ==
  /\ call[c].pc = "get"
  /\ IF store[call[c].key] # None
       THEN Returned(c, store[call[c].key], TRUE)
       ELSE /\ call' = [call EXCEPT ![c] = Creating(@)]
            /\ UNCHANGED outcome
  /\ UNCHANGED <<crm, store>>

\* The first half of _find_existing: the store's answer is final; without one
\* a mock run creates, a real one looks for the marker.
Get(c) ==
  /\ call[c].pc = "get"
  /\ IF store[call[c].key] # None
       THEN Returned(c, store[call[c].key], TRUE)
       ELSE /\ call' = [call EXCEPT ![c] = IF @.mock THEN Creating(@)
                                           ELSE [@ EXCEPT !.pc = "scan"]]
            /\ UNCHANGED outcome
  /\ UNCHANGED <<crm, store>>

\* What follows when a page has tasks with the marker at positions found: the
\* first of them is taken; otherwise the next page is asked for, or, after an
\* empty or short page or MaxPages, the task is created.
Searched(c, found) ==
  LET d == call[c]
      last == LastPage(d.page) \/ d.page = MaxPages
  IN \/ \E i \in found :
          /\ \A j \in found : i <= j
          /\ call' = [call EXCEPT ![c] = Holding(d, crm[i].id, TRUE)]
     \/ found = {} /\ last /\ call' = [call EXCEPT ![c] = Creating(d)]
     \/ found = {} /\ ~last /\ call' = [call EXCEPT ![c].page = @ + 1]

\* Mutant: any marker of the pipeline counts.
ScanAnyMarker(c) ==
  /\ call[c].pc = "scan"
  /\ Searched(c, {i \in Page(call[c].page) : crm[i].marker # None})
  /\ UNCHANGED <<crm, store, outcome>>

\* One request of _find_remote_task_by_marker.
Scan(c) ==
  /\ call[c].pc = "scan"
  /\ Searched(c, {i \in Page(call[c].page) : crm[i].marker = call[c].key})
  /\ UNCHANGED <<crm, store, outcome>>

\* AmoCRM stores the posted task, which makes it the newest.
Created(c, id) == crm' = <<[id |-> id, marker |-> call[c].key]>> \o crm

\* The POST is answered with the new task.
PostAccepted(c) ==
  /\ call[c].pc = "post"
  /\ \E id \in Unused :
       /\ Created(c, id)
       /\ call' = [call EXCEPT ![c] = Holding(@, id, FALSE)]
  /\ UNCHANGED <<store, outcome>>

\* tenacity: a TransportError or a 429 is retried until MaxRetries attempts
\* have failed; then the last error is raised.
RetryOrRaise(c) ==
  IF call[c].tries + 1 < MaxRetries
    THEN /\ call' = [call EXCEPT ![c].tries = @ + 1]
         /\ UNCHANGED outcome
    ELSE Raised(c)

PostLost(c) ==
  /\ "lost" \in Faults
  /\ call[c].pc = "post"
  /\ \E id \in Unused : Created(c, id)
  /\ RetryOrRaise(c)
  /\ UNCHANGED store

\* Mutant: there is no stop_after_attempt.
PostRefusedForever(c) ==
  /\ "refused" \in Faults
  /\ call[c].pc = "post"
  /\ call' = [call EXCEPT ![c].tries = (@ + 1) % MaxRetries]
  /\ UNCHANGED <<crm, store, outcome>>

\* Mutant: the error of the last attempt is not raised again.
PostRefusedTaken(c) ==
  /\ "refused" \in Faults
  /\ call[c].pc = "post"
  /\ call' = [call EXCEPT ![c] = IF @.tries + 1 < MaxRetries
                                   THEN [@ EXCEPT !.tries = @ + 1]
                                   ELSE [@ EXCEPT !.pc = "put"]]
  /\ UNCHANGED <<crm, store, outcome>>

PostRefused(c) ==
  /\ "refused" \in Faults
  /\ call[c].pc = "post"
  /\ RetryOrRaise(c)
  /\ UNCHANGED <<crm, store>>

\* raise_for_status, a body that is no JSON, or "Unexpected AmoCRM response":
\* not retried, whether or not the task was created.
PostRejected(c) ==
  /\ "rejected" \in Faults
  /\ call[c].pc = "post"
  /\ \/ UNCHANGED crm
     \/ \E id \in Unused : Created(c, id)
  /\ Raised(c)
  /\ UNCHANGED store

\* The record of the created or found task.  A disabled store keeps nothing.
Put(c) ==
  /\ call[c].pc = "put"
  /\ store' = IF Enabled THEN [store EXCEPT ![call[c].key] = call[c].task]
                         ELSE store
  /\ call' = [call EXCEPT ![c].pc = "save"]
  /\ UNCHANGED <<crm, outcome>>

\* save changes nothing more; create_task returns.
Save(c) ==
  /\ call[c].pc = "save"
  /\ Returned(c, call[c].task, call[c].reused)
  /\ UNCHANGED <<crm, store>>

\* A request of the search fails for good, a store call raises, or the
\* process dies.
Stop(c) ==
  /\ "stop" \in Faults
  /\ call[c].pc # "idle"
  /\ Raised(c)
  /\ UNCHANGED <<crm, store>>

-----------------------------------------------------------------------------
OthersCreate ==
  /\ "create" \in Others
  /\ \E id \in Unused : crm' = <<[id |-> id, marker |-> None]>> \o crm
  /\ UNCHANGED <<store, call, outcome>>

\* List s with its i-th task first.
ToFront(s, i) ==
  [j \in DOMAIN s |-> IF j = 1 THEN s[i] ELSE IF j <= i THEN s[j - 1] ELSE s[j]]

OthersTouch ==
  /\ "touch" \in Others
  /\ \E i \in DOMAIN crm : crm' = ToFront(crm, i)
  /\ UNCHANGED <<store, call, outcome>>

Post(c) == PostAccepted(c) \/ PostLost(c) \/ PostRefused(c) \/ PostRejected(c)

Step(c) == Get(c) \/ Scan(c) \/ Post(c) \/ Put(c) \/ Save(c)

Next ==
  \/ \E c \in Callers :
       \/ \E k \in Keys, m \in MockModes : CreateTask(c, k, m)
       \/ Step(c)
       \/ Stop(c)
  \/ OthersCreate
  \/ OthersTouch

Spec == Init /\ [][Next]_vars

-----------------------------------------------------------------------------
TasksOf(k) == {i \in DOMAIN crm : crm[i].marker = k}

\* "Idempotency store prevents duplicate POST": however often the pipeline is
\* run again, after whatever failure, AmoCRM has one task per key.
NoDuplicateTask == \A k \in Keys : Cardinality(TasksOf(k)) <= 1

\* A recorded id that AmoCRM gave out is the id of a task with that key's
\* text: a reused outcome never points to another task.
RecordNamesItsTask ==
  \A k \in Keys : store[k] \in Tasks =>
    \E i \in TasksOf(k) : crm[i].id = store[k]

\* A run with MOCK_CRM=false that reports a task has one in AmoCRM, with the
\* text it was asked to create, unless a mock run recorded this text before.
OutcomeNamesItsTask ==
  \A c \in Callers : outcome[c] # None /\ ~outcome[c].mocked =>
    \/ \E i \in TasksOf(outcome[c].key) : crm[i].id = outcome[c].task
    \/ outcome[c].reused /\ outcome[c].task = MockTask(outcome[c].key)
=============================================================================
