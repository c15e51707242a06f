---------------------------- MODULE PipelineRun -----------------------------
(***************************************************************************)
(* RunPipelineUseCase.execute: collect, classify, create the CRM tasks one *)
(* after the other, save.  The CRM calls are those of CrmGateway; what was *)
(* collected is one of some states of the catalogue, and classification    *)
(* decides which of its tasks are made (see Enrichment).  A run that fails *)
(* anywhere stops there: nothing is undone, and the next run starts over.  *)
(***************************************************************************)
EXTENDS Integers, Sequences, FiniteSets

CONSTANTS
  Callers,      \* pipeline runs that may be in progress at once
  Catalogs,     \* states of the site's catalogue
  Tasks, None, PageSize, MaxPages, MaxRetries,
  Enabled, MockModes, Faults, Others    \* see CrmGateway

VARIABLES
  crm, store, call, outcome,    \* see CrmGateway
  run,          \* run[c]: how far the pipeline run has come
  output        \* the run data in enriched_products.json

\* The key of a task is a hash of its title and of the products it lists.
Keys == Catalogs \X {"premium", "economy"}

Crm == INSTANCE CrmGateway

\* What CrmGateway assumes of its constants.
ASSUME CrmAssumption ==
  /\ None \notin Keys \cup Tasks
  /\ \A k \in Keys : Crm!MockTask(k) \notin Tasks
  /\ PageSize \in Nat \ {0} /\ MaxPages \in Nat \ {0} /\ MaxRetries \in Nat \ {0}
  /\ Enabled \in BOOLEAN /\ MockModes \subseteq BOOLEAN
  /\ Faults \subseteq Crm!AllFaults /\ Others \subseteq Crm!AllOthers

crmVars == <<crm, store, call, outcome>>
vars == <<crm, store, call, outcome, run, output>>

\* The tasks that a classification of catalogue v can lead to: none when no
\* product is premium or economy, for one because the model failed.
TaskLists(v) ==
  LET premium == <<v, "premium">>
      economy == <<v, "economy">>
  IN {<<>>, <<premium>>, <<economy>>, <<premium, economy>>}

NoRun == [stage |-> "idle", catalog |-> None, tasks |-> <<>>, made |-> 0]

Stages == {"idle", "collect", "classify", "crm", "save", "completed", "failed"}

TypeOK ==
  /\ Crm!TypeOK
  /\ \A c \in Callers :
       /\ run[c].stage \in Stages
       /\ run[c].catalog \in Catalogs \cup {None}
       /\ run[c].made \in 0..Len(run[c].tasks)
       /\ run[c].tasks # <<>> => run[c].tasks \in TaskLists(run[c].catalog)
  /\ output \in {None} \cup [catalog : Catalogs,
                             tasks : UNION {TaskLists(v) : v \in Catalogs}]

Init ==
  /\ Crm!Init
  /\ run = [c \in Callers |-> NoRun]
  /\ output = None

-----------------------------------------------------------------------------
\* Mutant: the run goes on counting where the last one stopped.
StartCounting(c) ==
  /\ run[c].stage \in {"idle", "completed", "failed"}
  /\ run' = [run EXCEPT ![c] = [NoRun EXCEPT !.stage = "collect",
                                             !.made = run[c].made]]
  /\ UNCHANGED <<crmVars, output>>

\* A worker or the CLI starts a run.
Start(c) ==
  /\ run[c].stage \in {"idle", "completed", "failed"}
  /\ run' = [run EXCEPT ![c] = [NoRun EXCEPT !.stage = "collect"]]
  /\ UNCHANGED <<crmVars, output>>

\* The collector returns; a degraded collection is another catalogue.
Collect(c) ==
  /\ run[c].stage = "collect"
  /\ \E v \in Catalogs :
       run' = [run EXCEPT ![c].stage = "classify", ![c].catalog = v]
  /\ UNCHANGED <<crmVars, output>>

\* classify and build_tasks.
Classify(c) ==
  /\ run[c].stage = "classify"
  /\ \E ts \in TaskLists(run[c].catalog) :
       run' = [run EXCEPT ![c].stage = IF ts = <<>> THEN "save" ELSE "crm",
                          ![c].tasks = ts]
  /\ UNCHANGED <<crmVars, output>>

\* The next task of the list; the gateway is free.
CreateTask(c) ==
  /\ run[c].stage = "crm"
  /\ \E m \in MockModes : Crm!CreateTask(c, run[c].tasks[run[c].made + 1], m)
  /\ UNCHANGED <<run, output>>

\* Mutant: a task that can not be created does not stop the run.
ContinueAnyhow(c) ==
  LET made == run[c].made + 1
  IN run' = [run EXCEPT ![c].made = made,
                        ![c].stage = IF made = Len(run[c].tasks) THEN "save"
                                                                 ELSE "crm"]

\* create_task came back: the next task, save after the last one, or the end
\* of the run when it raised.
Continue(c) ==
  LET made == run[c].made + 1
  IN IF outcome'[c] = None
       THEN run' = [run EXCEPT ![c].stage = "failed"]
       ELSE run' = [run EXCEPT ![c].made = made,
                               ![c].stage = IF made = Len(run[c].tasks)
                                              THEN "save" ELSE "crm"]

\* A step inside create_task, or out of it.
Gateway(c) ==
  /\ call[c].pc # "idle"
  /\ Crm!Step(c) \/ Crm!Stop(c)
  /\ IF call'[c].pc = "idle" THEN Continue(c) ELSE run' = run
  /\ UNCHANGED output

\* The repository replaces the data of the run before (see EnrichedOutput).
Save(c) ==
  /\ run[c].stage = "save"
  /\ output' = [catalog |-> run[c].catalog, tasks |-> run[c].tasks]
  /\ run' = [run EXCEPT ![c].stage = "completed"]
  /\ UNCHANGED crmVars

\* The collector raises, the process dies, or the output can not be saved:
\* the tasks that were created stay.
Fail(c) ==
  /\ "stop" \in Faults
  /\ call[c].pc = "idle"
  /\ run[c].stage \in {"collect", "classify", "crm", "save"}
  /\ run' = [run EXCEPT ![c].stage = "failed"]
  /\ UNCHANGED <<crmVars, output>>

RunStep(c) ==
  Collect(c) \/ Classify(c) \/ CreateTask(c) \/ Gateway(c) \/ Save(c)

\* Other users of the account only add tasks here: one that is edited while a
\* search pages past it can be missed.
Next ==
  \/ \E c \in Callers :
       \/ Start(c)
       \/ RunStep(c)
       \/ Fail(c)
  \/ Crm!OthersCreate /\ UNCHANGED <<run, output>>

Spec == Init /\ [][Next]_vars

\* A run that was started has a thread of its own and waits for nothing but
\* answers, and each request has a timeout.
FairSpec == Spec /\ \A c \in Callers : WF_vars(RunStep(c))

-----------------------------------------------------------------------------
\* "AmoCRM duplicate run": runs after one another, each of which may fail at
\* any point and leave tasks without an output, make no task twice.
NoDuplicateTask == Crm!NoDuplicateTask

\* The saved data of a run is there only if AmoCRM has every task that was
\* built from it, and so is a run that counts as completed.
InCrm(tasks) == \A i \in DOMAIN tasks : Crm!TasksOf(tasks[i]) # {}
OutputHasItsTasks ==
  /\ output # None => InCrm(output.tasks)
  /\ \A c \in Callers : run[c].stage = "completed" => InCrm(run[c].tasks)

\* A run comes to an end, completed or failed, although requests are retried
\* and others keep changing the list that its searches page through.
RunsEnd ==
  \A c \in Callers :
    run[c].stage \notin {"idle", "completed", "failed"}
      ~> run[c].stage \in {"completed", "failed"}
=============================================================================
