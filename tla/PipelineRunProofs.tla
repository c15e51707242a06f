-------------------------- MODULE PipelineRunProofs --------------------------
(***************************************************************************)
(* Theorems about PipelineRun, for any states of the catalogue, any number *)
(* of runs and any list of AmoCRM tasks.  What they need of create_task is *)
(* proved in CrmGatewayProofs.                                             *)
(***************************************************************************)
EXTENDS PipelineRun, SequenceTheorems, FiniteSetTheorems, TLAPS

\* The calls of the runs, with what is proved about them; the history that
\* CrmDuplicates keeps plays no part here.
Calls == INSTANCE CrmGatewayProofs WITH known <- {}

-----------------------------------------------------------------------------
(***************************************************************************)
(* A run takes the steps of create_task.                                   *)
(***************************************************************************)
LEMMA CallsBegin == Crm!Init => Calls!Init
BY DEF Crm!Init, Calls!Init, Crm!IdleCall, Calls!IdleCall

LEMMA SameCreateTask ==
  ASSUME NEW c, NEW k, NEW m, Crm!CreateTask(c, k, m)
  PROVE  Calls!CreateTask(c, k, m)
BY DEF Crm!CreateTask, Calls!CreateTask, Crm!NewCall, Calls!NewCall,
       Crm!IdleCall, Calls!IdleCall, Crm!Creating, Calls!Creating,
       Crm!Holding, Calls!Holding, Crm!MockTask, Calls!MockTask

LEMMA SameStep ==
  ASSUME NEW c, Crm!Step(c)
  PROVE  Calls!Step(c)
BY DEF Crm!Step, Calls!Step, Crm!Get, Calls!Get, Crm!Scan, Calls!Scan,
       Crm!Post, Calls!Post, Crm!PostAccepted, Calls!PostAccepted,
       Crm!PostLost, Calls!PostLost, Crm!PostRefused, Calls!PostRefused,
       Crm!PostRejected, Calls!PostRejected, Crm!Put, Calls!Put,
       Crm!Save, Calls!Save, Crm!Returned, Calls!Returned,
       Crm!Raised, Calls!Raised, Crm!Searched, Calls!Searched,
       Crm!Page, Calls!Page, Crm!LastPage, Calls!LastPage,
       Crm!Created, Calls!Created, Crm!Unused, Calls!Unused,
       Crm!RetryOrRaise, Calls!RetryOrRaise,
       Crm!IdleCall, Calls!IdleCall, Crm!Creating, Calls!Creating,
       Crm!Holding, Calls!Holding, Crm!MockTask, Calls!MockTask

LEMMA SameStop ==
  ASSUME NEW c, Crm!Stop(c)
  PROVE  Calls!Stop(c)
BY DEF Crm!Stop, Calls!Stop, Crm!Raised, Calls!Raised,
       Crm!IdleCall, Calls!IdleCall

LEMMA SameOthersCreate == Crm!OthersCreate => Calls!OthersCreate
BY DEF Crm!OthersCreate, Calls!OthersCreate, Crm!Unused, Calls!Unused

LEMMA SameTypes == Calls!TypeOK => Crm!TypeOK
BY DEF Crm!TypeOK, Calls!TypeOK, Crm!CrmTask, Calls!CrmTask, Crm!TaskIds,
       Calls!TaskIds, Crm!MockTask, Calls!MockTask, Crm!Call, Calls!Call,
       Crm!Outcome, Calls!Outcome

-----------------------------------------------------------------------------
(***************************************************************************)
(* The inductive invariants.                                               *)
(***************************************************************************)
Runs == [stage : Stages, catalog : Catalogs \cup {None}, tasks : Seq(Keys),
         made : Nat]

\* How far a run has come tells what it has collected and which of its tasks
\* it has made.
RunOK(r) ==
  /\ r.tasks # <<>> => r.tasks \in TaskLists(r.catalog)
  /\ r.made <= Len(r.tasks)
  /\ r.stage \in {"idle", "collect", "classify"} => r.tasks = <<>>
  /\ r.stage \in {"classify", "crm", "save", "completed"} => r.catalog \in Catalogs
  /\ r.stage = "crm" => r.made < Len(r.tasks)
  /\ r.stage \in {"save", "completed"} => r.made = Len(r.tasks)

\* A call in progress is for the run's next task, and has no outcome yet.
CallOfRun(c) ==
  call[c].pc # "idle" =>
    /\ run[c].stage = "crm"
    /\ call[c].key = run[c].tasks[run[c].made + 1]
    /\ outcome[c] = None

OutputOK ==
  output \in {None} \cup [catalog : Catalogs,
                          tasks : UNION {TaskLists(v) : v \in Catalogs}]

RunInv ==
  /\ Calls!TypeInv
  /\ run \in [Callers -> Runs]
  /\ \A c \in Callers : RunOK(run[c]) /\ CallOfRun(c)
  /\ OutputOK

\* AmoCRM has a task with the marker of key k.
Made(k) == \E t : Calls!NamedIn(crm, k, t)

\* The tasks that a run counts, and those that are saved, are in AmoCRM.
TasksInv ==
  /\ Calls!NamesInv(crm)
  /\ Calls!NoMocks
  /\ \A c \in Callers : \A i \in 1..run[c].made : Made(run[c].tasks[i])
  /\ output # None => \A i \in DOMAIN output.tasks : Made(output.tasks[i])

-----------------------------------------------------------------------------
(***************************************************************************)
(* What is proved about the calls.                                         *)
(***************************************************************************)
LEMMA CallsAssumption ==
  /\ None \notin Keys \cup Tasks
  /\ \A k \in Keys : Calls!MockTask(k) \notin Tasks
  /\ PageSize \in Nat \ {0} /\ MaxPages \in Nat \ {0} /\ MaxRetries \in Nat \ {0}
  /\ Enabled \in BOOLEAN /\ MockModes \subseteq BOOLEAN
  /\ Faults \subseteq Calls!AllFaults /\ Others \subseteq Calls!AllOthers
BY CrmAssumption DEF Crm!MockTask, Calls!MockTask, Crm!AllFaults, Calls!AllFaults,
   Crm!AllOthers, Calls!AllOthers

CallsNext == [Calls!NextUntouched]_(Calls!vars)

LEMMA CallTypesKept ==
  ASSUME Calls!TypeInv, CallsNext
  PROVE  Calls!TypeInv'
BY CallsAssumption, Calls!TypeInvNext, Calls!UntouchedIsNext DEF CallsNext

LEMMA CallNamesKept ==
  ASSUME Calls!TypeInv, Calls!NamesInv(crm), CallsNext
  PROVE  Calls!NamesInv(crm)'
BY CallsAssumption, Calls!NamesNext, Calls!UntouchedIsNext DEF CallsNext

LEMMA MadeStays ==
  ASSUME Calls!TypeInv, CallsNext, NEW k, Made(k)
  PROVE  Made(k)'
<1>1. PICK t : Calls!NamedIn(crm, k, t)
  BY DEF Made
<1>2. Calls!NamedIn(crm', k, t)
  BY <1>1, CallsAssumption, Calls!NamesStay, Calls!UntouchedIsNext DEF CallsNext
<1>. QED
  BY <1>2 DEF Made, Calls!NamedIn

LEMMA OneTaskKept ==
  ASSUME Calls!OneAtATime, Calls!WithinPages, Calls!TypeInv, Calls!OneTaskInv,
         CallsNext
  PROVE  Calls!OneTaskInv'
BY CallsAssumption, Calls!OneTaskNext DEF CallsNext

-----------------------------------------------------------------------------
(***************************************************************************)
(* How a run goes on.                                                      *)
(***************************************************************************)
Begun == [NoRun EXCEPT !.stage = "collect"]

Collected(r, v) == [r EXCEPT !.stage = "classify", !.catalog = v]

Classified(r, ts) ==
  [r EXCEPT !.stage = IF ts = <<>> THEN "save" ELSE "crm", !.tasks = ts]

Ended(r, stage) == [r EXCEPT !.stage = stage]

Counted(r) ==
  [r EXCEPT !.made = r.made + 1,
            !.stage = IF r.made + 1 = Len(r.tasks) THEN "save" ELSE "crm"]

\* The tasks of a catalogue are a list of keys.
LEMMA TaskListsOK ==
  ASSUME NEW v \in Catalogs, NEW ts \in TaskLists(v)
  PROVE  ts \in Seq(Keys) /\ Len(ts) \in Nat /\ (ts # <<>> => Len(ts) > 0)
<1>. DEFINE premium == <<v, "premium">>
            economy == <<v, "economy">>
<1>1. premium \in Keys /\ economy \in Keys
  BY DEF Keys
<1>2. ts \in {<<>>, <<premium>>, <<economy>>, <<premium, economy>>}
  BY DEF TaskLists
<1>. HIDE DEF premium, economy
<1>3. <<>> \in Seq(Keys) /\ Len(<<>>) = 0
  OBVIOUS
<1>4. /\ <<premium>> \in Seq(Keys) /\ Len(<<premium>>) = 1
      /\ <<economy>> \in Seq(Keys) /\ Len(<<economy>>) = 1
  BY <1>1
<1>5. <<premium, economy>> \in Seq(Keys) /\ Len(<<premium, economy>>) = 2
  BY <1>1
<1>6. CASE ts = <<>>
  BY <1>3, <1>6
<1>7. CASE ts = <<premium>>
  BY <1>4, <1>7
<1>8. CASE ts = <<economy>>
  BY <1>4, <1>8
<1>9. CASE ts = <<premium, economy>>
  BY <1>5, <1>9
<1>. QED
  BY <1>2, <1>6, <1>7, <1>8, <1>9

LEMMA NoRunOK == NoRun \in Runs /\ RunOK(NoRun) /\ NoRun.made = 0
<1>1. <<>> \in Seq(Keys) /\ Len(<<>>) = 0
  OBVIOUS
<1>2. /\ NoRun.stage = "idle" /\ NoRun.catalog = None
      /\ NoRun.tasks = <<>> /\ NoRun.made = 0
  BY DEF NoRun
<1>3. NoRun \in Runs
  BY <1>1 DEF NoRun, Runs, Stages
<1>. QED
  BY <1>1, <1>2, <1>3 DEF RunOK

LEMMA BegunOK == Begun \in Runs /\ RunOK(Begun) /\ Begun.made = 0
<1>1. <<>> \in Seq(Keys) /\ Len(<<>>) = 0
  OBVIOUS
<1>2. /\ Begun.stage = "collect" /\ Begun.catalog = None
      /\ Begun.tasks = <<>> /\ Begun.made = 0 /\ Begun \in Runs
  BY <1>1 DEF Begun, NoRun, Runs, Stages
<1>. QED
  BY <1>1, <1>2 DEF RunOK

LEMMA CollectedOK ==
  ASSUME NEW r \in Runs, RunOK(r), r.stage = "collect", NEW v \in Catalogs
  PROVE  Collected(r, v) \in Runs /\ RunOK(Collected(r, v))
         /\ Collected(r, v).made = r.made
<1>1. /\ Collected(r, v) \in Runs
      /\ Collected(r, v).stage = "classify" /\ Collected(r, v).catalog = v
      /\ Collected(r, v).tasks = r.tasks /\ Collected(r, v).made = r.made
  BY DEF Collected, Runs, Stages
<1>. QED
  BY <1>1 DEF RunOK

LEMMA ClassifiedOK ==
  ASSUME NEW r \in Runs, RunOK(r), r.stage = "classify",
         NEW ts \in TaskLists(r.catalog)
  PROVE  Classified(r, ts) \in Runs /\ RunOK(Classified(r, ts))
         /\ Classified(r, ts).made = 0
<1>1. r.catalog \in Catalogs /\ r.made = 0 /\ ts \in Seq(Keys)
      /\ Len(ts) \in Nat /\ (ts # <<>> => Len(ts) > 0)
  <2>1. r.catalog \in Catalogs /\ r.tasks = <<>> /\ r.made <= Len(r.tasks)
    BY DEF RunOK
  <2>2. r.made = 0
    BY <2>1 DEF Runs
  <2>. QED
    BY <2>1, <2>2, TaskListsOK
<1>2. /\ Classified(r, ts) \in Runs
      /\ Classified(r, ts).stage = IF ts = <<>> THEN "save" ELSE "crm"
      /\ Classified(r, ts).catalog = r.catalog
      /\ Classified(r, ts).tasks = ts /\ Classified(r, ts).made = r.made
  BY <1>1 DEF Classified, Runs, Stages
<1>3. ts = <<>> => Len(ts) = 0
  OBVIOUS
<1>. QED
  BY <1>1, <1>2, <1>3 DEF RunOK

LEMMA EndedOK ==
  ASSUME NEW r \in Runs, RunOK(r), NEW stage \in {"failed", "completed"},
         stage = "completed" => r.stage = "save"
  PROVE  /\ Ended(r, stage) \in Runs /\ RunOK(Ended(r, stage))
         /\ Ended(r, stage).made = r.made /\ Ended(r, stage).tasks = r.tasks
<1>1. /\ Ended(r, stage) \in Runs
      /\ Ended(r, stage).stage = stage /\ Ended(r, stage).catalog = r.catalog
      /\ Ended(r, stage).tasks = r.tasks /\ Ended(r, stage).made = r.made
  BY DEF Ended, Runs, Stages
<1>. QED
  BY <1>1 DEF RunOK

LEMMA CountedOK ==
  ASSUME NEW r \in Runs, RunOK(r), r.stage = "crm"
  PROVE  /\ Counted(r) \in Runs /\ RunOK(Counted(r))
         /\ Counted(r).made = r.made + 1 /\ Counted(r).tasks = r.tasks
<1>1. /\ r.made < Len(r.tasks) /\ r.made \in Nat /\ Len(r.tasks) \in Nat
      /\ r.catalog \in Catalogs
  BY DEF RunOK, Runs
<1>. DEFINE made == r.made + 1
            stage == IF made = Len(r.tasks) THEN "save" ELSE "crm"
<1>2. made \in Nat /\ made <= Len(r.tasks) /\ stage \in {"save", "crm"}
  BY <1>1
<1>3. Counted(r) = [r EXCEPT !.made = made, !.stage = stage]
  BY DEF Counted
<1>4. /\ stage = "save" => made = Len(r.tasks)
      /\ stage = "crm" => made < Len(r.tasks)
  BY <1>1
<1>. HIDE DEF made, stage
<1>5. /\ Counted(r) \in Runs /\ Counted(r).made = made
      /\ Counted(r).stage = stage
      /\ Counted(r).catalog = r.catalog /\ Counted(r).tasks = r.tasks
  BY <1>2, <1>3 DEF Runs, Stages
<1>6. r.tasks # <<>> => r.tasks \in TaskLists(r.catalog)
  BY DEF RunOK
<1>7. RunOK(Counted(r))
  BY <1>1, <1>2, <1>4, <1>5, <1>6 DEF RunOK
<1>. QED
  BY <1>5, <1>7 DEF made

\* The key of a run's next task.
LEMMA NextKey ==
  ASSUME NEW r \in Runs, RunOK(r), r.stage = "crm"
  PROVE  r.tasks[r.made + 1] \in Keys
<1>1. r.made + 1 \in 1..Len(r.tasks) /\ r.tasks \in Seq(Keys)
  BY DEF RunOK, Runs
<1>. QED
  BY <1>1, ElementOfSeq

\* The updates of the model, as updates of one run.
LEMMA CollectedUpdate ==
  ASSUME NEW f \in [Callers -> Runs], NEW c \in Callers, NEW v
  PROVE  [f EXCEPT ![c].stage = "classify", ![c].catalog = v]
           = [f EXCEPT ![c] = Collected(f[c], v)]
BY DEF Collected, Runs

LEMMA ClassifiedUpdate ==
  ASSUME NEW f \in [Callers -> Runs], NEW c \in Callers, NEW ts
  PROVE  [f EXCEPT ![c].stage = IF ts = <<>> THEN "save" ELSE "crm",
                   ![c].tasks = ts]
           = [f EXCEPT ![c] = Classified(f[c], ts)]
BY DEF Classified, Runs

LEMMA CountedUpdate ==
  ASSUME NEW f \in [Callers -> Runs], NEW c \in Callers
  PROVE  [f EXCEPT ![c].made = f[c].made + 1,
                   ![c].stage = IF f[c].made + 1 = Len(f[c].tasks)
                                  THEN "save" ELSE "crm"]
           = [f EXCEPT ![c] = Counted(f[c])]
BY DEF Counted, Runs

-----------------------------------------------------------------------------
(***************************************************************************)
(* Each step keeps the runs and their calls together.                      *)
(***************************************************************************)

\* What a run makes and counts is in a step of its call.
LEMMA RunCalls ==
  ASSUME RunInv, [Next]_vars
  PROVE  CallsNext
<1>1. ASSUME NEW c \in Callers, CreateTask(c) PROVE CallsNext
  <2>. DEFINE k == run[c].tasks[run[c].made + 1]
  <2>1. PICK m \in MockModes : Crm!CreateTask(c, k, m)
    BY <1>1 DEF CreateTask
  <2>2. Calls!CreateTask(c, k, m)
    BY <2>1, SameCreateTask
  <2>3. k \in Keys
    BY <1>1, NextKey DEF CreateTask, RunInv
  <2>. HIDE DEF k
  <2>. QED
    BY <2>2, <2>3 DEF CallsNext, Calls!NextUntouched
<1>2. ASSUME NEW c \in Callers, Gateway(c) PROVE CallsNext
  BY <1>2, SameStep, SameStop DEF Gateway, CallsNext, Calls!NextUntouched
<1>3. CASE Crm!OthersCreate
  BY <1>3, SameOthersCreate DEF CallsNext, Calls!NextUntouched
<1>4. CASE UNCHANGED crmVars
  BY <1>4 DEF crmVars, CallsNext, Calls!vars
<1>. QED
  BY <1>1, <1>2, <1>3, <1>4
     DEF Next, RunStep, Start, Collect, Classify, Save, Fail, vars, crmVars

\* The run of c becomes r, with no step of another call.
LEMMA RunBecomes ==
  ASSUME RunInv, Calls!TypeInv', NEW c \in Callers, NEW r \in Runs, RunOK(r),
         run' = [run EXCEPT ![c] = r],
         \A b \in Callers \ {c} : call'[b] = call[b] /\ outcome'[b] = outcome[b],
         call'[c].pc # "idle" =>
           /\ r.stage = "crm"
           /\ call'[c].key = r.tasks[r.made + 1]
           /\ outcome'[c] = None,
         OutputOK'
  PROVE  /\ RunInv' /\ run'[c] = r
         /\ \A b \in Callers \ {c} : run'[b] = run[b]
<1>1. /\ run' \in [Callers -> Runs] /\ run'[c] = r
      /\ \A b \in Callers \ {c} : run'[b] = run[b]
  BY DEF RunInv
<1>2. ASSUME NEW b \in Callers PROVE RunOK(run'[b]) /\ CallOfRun(b)'
  <2>1. CASE b = c
    BY <1>1, <2>1 DEF CallOfRun
  <2>2. CASE b # c
    BY <1>1, <2>2 DEF RunInv, CallOfRun
  <2>. QED
    BY <2>1, <2>2
<1>. QED
  BY <1>1, <1>2 DEF RunInv, RunOK

\* The made tasks of run r are made tasks of s as well.
Moved(r, s) == s.made = 0 \/ (s.made = r.made /\ s.tasks = r.tasks)

\* The steps of a run that is not in a call.
LEMMA StartKeeps ==
  ASSUME RunInv, Calls!TypeInv', NEW c \in Callers, Start(c)
  PROVE  RunInv' /\ \A b \in Callers : Moved(run[b], run'[b])
<1>1. run' = [run EXCEPT ![c] = Begun] /\ UNCHANGED <<call, outcome, output>>
  BY DEF Start, Begun, crmVars
<1>2. call[c].pc = "idle"
  BY DEF Start, RunInv, CallOfRun
<1>6. OutputOK'
  BY <1>1 DEF RunInv, OutputOK
<1>3. RunInv' /\ run'[c] = Begun /\ \A b \in Callers \ {c} : run'[b] = run[b]
  BY <1>1, <1>2, <1>6, BegunOK, RunBecomes
<1>. QED
  BY <1>3, BegunOK DEF Moved

LEMMA CollectKeeps ==
  ASSUME RunInv, Calls!TypeInv', NEW c \in Callers, Collect(c)
  PROVE  RunInv' /\ \A b \in Callers : Moved(run[b], run'[b])
<1>0. run \in [Callers -> Runs] /\ run[c] \in Runs /\ RunOK(run[c])
  BY DEF RunInv
<1>1. PICK v \in Catalogs :
        run' = [run EXCEPT ![c].stage = "classify", ![c].catalog = v]
  BY DEF Collect
<1>2. /\ run' = [run EXCEPT ![c] = Collected(run[c], v)]
      /\ UNCHANGED <<call, outcome, output>>
  BY <1>0, <1>1, CollectedUpdate DEF Collect, crmVars
<1>3. call[c].pc = "idle" /\ run[c].made = 0
  BY <1>0 DEF Collect, RunInv, CallOfRun, RunOK, Runs
<1>4. /\ Collected(run[c], v) \in Runs /\ RunOK(Collected(run[c], v))
      /\ Collected(run[c], v).made = 0
  BY <1>0, <1>3, CollectedOK DEF Collect
<1>6. OutputOK'
  BY <1>2 DEF RunInv, OutputOK
<1>5. /\ RunInv' /\ run'[c] = Collected(run[c], v)
      /\ \A b \in Callers \ {c} : run'[b] = run[b]
  BY <1>2, <1>3, <1>4, <1>6, RunBecomes
<1>. QED
  BY <1>4, <1>5 DEF Moved

LEMMA ClassifyKeeps ==
  ASSUME RunInv, Calls!TypeInv', NEW c \in Callers, Classify(c)
  PROVE  RunInv' /\ \A b \in Callers : Moved(run[b], run'[b])
<1>0. run \in [Callers -> Runs] /\ run[c] \in Runs /\ RunOK(run[c])
  BY DEF RunInv
<1>1. PICK ts \in TaskLists(run[c].catalog) :
        run' = [run EXCEPT ![c].stage = IF ts = <<>> THEN "save" ELSE "crm",
                           ![c].tasks = ts]
  BY DEF Classify
<1>2. /\ run' = [run EXCEPT ![c] = Classified(run[c], ts)]
      /\ UNCHANGED <<call, outcome, output>>
  BY <1>0, <1>1, ClassifiedUpdate DEF Classify, crmVars
<1>3. call[c].pc = "idle"
  BY DEF Classify, RunInv, CallOfRun
<1>4. /\ Classified(run[c], ts) \in Runs /\ RunOK(Classified(run[c], ts))
      /\ Classified(run[c], ts).made = 0
  BY <1>0, ClassifiedOK DEF Classify
<1>6. OutputOK'
  BY <1>2 DEF RunInv, OutputOK
<1>5. /\ RunInv' /\ run'[c] = Classified(run[c], ts)
      /\ \A b \in Callers \ {c} : run'[b] = run[b]
  BY <1>2, <1>3, <1>4, <1>6, RunBecomes
<1>. QED
  BY <1>4, <1>5 DEF Moved

LEMMA SaveKeeps ==
  ASSUME RunInv, Calls!TypeInv', NEW c \in Callers, Save(c)
  PROVE  RunInv' /\ \A b \in Callers : Moved(run[b], run'[b])
<1>0. run \in [Callers -> Runs] /\ run[c] \in Runs /\ RunOK(run[c])
  BY DEF RunInv
<1>. DEFINE r == Ended(run[c], "completed")
<1>1. run' = [run EXCEPT ![c] = r] /\ UNCHANGED <<call, outcome>>
  <2>1. [run EXCEPT ![c].stage = "completed"] = [run EXCEPT ![c] = r]
    BY <1>0 DEF Ended, Runs
  <2>. QED
    BY <2>1 DEF Save, crmVars
<1>2. call[c].pc = "idle"
  BY DEF Save, RunInv, CallOfRun
<1>3. r \in Runs /\ RunOK(r) /\ r.made = run[c].made /\ r.tasks = run[c].tasks
  BY <1>0, EndedOK DEF Save
<1>4. OutputOK'
  <2>1. run[c].catalog \in Catalogs /\ run[c].tasks \in TaskLists(run[c].catalog)
    <3>1. CASE run[c].tasks = <<>>
      BY <1>0, <3>1 DEF Save, RunOK, TaskLists
    <3>. QED
      BY <1>0, <3>1 DEF Save, RunOK
  <2>. QED
    BY <2>1 DEF Save, OutputOK
<1>. HIDE DEF r
<1>5. RunInv' /\ run'[c] = r /\ \A b \in Callers \ {c} : run'[b] = run[b]
  BY <1>1, <1>2, <1>3, <1>4, RunBecomes
<1>. QED
  BY <1>3, <1>5 DEF Moved

LEMMA FailKeeps ==
  ASSUME RunInv, Calls!TypeInv', NEW c \in Callers, Fail(c)
  PROVE  RunInv' /\ \A b \in Callers : Moved(run[b], run'[b])
<1>0. run \in [Callers -> Runs] /\ run[c] \in Runs /\ RunOK(run[c])
  BY DEF RunInv
<1>. DEFINE r == Ended(run[c], "failed")
<1>1. run' = [run EXCEPT ![c] = r] /\ UNCHANGED <<call, outcome, output>>
  <2>1. [run EXCEPT ![c].stage = "failed"] = [run EXCEPT ![c] = r]
    BY <1>0 DEF Ended, Runs
  <2>. QED
    BY <2>1 DEF Fail, crmVars
<1>2. call[c].pc = "idle"
  BY DEF Fail
<1>3. r \in Runs /\ RunOK(r) /\ r.made = run[c].made /\ r.tasks = run[c].tasks
  BY <1>0, EndedOK
<1>. HIDE DEF r
<1>6. OutputOK'
  BY <1>1 DEF RunInv, OutputOK
<1>4. RunInv' /\ run'[c] = r /\ \A b \in Callers \ {c} : run'[b] = run[b]
  BY <1>1, <1>2, <1>3, <1>6, RunBecomes
<1>. QED
  BY <1>3, <1>4 DEF Moved

LEMMA CreateTaskKeeps ==
  ASSUME RunInv, Calls!TypeInv', NEW c \in Callers, CreateTask(c)
  PROVE  RunInv' /\ \A b \in Callers : Moved(run[b], run'[b])
<1>. DEFINE k == run[c].tasks[run[c].made + 1]
<1>0. run \in [Callers -> Runs] /\ run[c] \in Runs /\ RunOK(run[c])
  BY DEF RunInv
<1>1. PICK m \in MockModes : Calls!CreateTask(c, k, m)
  BY SameCreateTask DEF CreateTask
<1>2. /\ call \in [Callers -> Calls!Call]
      /\ outcome \in [Callers -> Calls!Outcome \cup {None}]
  BY DEF RunInv, Calls!TypeInv, Calls!TypeOK
<1>. HIDE DEF k
<1>3. /\ \A b \in Callers \ {c} : call'[b] = call[b] /\ outcome'[b] = outcome[b]
      /\ outcome'[c] = None
  BY <1>1, <1>2 DEF Calls!CreateTask
<1>4. call'[c].key = k
  <2>1. Calls!NewCall(k, m).key = k
    BY DEF Calls!NewCall, Calls!IdleCall
  <2>2. Calls!Creating(Calls!NewCall(k, m)).key = k
    BY <2>1 DEF Calls!Creating, Calls!Holding, Calls!NewCall, Calls!IdleCall
  <2>. QED
    BY <1>1, <1>2, <2>1, <2>2 DEF Calls!CreateTask
<1>5. run[c].stage = "crm" /\ UNCHANGED <<run, output>>
  BY DEF CreateTask
<1>6. OutputOK' /\ run' = [run EXCEPT ![c] = run[c]]
  BY <1>0, <1>5 DEF RunInv, OutputOK
<1>7. RunInv'
  BY <1>0, <1>3, <1>4, <1>5, <1>6, RunBecomes DEF k
<1>. QED
  BY <1>5, <1>7 DEF Moved

\* A step of the call either leaves its run alone, ends it, or counts a task
\* that the call has just given an outcome for.
CountsTask(c) ==
  /\ Calls!Step(c) \/ Calls!Stop(c)
  /\ outcome[c] = None /\ outcome'[c] # None
  /\ run[c].stage = "crm" /\ call[c].key = run[c].tasks[run[c].made + 1]
  /\ run'[c].made = run[c].made + 1 /\ run'[c].tasks = run[c].tasks

LEMMA GatewayKeeps ==
  ASSUME RunInv, Calls!TypeInv', NEW c \in Callers, Gateway(c)
  PROVE  /\ RunInv' /\ (Moved(run[c], run'[c]) \/ CountsTask(c))
         /\ \A b \in Callers \ {c} : run'[b] = run[b]
<1>0. run \in [Callers -> Runs] /\ run[c] \in Runs /\ RunOK(run[c])
  BY DEF RunInv
<1>1. Calls!Step(c) \/ Calls!Stop(c)
  BY SameStep, SameStop DEF Gateway
<1>2. /\ run[c].stage = "crm" /\ outcome[c] = None
      /\ call[c].key = run[c].tasks[run[c].made + 1]
  BY DEF Gateway, RunInv, CallOfRun
<1>3. Calls!TypeInv
  BY DEF RunInv
<1>4. /\ \A b \in Callers \ {c} : call'[b] = call[b]
      /\ call'[c].pc # "idle" => call'[c].key = call[c].key
  BY <1>1, <1>3, CallsAssumption, Calls!StepCalls
<1>5. /\ \A b \in Callers \ {c} : outcome'[b] = outcome[b]
      /\ outcome'[c] = outcome[c] \/ call'[c].pc = "idle"
  BY <1>1, <1>3, CallsAssumption, Calls!StepOutcomes
<1>6. OutputOK'
  BY DEF Gateway, RunInv, OutputOK
<1>7. CASE call'[c].pc # "idle"
  <2>1. run' = run
    BY <1>7 DEF Gateway
  <2>2. run' = [run EXCEPT ![c] = run[c]]
    BY <1>0, <2>1
  <2>3. RunInv'
    BY <1>0, <1>2, <1>4, <1>5, <1>6, <1>7, <2>2, RunBecomes
  <2>. QED
    BY <2>1, <2>3 DEF Moved
<1>8. CASE call'[c].pc = "idle" /\ outcome'[c] = None
  <2>. DEFINE r == Ended(run[c], "failed")
  <2>1. run' = [run EXCEPT ![c] = r]
    <3>1. [run EXCEPT ![c].stage = "failed"] = [run EXCEPT ![c] = r]
      BY <1>0 DEF Ended, Runs
    <3>. QED
      BY <1>8, <3>1 DEF Gateway, Continue
  <2>2. r \in Runs /\ RunOK(r) /\ r.made = run[c].made /\ r.tasks = run[c].tasks
    BY <1>0, EndedOK
  <2>. HIDE DEF r
  <2>3. RunInv' /\ run'[c] = r /\ \A b \in Callers \ {c} : run'[b] = run[b]
    BY <1>4, <1>5, <1>6, <1>8, <2>1, <2>2, RunBecomes
  <2>. QED
    BY <2>2, <2>3 DEF Moved
<1>9. CASE call'[c].pc = "idle" /\ outcome'[c] # None
  <2>. DEFINE r == Counted(run[c])
  <2>1. run' = [run EXCEPT ![c] = r]
    <3>1. [run EXCEPT ![c].made = run[c].made + 1,
                      ![c].stage = IF run[c].made + 1 = Len(run[c].tasks)
                                     THEN "save" ELSE "crm"]
            = [run EXCEPT ![c] = r]
      BY <1>0, CountedUpdate
    <3>. QED
      BY <1>9, <3>1 DEF Gateway, Continue
  <2>2. /\ r \in Runs /\ RunOK(r)
        /\ r.made = run[c].made + 1 /\ r.tasks = run[c].tasks
    BY <1>0, <1>2, CountedOK
  <2>. HIDE DEF r
  <2>3. RunInv' /\ run'[c] = r /\ \A b \in Callers \ {c} : run'[b] = run[b]
    BY <1>4, <1>5, <1>6, <1>9, <2>1, <2>2, RunBecomes
  <2>. QED
    BY <1>1, <1>2, <1>9, <2>2, <2>3 DEF CountsTask
<1>. QED
  BY <1>7, <1>8, <1>9

-----------------------------------------------------------------------------
(***************************************************************************)
(* Type correctness.                                                       *)
(***************************************************************************)
LEMMA RunInvInit == Init => RunInv
<1>. SUFFICES ASSUME Init PROVE RunInv
  OBVIOUS
<1>1. Calls!Init
  BY CallsBegin DEF Init
<1>2. Calls!TypeInv
  BY <1>1, CallsAssumption, Calls!TypeInvInit
<1>3. run \in [Callers -> Runs] /\ \A c \in Callers : run[c] = NoRun
  BY NoRunOK DEF Init
<1>4. \A c \in Callers : call[c].pc = "idle"
  BY <1>1 DEF Calls!Init, Calls!IdleCall
<1>. QED
  BY <1>2, <1>3, <1>4, NoRunOK DEF RunInv, CallOfRun, OutputOK, Init

\* RunInv is kept, and each run keeps its tasks or counts one.
LEMMA RunInvNext ==
  ASSUME RunInv, [Next]_vars
  PROVE  RunInv' /\ \A b \in Callers : Moved(run[b], run'[b]) \/ CountsTask(b)
<1>1. Calls!TypeInv'
  BY RunCalls, CallTypesKept DEF RunInv
<1>2. ASSUME NEW c \in Callers, Start(c) \/ RunStep(c) \/ Fail(c)
      PROVE  /\ RunInv'
             /\ \A b \in Callers : Moved(run[b], run'[b]) \/ CountsTask(b)
  <2>1. CASE Gateway(c)
    <3>1. /\ RunInv' /\ (Moved(run[c], run'[c]) \/ CountsTask(c))
          /\ \A b \in Callers \ {c} : run'[b] = run[b]
      BY <1>1, <2>1, GatewayKeeps
    <3>. QED
      BY <3>1 DEF Moved
  <2>. QED
    BY <1>1, <1>2, <2>1, StartKeeps, CollectKeeps, ClassifyKeeps, CreateTaskKeeps,
       SaveKeeps, FailKeeps DEF RunStep
<1>3. ASSUME UNCHANGED <<call, outcome, run, output>> PROVE RunInv'
  BY <1>1, <1>3 DEF RunInv, CallOfRun, OutputOK
<1>4. CASE Crm!OthersCreate /\ UNCHANGED <<run, output>>
  BY <1>3, <1>4 DEF Crm!OthersCreate, Moved
<1>5. CASE UNCHANGED vars
  BY <1>3, <1>5 DEF vars, crmVars, Moved
<1>. QED
  BY <1>2, <1>4, <1>5 DEF Next

LEMMA AlwaysRunInv == Spec => []RunInv
<1>1. RunInv /\ [Next]_vars => RunInv'
  BY RunInvNext
<1>. QED
  BY <1>1, RunInvInit, PTL DEF Spec

\* Every run, whatever fails in it, has the tasks of what it collected and
\* counts no more of them than it has.
THEOREM RunTypes == Spec => []TypeOK
<1>1. RunInv => TypeOK
  <2>. SUFFICES ASSUME RunInv PROVE TypeOK
    OBVIOUS
  <2>1. Crm!TypeOK
    BY SameTypes DEF RunInv, Calls!TypeInv
  <2>2. ASSUME NEW c \in Callers
        PROVE  /\ run[c].stage \in Stages
               /\ run[c].catalog \in Catalogs \cup {None}
               /\ run[c].made \in 0..Len(run[c].tasks)
               /\ run[c].tasks # <<>> => run[c].tasks \in TaskLists(run[c].catalog)
    <3>1. run[c] \in Runs /\ RunOK(run[c])
      BY DEF RunInv
    <3>. QED
      BY <3>1 DEF Runs, RunOK
  <2>. QED
    BY <2>1, <2>2 DEF TypeOK, RunInv, OutputOK
<1>. QED
  BY <1>1, AlwaysRunInv, PTL

-----------------------------------------------------------------------------
(***************************************************************************)
(* Runs after one another make no task twice.                              *)
(***************************************************************************)
LEMMA SameTasksOf == \A k : Crm!TasksOf(k) = Calls!TasksOf(k)
BY DEF Crm!TasksOf, Calls!TasksOf

\* However the runs that follow one another fail, with requests retried and
\* whatever others add, AmoCRM has at most one task per key.  It takes the
\* search (OneAtATime: CRM_IDEMPOTENCY_ENABLED, one run at a time, and no POST
\* that made a task is retried for want of an answer), and an account whose
\* tasks are within the pages that the search reads (WithinPages).
THEOREM RunsMakeNoDuplicate ==
  ASSUME Calls!OneAtATime, Calls!WithinPages
  PROVE  Spec => []NoDuplicateTask
<1>1. Init => Calls!OneTaskInv
  BY CallsAssumption, CallsBegin, Calls!OneTaskInit DEF Init
<1>2. RunInv /\ Calls!OneTaskInv /\ [Next]_vars => Calls!OneTaskInv'
  BY RunCalls, OneTaskKept DEF RunInv
<1>3. Calls!OneTaskInv => NoDuplicateTask
  <2>1. Calls!OneTaskInv => Calls!NoDuplicateTask
    BY CallsAssumption, Calls!OneTaskEach
  <2>. QED
    BY <2>1 DEF NoDuplicateTask, Crm!NoDuplicateTask, Calls!NoDuplicateTask,
           Crm!TasksOf, Calls!TasksOf, Crm!Cardinality, Calls!Cardinality
<1>. QED
  BY <1>1, <1>2, <1>3, AlwaysRunInv, PTL DEF Spec

-----------------------------------------------------------------------------
(***************************************************************************)
(* What is saved is in AmoCRM.                                             *)
(***************************************************************************)

\* A step of a real call that gives it an outcome leaves its task in AmoCRM.
LEMMA CountedIsMade ==
  ASSUME RunInv, TasksInv, RunInv', Calls!NamesInv(crm)', NEW c \in Callers,
         CountsTask(c), NEW k, k = run[c].tasks[run[c].made + 1]
  PROVE  Made(k)'
<1>1. /\ Calls!Step(c) \/ Calls!Stop(c)
      /\ outcome'[c] # outcome[c] /\ outcome'[c] # None /\ call[c].key = k
  BY DEF CountsTask
<1>2. Calls!TypeInv /\ Calls!TypeInv' /\ Calls!NoMocks
  BY DEF RunInv, TasksInv
<1>3. Calls!NamedIn(crm', call[c].key, outcome'[c].task)
  BY <1>1, <1>2, CallsAssumption, Calls!RealOutcome
<1>4. \E t : Calls!NamedIn(crm', k, t)
  BY <1>1, <1>3
<1>. QED
  BY <1>4 DEF Made, Calls!NamedIn

LEMMA TasksInvInit == Init => TasksInv
<1>. SUFFICES ASSUME Init PROVE TasksInv
  OBVIOUS
<1>1. Calls!Init
  BY CallsBegin DEF Init
<1>2. Calls!NamesInv(crm) /\ Calls!NoMocks
  BY <1>1, CallsAssumption, Calls!NamesInit, Calls!NoMocksInit
<1>3. \A c \in Callers : run[c].made = 0
  BY DEF Init, NoRun
<1>. QED
  BY <1>2, <1>3 DEF TasksInv, Init

LEMMA TasksInvNext ==
  ASSUME MockModes \subseteq {FALSE}, RunInv, TasksInv, [Next]_vars
  PROVE  TasksInv'
<1>1. /\ RunInv' /\ \A c \in Callers : Moved(run[c], run'[c]) \/ CountsTask(c)
      /\ CallsNext /\ Calls!TypeInv /\ Calls!NamesInv(crm) /\ Calls!NoMocks
  BY RunInvNext, RunCalls DEF RunInv, TasksInv
<1>2. Calls!NamesInv(crm)'
  BY <1>1, CallNamesKept
<1>3. Calls!NoMocks'
  BY <1>1, CallsAssumption, Calls!NoMocksNext, Calls!UntouchedIsNext DEF CallsNext
<1>4. ASSUME NEW k, Made(k) PROVE Made(k)'
  BY <1>1, <1>4, MadeStays
<1>5. \A c \in Callers : /\ run[c] \in Runs /\ RunOK(run[c])
                         /\ \A i \in 1..run[c].made : Made(run[c].tasks[i])
  BY DEF RunInv, TasksInv
<1>6. ASSUME NEW c \in Callers, NEW i \in 1..run'[c].made, NEW k,
             k = run'[c].tasks[i]
      PROVE  Made(k)'
  <2>1. CASE Moved(run[c], run'[c])
    <3>1. run'[c].made = run[c].made /\ run'[c].tasks = run[c].tasks
      BY <1>6, <2>1 DEF Moved
    <3>. QED
      BY <1>4, <1>5, <1>6, <3>1
  <2>2. CASE CountsTask(c)
    <3>1. /\ run'[c].made = run[c].made + 1 /\ run'[c].tasks = run[c].tasks
          /\ run[c].made \in Nat
      BY <1>5, <2>2 DEF CountsTask, Runs
    <3>2. CASE i = run[c].made + 1
      BY <1>1, <1>2, <1>6, <2>2, <3>1, <3>2, CountedIsMade
    <3>3. CASE i \in 1..run[c].made
      BY <1>4, <1>5, <1>6, <3>1, <3>3
    <3>. QED
      BY <3>1, <3>2, <3>3
  <2>. QED
    BY <1>1, <2>1, <2>2
<1>7. ASSUME output' # None, NEW i \in DOMAIN output'.tasks, NEW k,
             k = output'.tasks[i]
      PROVE  Made(k)'
  <2>1. CASE output' = output
    BY <1>4, <1>7, <2>1 DEF TasksInv
  <2>2. ASSUME NEW c \in Callers, Save(c) PROVE Made(k)'
    <3>1. output'.tasks = run[c].tasks /\ run[c].stage = "save"
      BY <2>2 DEF Save
    <3>2. /\ run[c].made = Len(run[c].tasks)
          /\ DOMAIN run[c].tasks = 1..Len(run[c].tasks)
      BY <1>5, <3>1 DEF RunOK, Runs
    <3>. QED
      BY <1>4, <1>5, <1>7, <3>1, <3>2
  <2>. QED
    BY <2>1, <2>2 DEF Next, RunStep, Start, Collect, Classify, CreateTask, Gateway,
                      Fail, vars
<1>. QED
  BY <1>2, <1>3, <1>6, <1>7 DEF TasksInv

\* Runs without MOCK_CRM, however many at once and whatever fails in them,
\* save an output or count as completed only when AmoCRM has every task that
\* was built from what they collected.
THEOREM OutputsHaveTheirTasks ==
  ASSUME MockModes \subseteq {FALSE}
  PROVE  Spec => []OutputHasItsTasks
<1>1. RunInv /\ TasksInv /\ [Next]_vars => TasksInv'
  BY TasksInvNext
<1>2. RunInv /\ TasksInv => OutputHasItsTasks
  <2>. SUFFICES ASSUME RunInv, TasksInv PROVE OutputHasItsTasks
    OBVIOUS
  <2>1. ASSUME NEW k, Made(k) PROVE Crm!TasksOf(k) # {}
    BY <2>1 DEF Made, Calls!NamedIn, Crm!TasksOf
  <2>2. output # None => \A i \in DOMAIN output.tasks : Made(output.tasks[i])
    BY DEF TasksInv
  <2>3. ASSUME NEW c \in Callers, run[c].stage = "completed",
               NEW i \in DOMAIN run[c].tasks
        PROVE  Made(run[c].tasks[i])
    <3>1. run[c] \in Runs /\ RunOK(run[c])
      BY DEF RunInv
    <3>2. run[c].made = Len(run[c].tasks) /\ DOMAIN run[c].tasks = 1..Len(run[c].tasks)
      BY <2>3, <3>1 DEF RunOK, Runs
    <3>. QED
      BY <2>3, <3>2 DEF TasksInv
  <2>. QED
    BY <2>1, <2>2, <2>3 DEF OutputHasItsTasks, InCrm
<1>. QED
  BY <1>1, <1>2, TasksInvInit, AlwaysRunInv, PTL DEF Spec
=============================================================================
