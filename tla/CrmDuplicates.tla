--------------------------- MODULE CrmDuplicates ---------------------------
(***************************************************************************)
(* CrmGateway with a history of the tasks that a call ought to find: those *)
(* with its key that AmoCRM had when the call began and that have stayed,  *)
(* untouched, within the pages that the search reads.  It tells the        *)
(* duplicates that the search prevents from those that no search could:    *)
(* of calls that overlap, of an answer that is lost, of a task that moves  *)
(* or is out of reach.                                                     *)
(***************************************************************************)
EXTENDS CrmGateway

VARIABLE known    \* known[c]: the ids of the tasks that c's call ought to find

historyVars == <<vars, known>>

-----------------------------------------------------------------------------
HistoryInit == Init /\ known = [c \in Callers |-> {}]

Reach == PageSize * MaxPages

\* The ids of the tasks with key k among the tasks of list s within reach.
WithinReach(s, k) ==
  {s[i].id : i \in {j \in DOMAIN s : j <= Reach /\ s[j].marker = k}}

\* A call begins and knows what there is to find.
CreateTaskH(c, k, m) ==
  /\ CreateTask(c, k, m)
  /\ known' = [known EXCEPT ![c] = WithinReach(crm, k)]

\* Calls go on knowing what is still within reach, but for the tasks in moved.
StillKnown(moved) ==
  known' = [c \in Callers |->
              IF call'[c].pc = "idle"
                THEN {}
                ELSE (known[c] \cap WithinReach(crm', call[c].key)) \ moved]

StepH(c) == Step(c) /\ StillKnown({})

StopH(c) == Stop(c) /\ StillKnown({})

OthersCreateH == OthersCreate /\ StillKnown({})

\* The task that is edited comes first, maybe to a page read before.
OthersTouchH == OthersTouch /\ StillKnown({crm'[1].id})

HistoryNext ==
  \/ \E c \in Callers :
       \/ \E k \in Keys, m \in MockModes : CreateTaskH(c, k, m)
       \/ StepH(c)
       \/ StopH(c)
  \/ OthersCreateH
  \/ OthersTouchH

HistorySpec == HistoryInit /\ [][HistoryNext]_historyVars

-----------------------------------------------------------------------------
\* "Idempotency store prevents duplicate POST", with or without a record and
\* however the list grows and is reordered between two page requests: a call
\* posts only if there is no task of its key that a search could have relied on.
NoAvoidableDuplicate ==
  \A c \in Callers : Enabled /\ call[c].pc = "post" => known[c] = {}
=============================================================================
