-------------------------- MODULE CrmGatewayProofs --------------------------
(***************************************************************************)
(* Theorems about CrmGateway and, with the history of CrmDuplicates, about *)
(* its duplicates, for any number of callers, keys and tasks, with any     *)
(* page limits and retries, under all faults, whatever others do to the    *)
(* account, and with runs that switch MOCK_CRM on and off.                 *)
(***************************************************************************)
EXTENDS CrmDuplicates, SequenceTheorems, FiniteSetTheorems, TLAPS

-----------------------------------------------------------------------------
(***************************************************************************)
(* Type correctness.                                                       *)
(***************************************************************************)

LEMMA IdleCallOK == IdleCall \in Call /\ IdleCall.pc = "idle"
BY LimitsAssumption DEF IdleCall, Call

\* What the operators on calls in progress return.
LEMMA HoldingOK ==
  ASSUME NEW d \in Call, NEW t \in TaskIds, NEW b \in BOOLEAN
  PROVE  /\ Holding(d, t, b) \in Call
         /\ Holding(d, t, b).pc = "put"
         /\ Holding(d, t, b).key = d.key
         /\ Holding(d, t, b).mock = d.mock
         /\ Holding(d, t, b).task = t
BY DEF Holding, Call

LEMMA NewCallOK ==
  ASSUME NEW k \in Keys, NEW m \in BOOLEAN
  PROVE  /\ NewCall(k, m) \in Call
         /\ NewCall(k, m).pc = "get"
         /\ NewCall(k, m).key = k
         /\ NewCall(k, m).mock = m
BY IdleCallOK DEF NewCall, Call

LEMMA GoesTo ==
  ASSUME NEW d \in Call,
         NEW pc \in {"idle", "get", "scan", "post", "put", "save"}
  PROVE  /\ [d EXCEPT !.pc = pc] \in Call
         /\ [d EXCEPT !.pc = pc].pc = pc
         /\ [d EXCEPT !.pc = pc].key = d.key
         /\ [d EXCEPT !.pc = pc].mock = d.mock
         /\ [d EXCEPT !.pc = pc].task = d.task
BY DEF Call

LEMMA CreatingOK ==
  ASSUME NEW d \in Call, d.key \in Keys
  PROVE  /\ Creating(d) \in Call
         /\ Creating(d).key = d.key
         /\ Creating(d).mock = d.mock
         /\ Creating(d).pc \in {"put", "post"}
         /\ Creating(d).pc = "put" => d.mock /\ Creating(d).task = MockTask(d.key)
<1>1. MockTask(d.key) \in TaskIds
  BY DEF TaskIds
<1>2. CASE d.mock
  BY <1>1, <1>2, HoldingOK DEF Creating
<1>3. CASE ~d.mock
  BY <1>3, GoesTo DEF Creating
<1>. QED
  BY <1>2, <1>3

\* A list of tasks with a new first one.
LEMMA Prepended ==
  ASSUME NEW s \in Seq(CrmTask), NEW t \in CrmTask
  PROVE  /\ <<t>> \o s \in Seq(CrmTask)
         /\ \A i \in DOMAIN s : /\ i + 1 \in DOMAIN (<<t>> \o s)
                                /\ (<<t>> \o s)[i + 1] = s[i]
         /\ 1 \in DOMAIN (<<t>> \o s)
         /\ (<<t>> \o s)[1] = t
<1>1. <<t>> \in Seq(CrmTask) /\ Len(<<t>>) = 1 /\ <<t>>[1] = t
  OBVIOUS
<1>2. /\ <<t>> \o s \in Seq(CrmTask)
      /\ Len(<<t>> \o s) = 1 + Len(s)
      /\ \A i \in 1 .. 1 + Len(s) :
           (<<t>> \o s)[i] = IF i <= 1 THEN <<t>>[i] ELSE s[i - 1]
  BY <1>1, ConcatProperties
<1>3. /\ DOMAIN s = 1..Len(s) /\ Len(s) \in Nat
      /\ DOMAIN (<<t>> \o s) = 1..(1 + Len(s))
  BY <1>2, LenProperties
<1>4. \A i \in 1..Len(s) : /\ i + 1 \in 1..(1 + Len(s))
                           /\ (<<t>> \o s)[i + 1] = s[i]
  <2>. TAKE i \in 1..Len(s)
  <2>1. i + 1 \in 1..(1 + Len(s)) /\ ~(i + 1 <= 1) /\ (i + 1) - 1 = i
    BY <1>3
  <2>. QED
    BY <2>1, <1>2
<1>. QED
  BY <1>1, <1>2, <1>3, <1>4

\* A list of tasks whose i-th moved to the front.
LEMMA Touched ==
  ASSUME NEW s \in Seq(CrmTask), NEW i \in DOMAIN s
  PROVE  /\ ToFront(s, i) \in Seq(CrmTask)
         /\ \A j \in DOMAIN s : \E l \in DOMAIN ToFront(s, i) :
              ToFront(s, i)[l] = s[j]
<1>. DEFINE t == ToFront(s, i)
<1>1. DOMAIN s = 1..Len(s) /\ Len(s) \in Nat /\ \A j \in 1..Len(s) : s[j] \in CrmTask
  BY LenProperties, ElementOfSeq
<1>2. i \in 1..Len(s)
  BY <1>1
<1>3. \A j \in 1..Len(s) : t[j] = IF j = 1 THEN s[i]
                                  ELSE IF j <= i THEN s[j - 1] ELSE s[j]
  BY <1>1 DEF ToFront
<1>4. \A j \in 1..Len(s) : t[j] \in CrmTask
  <2>. TAKE j \in 1..Len(s)
  <2>1. j # 1 => j - 1 \in 1..Len(s)
    BY <1>1
  <2>. QED
    BY <2>1, <1>1, <1>2, <1>3
<1>5. t \in [1..Len(s) -> CrmTask]
  BY <1>1, <1>4 DEF ToFront
<1>6. t \in Seq(CrmTask)
  BY <1>1, <1>5
<1>7. ASSUME NEW j \in 1..Len(s) PROVE \E l \in 1..Len(s) : t[l] = s[j]
  <2>1. CASE j = i
    <3>1. 1 \in 1..Len(s) /\ t[1] = s[j]
      BY <1>1, <1>2, <1>3, <2>1
    <3>. QED
      BY <3>1
  <2>2. CASE j < i
    <3>1. j + 1 \in 1..Len(s) /\ t[j + 1] = s[j]
      BY <1>1, <1>2, <1>3, <2>2
    <3>. QED
      BY <3>1
  <2>3. CASE j > i
    <3>1. t[j] = s[j]
      BY <1>1, <1>2, <1>3, <2>3
    <3>. QED
      BY <3>1
  <2>. QED
    BY <1>1, <1>2, <2>1, <2>2, <2>3
<1>. QED
  BY <1>1, <1>5, <1>6, <1>7

\* A call that was entered has a key, and one that records has an id.
Bound(d) ==
  /\ d.pc # "idle" => d.key \in Keys
  /\ d.pc \in {"put", "save"} => d.task \in TaskIds

TypeInv == TypeOK /\ \A c \in Callers : Bound(call[c])

LEMMA TypeInvInit == Init => TypeInv
<1>. SUFFICES ASSUME Init PROVE TypeInv
  OBVIOUS
<1>1. call \in [Callers -> Call] /\ \A c \in Callers : Bound(call[c])
  BY IdleCallOK DEF Init, Bound
<1>2. crm \in Seq(CrmTask)
  BY DEF Init
<1>3. /\ store \in [Keys -> TaskIds \cup {None}]
      /\ outcome \in [Callers -> Outcome \cup {None}]
  BY DEF Init
<1>. QED
  BY <1>1, <1>2, <1>3 DEF TypeInv, TypeOK

\* A step that gives one call another value.
LEMMA CallBecomes ==
  ASSUME TypeInv, NEW c \in Callers, NEW d \in Call, Bound(d),
         call' = [call EXCEPT ![c] = d]
  PROVE  /\ call' \in [Callers -> Call]
         /\ \A b \in Callers : Bound(call'[b])
         /\ call'[c] = d
         /\ \A b \in Callers \ {c} : call'[b] = call[b]
<1>1. call \in [Callers -> Call] /\ \A b \in Callers : Bound(call[b])
  BY DEF TypeInv, TypeOK
<1>2. /\ call' \in [Callers -> Call]
      /\ call'[c] = d
      /\ \A b \in Callers \ {c} : call'[b] = call[b]
  BY <1>1
<1>3. \A b \in Callers : Bound(call'[b])
  <2>. TAKE b \in Callers
  <2>1. CASE b = c
    BY <2>1, <1>2
  <2>2. CASE b # c
    BY <2>2, <1>1, <1>2
  <2>. QED
    BY <2>1, <2>2
<1>. QED
  BY <1>2, <1>3

\* create_task returns or raises.
LEMMA ReturnedTypeInv ==
  ASSUME TypeInv, NEW c \in Callers, NEW t \in TaskIds, NEW b \in BOOLEAN,
         call[c].key \in Keys, Returned(c, t, b)
  PROVE  /\ call' \in [Callers -> Call]
         /\ \A e \in Callers : Bound(call'[e])
         /\ outcome' \in [Callers -> Outcome \cup {None}]
<1>1. call[c] \in Call /\ outcome \in [Callers -> Outcome \cup {None}]
  BY DEF TypeInv, TypeOK
<1>2. [key |-> call[c].key, task |-> t, mocked |-> call[c].mock, reused |-> b]
        \in Outcome
  BY <1>1 DEF Outcome, Call
<1>3. outcome' \in [Callers -> Outcome \cup {None}]
  BY <1>1, <1>2 DEF Returned
<1>4. Bound(IdleCall)
  BY IdleCallOK DEF Bound
<1>. QED
  BY <1>3, <1>4, IdleCallOK, CallBecomes DEF Returned

LEMMA RaisedTypeInv ==
  ASSUME TypeInv, NEW c \in Callers, Raised(c)
  PROVE  /\ call' \in [Callers -> Call]
         /\ \A e \in Callers : Bound(call'[e])
         /\ outcome' \in [Callers -> Outcome \cup {None}]
<1>1. outcome \in [Callers -> Outcome \cup {None}]
  BY DEF TypeInv, TypeOK
<1>2. Bound(IdleCall)
  BY IdleCallOK DEF Bound
<1>. QED
  BY <1>1, <1>2, IdleCallOK, CallBecomes DEF Raised

LEMMA RetryTypeInv ==
  ASSUME TypeInv, NEW c \in Callers, call[c].pc = "post", RetryOrRaise(c)
  PROVE  /\ call' \in [Callers -> Call]
         /\ \A e \in Callers : Bound(call'[e])
         /\ outcome' \in [Callers -> Outcome \cup {None}]
<1>. DEFINE d == [call[c] EXCEPT !.tries = @ + 1]
<1>1. /\ call \in [Callers -> Call] /\ Bound(call[c])
      /\ outcome \in [Callers -> Outcome \cup {None}]
  BY DEF TypeInv, TypeOK
<1>2. CASE call[c].tries + 1 < MaxRetries
  <2>1. call[c].tries + 1 \in 0..(MaxRetries - 1)
    BY <1>1, <1>2, LimitsAssumption DEF Call
  <2>2. d \in Call /\ d.pc = "post" /\ d.key = call[c].key
    BY <1>1, <2>1 DEF Call
  <2>3. Bound(d)
    BY <1>1, <2>2 DEF Bound
  <2>4. call' = [call EXCEPT ![c] = d] /\ UNCHANGED outcome
    BY <1>1, <1>2 DEF RetryOrRaise
  <2>. HIDE DEF d
  <2>. QED
    BY <1>1, <2>2, <2>3, <2>4, CallBecomes
<1>3. CASE ~(call[c].tries + 1 < MaxRetries)
  BY <1>3, RaisedTypeInv DEF RetryOrRaise
<1>. QED
  BY <1>2, <1>3

\* A new task at the front of AmoCRM's list.
LEMMA CreatedTypeOK ==
  ASSUME TypeInv, NEW c \in Callers, call[c].key \in Keys, NEW id \in Unused,
         Created(c, id)
  PROVE  crm' \in Seq(CrmTask)
<1>1. crm \in Seq(CrmTask) /\ id \in Tasks
  BY DEF TypeInv, TypeOK, Unused
<1>2. [id |-> id, marker |-> call[c].key] \in CrmTask
  BY <1>1 DEF CrmTask
<1>. QED
  BY <1>1, <1>2, Prepended DEF Created

LEMMA SearchedTypeInv ==
  ASSUME TypeInv, NEW c \in Callers, call[c].key \in Keys,
         NEW found, found \subseteq DOMAIN crm, Searched(c, found)
  PROVE  call' \in [Callers -> Call] /\ \A e \in Callers : Bound(call'[e])
<1>. DEFINE d == call[c]
            last == LastPage(d.page) \/ d.page = MaxPages
            next == [d EXCEPT !.page = @ + 1]
<1>1. /\ call \in [Callers -> Call] /\ d \in Call /\ Bound(d)
      /\ crm \in Seq(CrmTask)
  BY DEF TypeInv, TypeOK
<1>2. CASE \E i \in found : call' = [call EXCEPT ![c] = Holding(d, crm[i].id, TRUE)]
  <2>1. PICK i \in found : call' = [call EXCEPT ![c] = Holding(d, crm[i].id, TRUE)]
    BY <1>2
  <2>2. crm[i].id \in TaskIds
    <3>1. DOMAIN crm = 1..Len(crm)
      BY <1>1, LenProperties
    <3>2. crm[i] \in CrmTask
      BY <1>1, <3>1, ElementOfSeq
    <3>. QED
      BY <3>2 DEF CrmTask, TaskIds
  <2>3. Holding(d, crm[i].id, TRUE) \in Call /\ Bound(Holding(d, crm[i].id, TRUE))
    BY <1>1, <2>2, HoldingOK DEF Bound
  <2>. QED
    BY <2>1, <2>3, CallBecomes
<1>3. CASE call' = [call EXCEPT ![c] = Creating(d)]
  <2>1. Creating(d) \in Call /\ Bound(Creating(d))
    BY <1>1, CreatingOK DEF Bound, TaskIds
  <2>. QED
    BY <1>3, <2>1, CallBecomes
<1>4. CASE ~last /\ call' = [call EXCEPT ![c].page = @ + 1]
  <2>1. d.page + 1 \in 1..MaxPages
    BY <1>1, <1>4, LimitsAssumption DEF Call
  <2>2. next \in Call /\ next.pc = d.pc /\ next.key = d.key /\ next.task = d.task
    BY <1>1, <2>1 DEF Call
  <2>3. Bound(next)
    BY <1>1, <2>2 DEF Bound
  <2>4. call' = [call EXCEPT ![c] = next]
    BY <1>1, <1>4
  <2>. HIDE DEF next
  <2>. QED
    BY <2>2, <2>3, <2>4, CallBecomes
<1>. QED
  BY <1>2, <1>3, <1>4 DEF Searched

\* A step of one call keeps the type: the conjuncts it disturbs, per action.
LEMMA CreateTaskTypeInv ==
  ASSUME TypeInv, NEW c \in Callers, NEW k \in Keys, NEW m \in MockModes,
         CreateTask(c, k, m)
  PROVE  TypeInv'
<1>1. m \in BOOLEAN
  BY SettingsAssumption
<1>2. NewCall(k, m) \in Call /\ Bound(NewCall(k, m)) /\ NewCall(k, m).key \in Keys
  BY <1>1, NewCallOK DEF Bound
<1>3. Creating(NewCall(k, m)) \in Call /\ Bound(Creating(NewCall(k, m)))
  BY <1>2, CreatingOK DEF Bound, TaskIds
<1>4. call' \in [Callers -> Call] /\ \A e \in Callers : Bound(call'[e])
  <2>1. CASE Enabled
    <3>1. call' = [call EXCEPT ![c] = NewCall(k, m)]
      BY <2>1 DEF CreateTask
    <3>. QED
      BY <3>1, <1>2, CallBecomes
  <2>2. CASE ~Enabled
    <3>1. call' = [call EXCEPT ![c] = Creating(NewCall(k, m))]
      BY <2>2 DEF CreateTask
    <3>. QED
      BY <3>1, <1>3, CallBecomes
  <2>. QED
    BY <2>1, <2>2
<1>5. outcome' \in [Callers -> Outcome \cup {None}]
  BY DEF TypeInv, TypeOK, CreateTask
<1>6. crm' \in Seq(CrmTask) /\ store' \in [Keys -> TaskIds \cup {None}]
  BY DEF TypeInv, TypeOK, CreateTask
<1>. QED
  BY <1>4, <1>5, <1>6 DEF TypeInv, TypeOK

LEMMA GetTypeInv ==
  ASSUME TypeInv, NEW c \in Callers, Get(c)
  PROVE  TypeInv'
<1>1. /\ call[c] \in Call /\ call[c].key \in Keys
      /\ store \in [Keys -> TaskIds \cup {None}]
      /\ outcome \in [Callers -> Outcome \cup {None}]
  BY DEF TypeInv, TypeOK, Get, Bound
<1>2. /\ call' \in [Callers -> Call] /\ \A e \in Callers : Bound(call'[e])
      /\ outcome' \in [Callers -> Outcome \cup {None}]
  <2>1. CASE store[call[c].key] # None
    <3>1. store[call[c].key] \in TaskIds /\ Returned(c, store[call[c].key], TRUE)
      BY <1>1, <2>1 DEF Get
    <3>. QED
      BY <1>1, <3>1, ReturnedTypeInv
  <2>2. CASE store[call[c].key] = None /\ call[c].mock
    <3>1. call' = [call EXCEPT ![c] = Creating(call[c])] /\ UNCHANGED outcome
      BY <2>2, <1>1 DEF Get
    <3>2. Creating(call[c]) \in Call /\ Bound(Creating(call[c]))
      BY <1>1, CreatingOK DEF Bound, TaskIds
    <3>. QED
      BY <1>1, <3>1, <3>2, CallBecomes
  <2>3. CASE store[call[c].key] = None /\ ~call[c].mock
    <3>1. /\ call' = [call EXCEPT ![c] = [call[c] EXCEPT !.pc = "scan"]]
          /\ UNCHANGED outcome
      BY <2>3, <1>1 DEF Get
    <3>2. /\ [call[c] EXCEPT !.pc = "scan"] \in Call
          /\ Bound([call[c] EXCEPT !.pc = "scan"])
      BY <1>1, GoesTo DEF Bound
    <3>. QED
      BY <1>1, <3>1, <3>2, CallBecomes
  <2>. QED
    BY <2>1, <2>2, <2>3
<1>3. crm' \in Seq(CrmTask) /\ store' \in [Keys -> TaskIds \cup {None}]
  BY DEF TypeInv, TypeOK, Get
<1>. QED
  BY <1>2, <1>3 DEF TypeInv, TypeOK

LEMMA ScanTypeInv ==
  ASSUME TypeInv, NEW c \in Callers, Scan(c)
  PROVE  TypeInv'
<1>1. call[c].key \in Keys
  BY DEF TypeInv, Bound, Scan
<1>2. {i \in Page(call[c].page) : crm[i].marker = call[c].key} \subseteq DOMAIN crm
  BY DEF Page
<1>3. call' \in [Callers -> Call] /\ \A e \in Callers : Bound(call'[e])
  BY <1>1, <1>2, SearchedTypeInv DEF Scan
<1>4. /\ crm' \in Seq(CrmTask) /\ store' \in [Keys -> TaskIds \cup {None}]
      /\ outcome' \in [Callers -> Outcome \cup {None}]
  BY DEF TypeInv, TypeOK, Scan
<1>. QED
  BY <1>3, <1>4 DEF TypeInv, TypeOK

LEMMA PostTypeInv ==
  ASSUME TypeInv, NEW c \in Callers, Post(c)
  PROVE  TypeInv'
<1>1. /\ call[c] \in Call /\ call[c].key \in Keys /\ call[c].pc = "post"
      /\ call \in [Callers -> Call]
  BY DEF TypeInv, TypeOK, Bound, Post, PostAccepted, PostLost, PostRefused,
         PostRejected
<1>2. crm' \in Seq(CrmTask)
  <2>1. UNCHANGED crm \/ \E id \in Unused : Created(c, id)
    BY DEF Post, PostAccepted, PostLost, PostRefused, PostRejected
  <2>2. CASE UNCHANGED crm
    BY <2>2 DEF TypeInv, TypeOK
  <2>. QED
    BY <1>1, <2>1, <2>2, CreatedTypeOK
<1>3. store' \in [Keys -> TaskIds \cup {None}]
  BY DEF TypeInv, TypeOK, Post, PostAccepted, PostLost, PostRefused, PostRejected
<1>4. /\ call' \in [Callers -> Call] /\ \A e \in Callers : Bound(call'[e])
      /\ outcome' \in [Callers -> Outcome \cup {None}]
  <2>1. CASE PostAccepted(c)
    <3>1. PICK id \in Unused : call' = [call EXCEPT ![c] = Holding(call[c], id, FALSE)]
      BY <1>1, <2>1 DEF PostAccepted
    <3>2. id \in TaskIds
      BY DEF Unused, TaskIds
    <3>3. Holding(call[c], id, FALSE) \in Call /\ Bound(Holding(call[c], id, FALSE))
      BY <1>1, <3>2, HoldingOK DEF Bound
    <3>4. outcome' \in [Callers -> Outcome \cup {None}]
      BY <2>1 DEF PostAccepted, TypeInv, TypeOK
    <3>. QED
      BY <3>1, <3>3, <3>4, CallBecomes
  <2>2. CASE PostLost(c) \/ PostRefused(c)
    <3>1. RetryOrRaise(c)
      BY <2>2 DEF PostLost, PostRefused
    <3>. QED
      BY <1>1, <3>1, RetryTypeInv
  <2>3. CASE PostRejected(c)
    <3>1. Raised(c)
      BY <2>3 DEF PostRejected
    <3>. QED
      BY <3>1, RaisedTypeInv
  <2>. QED
    BY <2>1, <2>2, <2>3 DEF Post
<1>. QED
  BY <1>2, <1>3, <1>4 DEF TypeInv, TypeOK

LEMMA PutTypeInv ==
  ASSUME TypeInv, NEW c \in Callers, Put(c)
  PROVE  TypeInv'
<1>. DEFINE d == [call[c] EXCEPT !.pc = "save"]
<1>1. /\ call \in [Callers -> Call] /\ call[c] \in Call /\ call[c].key \in Keys
      /\ call[c].task \in TaskIds /\ store \in [Keys -> TaskIds \cup {None}]
  BY DEF TypeInv, TypeOK, Bound, Put
<1>2. d \in Call /\ Bound(d)
  BY <1>1, GoesTo DEF Bound
<1>3. call' = [call EXCEPT ![c] = d]
  BY <1>1 DEF Put
<1>. HIDE DEF d
<1>4. call' \in [Callers -> Call] /\ \A e \in Callers : Bound(call'[e])
  BY <1>2, <1>3, CallBecomes
<1>5. store' \in [Keys -> TaskIds \cup {None}]
  <2>1. CASE Enabled
    BY <1>1, <2>1 DEF Put
  <2>2. CASE ~Enabled
    BY <1>1, <2>2 DEF Put
  <2>. QED
    BY <2>1, <2>2
<1>6. crm' \in Seq(CrmTask) /\ outcome' \in [Callers -> Outcome \cup {None}]
  BY DEF TypeInv, TypeOK, Put
<1>. QED
  BY <1>4, <1>5, <1>6 DEF TypeInv, TypeOK

LEMMA SaveTypeInv ==
  ASSUME TypeInv, NEW c \in Callers, Save(c)
  PROVE  TypeInv'
<1>1. /\ call[c].key \in Keys /\ call[c].task \in TaskIds
      /\ call[c].reused \in BOOLEAN
  BY DEF TypeInv, TypeOK, Call, Bound, Save
<1>2. /\ call' \in [Callers -> Call] /\ \A e \in Callers : Bound(call'[e])
      /\ outcome' \in [Callers -> Outcome \cup {None}]
  BY <1>1, ReturnedTypeInv DEF Save
<1>3. crm' \in Seq(CrmTask) /\ store' \in [Keys -> TaskIds \cup {None}]
  BY DEF TypeInv, TypeOK, Save
<1>. QED
  BY <1>2, <1>3 DEF TypeInv, TypeOK

LEMMA StopTypeInv ==
  ASSUME TypeInv, NEW c \in Callers, Stop(c)
  PROVE  TypeInv'
<1>1. /\ call' \in [Callers -> Call] /\ \A e \in Callers : Bound(call'[e])
      /\ outcome' \in [Callers -> Outcome \cup {None}]
  BY RaisedTypeInv DEF Stop
<1>2. crm' \in Seq(CrmTask) /\ store' \in [Keys -> TaskIds \cup {None}]
  BY DEF TypeInv, TypeOK, Stop
<1>. QED
  BY <1>1, <1>2 DEF TypeInv, TypeOK

LEMMA OthersTypeInv ==
  ASSUME TypeInv, OthersCreate \/ OthersTouch
  PROVE  TypeInv'
<1>1. crm \in Seq(CrmTask)
  BY DEF TypeInv, TypeOK
<1>2. crm' \in Seq(CrmTask)
  <2>1. CASE OthersCreate
    <3>1. PICK id \in Unused : crm' = <<[id |-> id, marker |-> None]>> \o crm
      BY <2>1 DEF OthersCreate
    <3>2. [id |-> id, marker |-> None] \in CrmTask
      BY DEF CrmTask, Unused
    <3>. QED
      BY <1>1, <3>1, <3>2, Prepended
  <2>2. CASE OthersTouch
    BY <1>1, <2>2, Touched DEF OthersTouch
  <2>. QED
    BY <2>1, <2>2
<1>3. UNCHANGED <<store, call, outcome>>
  BY DEF OthersCreate, OthersTouch
<1>. QED
  BY <1>2, <1>3 DEF TypeInv, TypeOK

LEMMA TypeInvNext == TypeInv /\ [Next]_vars => TypeInv'
<1>. SUFFICES ASSUME TypeInv, [Next]_vars PROVE TypeInv'
  OBVIOUS
<1>1. ASSUME NEW c \in Callers, NEW k \in Keys, NEW m \in MockModes,
             CreateTask(c, k, m)
      PROVE  TypeInv'
  BY <1>1, CreateTaskTypeInv
<1>2. ASSUME NEW c \in Callers, Step(c) PROVE TypeInv'
  BY <1>2, GetTypeInv, ScanTypeInv, PostTypeInv, PutTypeInv, SaveTypeInv DEF Step
<1>3. ASSUME NEW c \in Callers, Stop(c) PROVE TypeInv'
  BY <1>3, StopTypeInv
<1>4. CASE OthersCreate \/ OthersTouch
  BY <1>4, OthersTypeInv
<1>5. CASE UNCHANGED vars
  BY <1>5 DEF TypeInv, TypeOK, vars
<1>. QED
  BY <1>1, <1>2, <1>3, <1>4, <1>5 DEF Next

LEMMA AlwaysTypeInv == Spec => []TypeInv
BY TypeInvInit, TypeInvNext, PTL DEF Spec

\* Type correctness of every run of create_task calls.
THEOREM CrmTypeCorrect == Spec => []TypeOK
<1>1. TypeInv => TypeOK
  BY DEF TypeInv
<1>. QED
  BY <1>1, AlwaysTypeInv, PTL

-----------------------------------------------------------------------------
(***************************************************************************)
(* Records, calls in progress and outcomes name the task of their key.     *)
(***************************************************************************)

\* List s has a task t with the marker of key k.
NamedIn(s, k, t) == \E i \in DOMAIN s : s[i].marker = k /\ s[i].id = t

RecordNamed(s, k, t) == t # None => NamedIn(s, k, t) \/ t = MockTask(k)

CallNamed(s, d) ==
  d.pc \in {"put", "save"} =>
    \/ NamedIn(s, d.key, d.task)
    \/ d.mock /\ d.task = MockTask(d.key)

OutcomeNamed(s, o) ==
  o # None =>
    \/ NamedIn(s, o.key, o.task)
    \/ (o.mocked \/ o.reused) /\ o.task = MockTask(o.key)

\* The invariant, of list s and of what is kept about its tasks.  RecordNamed
\* alone is not inductive: a record is made of a call's task, and a call's
\* task may come from a record.
NamesInv(s) ==
  /\ \A k \in Keys : RecordNamed(s, k, store[k])
  /\ \A c \in Callers : CallNamed(s, call[c])
  /\ \A c \in Callers : OutcomeNamed(s, outcome[c])

\* A list with another first task names what it named before.
LEMMA NamedBehind ==
  ASSUME NEW s \in Seq(CrmTask), NEW t \in CrmTask, NEW k, NEW id,
         NamedIn(s, k, id)
  PROVE  NamedIn(<<t>> \o s, k, id)
<1>1. PICK i \in DOMAIN s : s[i].marker = k /\ s[i].id = id
  BY DEF NamedIn
<1>2. i + 1 \in DOMAIN (<<t>> \o s) /\ (<<t>> \o s)[i + 1] = s[i]
  BY Prepended
<1>. QED
  BY <1>1, <1>2 DEF NamedIn

\* AmoCRM's tasks are never deleted, nor is their text edited.
LEMMA NamesStay ==
  ASSUME TypeInv, [Next]_vars, NEW k, NEW id, NamedIn(crm, k, id)
  PROVE  NamedIn(crm', k, id)
<1>1. crm \in Seq(CrmTask) /\ \A c \in Callers : Bound(call[c])
  BY DEF TypeInv, TypeOK
<1>2. CASE UNCHANGED crm
  BY <1>2
<1>3. ASSUME NEW t \in CrmTask, crm' = <<t>> \o crm
      PROVE  NamedIn(crm', k, id)
  BY <1>1, <1>3, NamedBehind
<1>4. ASSUME NEW c \in Callers, call[c].pc = "post", NEW n \in Unused, Created(c, n)
      PROVE  NamedIn(crm', k, id)
  <2>1. [id |-> n, marker |-> call[c].key] \in CrmTask
    BY <1>1, <1>4 DEF CrmTask, Unused, Bound
  <2>. QED
    BY <1>3, <1>4, <2>1 DEF Created
<1>5. CASE OthersCreate
  <2>1. PICK n \in Unused : crm' = <<[id |-> n, marker |-> None]>> \o crm
    BY <1>5 DEF OthersCreate
  <2>2. [id |-> n, marker |-> None] \in CrmTask
    BY DEF CrmTask, Unused
  <2>. QED
    BY <1>3, <2>1, <2>2
<1>6. CASE OthersTouch
  <2>1. PICK i \in DOMAIN crm : crm' = ToFront(crm, i)
    BY <1>6 DEF OthersTouch
  <2>2. \A j \in DOMAIN crm : \E l \in DOMAIN ToFront(crm, i) :
          ToFront(crm, i)[l] = crm[j]
    BY <1>1, Touched
  <2>. QED
    BY <2>1, <2>2 DEF NamedIn
<1>7. ASSUME NEW c \in Callers, Post(c)
      PROVE  NamedIn(crm', k, id)
  <2>1. call[c].pc = "post" /\ (UNCHANGED crm \/ \E n \in Unused : Created(c, n))
    BY <1>7 DEF Post, PostAccepted, PostLost, PostRefused, PostRejected
  <2>. QED
    BY <1>2, <1>4, <2>1
<1>8. ASSUME NEW c \in Callers,
             \/ Get(c) \/ Scan(c) \/ Put(c) \/ Save(c) \/ Stop(c)
             \/ \E n \in Keys, m \in MockModes : CreateTask(c, n, m)
      PROVE  UNCHANGED crm
  BY <1>8 DEF Get, Scan, Put, Save, Stop, CreateTask
<1>9. UNCHANGED vars => UNCHANGED crm
  BY DEF vars
<1>. QED
  BY <1>2, <1>5, <1>6, <1>7, <1>8, <1>9 DEF Next, Step

\* What was recorded, held or told about the list before a step is true of
\* the list after it.
LEMMA NamesKept ==
  ASSUME TypeInv, NamesInv(crm), [Next]_vars
  PROVE  NamesInv(crm')
BY NamesStay DEF NamesInv, RecordNamed, CallNamed, OutcomeNamed

\* A step that gives one call another value, and the two ends of a call.
LEMMA CallNamesBecome ==
  ASSUME TypeInv, NEW s, NamesInv(s), NEW c \in Callers, NEW d,
         CallNamed(s, d), call' = [call EXCEPT ![c] = d]
  PROVE  \A b \in Callers : CallNamed(s, call'[b])
<1>1. \A b \in Callers : call'[b] = IF b = c THEN d ELSE call[b]
  BY DEF TypeInv, TypeOK
<1>2. \A b \in Callers : CallNamed(s, call[b])
  BY DEF NamesInv
<1>3. ASSUME NEW b \in Callers PROVE CallNamed(s, call'[b])
  <2>1. CASE b = c
    BY <1>1, <2>1
  <2>2. CASE b # c
    BY <1>1, <1>2, <2>2
  <2>. QED
    BY <2>1, <2>2
<1>. QED
  BY <1>3

LEMMA ReturnedNames ==
  ASSUME TypeInv, NEW s, NamesInv(s), NEW c \in Callers, NEW t, NEW b,
         Returned(c, t, b),
         \/ NamedIn(s, call[c].key, t)
         \/ (call[c].mock \/ b) /\ t = MockTask(call[c].key)
  PROVE  /\ \A e \in Callers : CallNamed(s, call'[e])
         /\ \A e \in Callers : OutcomeNamed(s, outcome'[e])
<1>. DEFINE o == [key |-> call[c].key, task |-> t, mocked |-> call[c].mock,
                  reused |-> b]
<1>1. OutcomeNamed(s, o)
  BY DEF OutcomeNamed
<1>2. \A e \in Callers : outcome'[e] = IF e = c THEN o ELSE outcome[e]
  BY DEF TypeInv, TypeOK, Returned
<1>3. \A e \in Callers : OutcomeNamed(s, outcome[e])
  BY DEF NamesInv
<1>. HIDE DEF o
<1>4. ASSUME NEW e \in Callers PROVE OutcomeNamed(s, outcome'[e])
  <2>1. CASE e = c
    BY <1>1, <1>2, <2>1
  <2>2. CASE e # c
    BY <1>2, <1>3, <2>2
  <2>. QED
    BY <2>1, <2>2
<1>5. CallNamed(s, IdleCall)
  BY IdleCallOK DEF CallNamed
<1>6. \A e \in Callers : CallNamed(s, call'[e])
  BY <1>5, CallNamesBecome DEF Returned
<1>. QED
  BY <1>4, <1>6

LEMMA RaisedNames ==
  ASSUME TypeInv, NEW s, NamesInv(s), NEW c \in Callers, Raised(c)
  PROVE  \A e \in Callers : CallNamed(s, call'[e])
<1>1. CallNamed(s, IdleCall)
  BY IdleCallOK DEF CallNamed
<1>. QED
  BY <1>1, CallNamesBecome DEF Raised

LEMMA RetryNames ==
  ASSUME TypeInv, NEW s, NamesInv(s), NEW c \in Callers, call[c].pc = "post",
         RetryOrRaise(c)
  PROVE  \A e \in Callers : CallNamed(s, call'[e])
<1>. DEFINE d == [call[c] EXCEPT !.tries = @ + 1]
<1>1. call \in [Callers -> Call]
  BY DEF TypeInv, TypeOK
<1>2. CASE call' = [call EXCEPT ![c].tries = @ + 1]
  <2>1. d.pc = "post" /\ call' = [call EXCEPT ![c] = d]
    BY <1>1, <1>2 DEF Call
  <2>2. CallNamed(s, d)
    BY <2>1 DEF CallNamed
  <2>. HIDE DEF d
  <2>. QED
    BY <2>1, <2>2, CallNamesBecome
<1>. QED
  BY <1>2, RaisedNames DEF RetryOrRaise

-----------------------------------------------------------------------------
\* Each action keeps the names.

LEMMA CreateTaskNames ==
  ASSUME TypeInv, NamesInv(crm), NEW c \in Callers, NEW k \in Keys,
         NEW m \in MockModes, CreateTask(c, k, m)
  PROVE  NamesInv(crm)'
<1>1. m \in BOOLEAN
  BY SettingsAssumption
<1>2. /\ NewCall(k, m) \in Call /\ NewCall(k, m).key \in Keys
      /\ NewCall(k, m).pc = "get"
  BY <1>1, NewCallOK
<1>3. CallNamed(crm, NewCall(k, m)) /\ CallNamed(crm, Creating(NewCall(k, m)))
  BY <1>2, CreatingOK DEF CallNamed
<1>4. \A b \in Callers : CallNamed(crm, call'[b])
  <2>1. CASE Enabled
    <3>1. call' = [call EXCEPT ![c] = NewCall(k, m)]
      BY <2>1 DEF CreateTask
    <3>. QED
      BY <3>1, <1>3, CallNamesBecome
  <2>2. CASE ~Enabled
    <3>1. call' = [call EXCEPT ![c] = Creating(NewCall(k, m))]
      BY <2>2 DEF CreateTask
    <3>. QED
      BY <3>1, <1>3, CallNamesBecome
  <2>. QED
    BY <2>1, <2>2
<1>5. \A b \in Callers : OutcomeNamed(crm, outcome'[b])
  <2>1. \A b \in Callers : outcome'[b] = IF b = c THEN None ELSE outcome[b]
    BY DEF CreateTask, TypeInv, TypeOK
  <2>. QED
    BY <2>1 DEF NamesInv, OutcomeNamed
<1>6. UNCHANGED <<crm, store>>
  BY DEF CreateTask
<1>. QED
  BY <1>4, <1>5, <1>6 DEF NamesInv

LEMMA GetNames ==
  ASSUME TypeInv, NamesInv(crm), NEW c \in Callers, Get(c)
  PROVE  NamesInv(crm)'
<1>1. /\ call[c] \in Call /\ call[c].key \in Keys
      /\ RecordNamed(crm, call[c].key, store[call[c].key])
  BY DEF TypeInv, TypeOK, Get, Bound, NamesInv
<1>2. /\ \A e \in Callers : CallNamed(crm, call'[e])
      /\ \A e \in Callers : OutcomeNamed(crm, outcome'[e])
  <2>1. CASE store[call[c].key] # None
    <3>1. Returned(c, store[call[c].key], TRUE)
      BY <2>1 DEF Get
    <3>. QED
      BY <1>1, <2>1, <3>1, ReturnedNames DEF RecordNamed
  <2>2. CASE store[call[c].key] = None /\ call[c].mock
    <3>1. call' = [call EXCEPT ![c] = Creating(call[c])] /\ UNCHANGED outcome
      BY <2>2, <1>1 DEF Get, TypeInv, TypeOK
    <3>2. CallNamed(crm, Creating(call[c]))
      BY <1>1, CreatingOK DEF CallNamed
    <3>. QED
      BY <3>1, <3>2, CallNamesBecome DEF NamesInv
  <2>3. CASE store[call[c].key] = None /\ ~call[c].mock
    <3>1. /\ call' = [call EXCEPT ![c] = [call[c] EXCEPT !.pc = "scan"]]
          /\ UNCHANGED outcome
      BY <2>3, <1>1 DEF Get, TypeInv, TypeOK
    <3>2. CallNamed(crm, [call[c] EXCEPT !.pc = "scan"])
      BY <1>1, GoesTo DEF CallNamed
    <3>. QED
      BY <3>1, <3>2, CallNamesBecome DEF NamesInv
  <2>. QED
    BY <2>1, <2>2, <2>3
<1>3. UNCHANGED <<crm, store>>
  BY DEF Get
<1>. QED
  BY <1>2, <1>3 DEF NamesInv

LEMMA ScanNames ==
  ASSUME TypeInv, NamesInv(crm), NEW c \in Callers, Scan(c)
  PROVE  NamesInv(crm)'
<1>. DEFINE d == call[c]
            next == [d EXCEPT !.page = @ + 1]
            found == {i \in Page(d.page) : crm[i].marker = d.key}
<1>1. /\ call \in [Callers -> Call] /\ d \in Call /\ d.key \in Keys
      /\ d.pc = "scan" /\ crm \in Seq(CrmTask)
  BY DEF TypeInv, TypeOK, Bound, Scan
<1>2. \/ \E i \in found : call' = [call EXCEPT ![c] = Holding(d, crm[i].id, TRUE)]
      \/ call' = [call EXCEPT ![c] = Creating(d)]
      \/ call' = [call EXCEPT ![c].page = @ + 1]
  BY DEF Scan, Searched
<1>3. \A b \in Callers : CallNamed(crm, call'[b])
  <2>1. ASSUME NEW i \in found,
               call' = [call EXCEPT ![c] = Holding(d, crm[i].id, TRUE)]
        PROVE  \A b \in Callers : CallNamed(crm, call'[b])
    <3>1. i \in DOMAIN crm /\ crm[i].marker = d.key
      BY DEF Page
    <3>2. crm[i].id \in TaskIds
      <4>1. crm[i] \in CrmTask
        BY <1>1, <3>1, LenProperties, ElementOfSeq
      <4>. QED
        BY <4>1 DEF CrmTask, TaskIds
    <3>3. NamedIn(crm, d.key, crm[i].id)
      BY <3>1 DEF NamedIn
    <3>4. CallNamed(crm, Holding(d, crm[i].id, TRUE))
      BY <1>1, <3>2, <3>3, HoldingOK DEF CallNamed
    <3>. QED
      BY <2>1, <3>4, CallNamesBecome
  <2>2. CASE call' = [call EXCEPT ![c] = Creating(d)]
    <3>1. CallNamed(crm, Creating(d))
      BY <1>1, CreatingOK DEF CallNamed
    <3>. QED
      BY <2>2, <3>1, CallNamesBecome
  <2>3. CASE call' = [call EXCEPT ![c].page = @ + 1]
    <3>1. next.pc = "scan" /\ call' = [call EXCEPT ![c] = next]
      BY <1>1, <2>3 DEF Call
    <3>2. CallNamed(crm, next)
      BY <3>1 DEF CallNamed
    <3>. HIDE DEF next
    <3>. QED
      BY <3>1, <3>2, CallNamesBecome
  <2>. QED
    BY <1>2, <2>1, <2>2, <2>3
<1>4. UNCHANGED <<crm, store, outcome>>
  BY DEF Scan
<1>. QED
  BY <1>3, <1>4 DEF NamesInv

LEMMA PostNames ==
  ASSUME TypeInv, NamesInv(crm), NamesInv(crm'), NEW c \in Callers, Post(c)
  PROVE  NamesInv(crm)'
<1>1. /\ call[c] \in Call /\ call[c].key \in Keys /\ call[c].pc = "post"
      /\ call \in [Callers -> Call] /\ crm \in Seq(CrmTask)
  BY DEF TypeInv, TypeOK, Bound, Post, PostAccepted, PostLost, PostRefused,
         PostRejected
<1>2. CASE PostAccepted(c)
  <2>1. PICK id \in Unused :
          /\ Created(c, id)
          /\ call' = [call EXCEPT ![c] = Holding(call[c], id, FALSE)]
    BY <1>1, <1>2 DEF PostAccepted
  <2>. DEFINE t == [id |-> id, marker |-> call[c].key]
  <2>2. id \in TaskIds /\ t \in CrmTask
    BY <1>1 DEF Unused, TaskIds, CrmTask
  <2>3. NamedIn(crm', call[c].key, id)
    <3>1. 1 \in DOMAIN crm' /\ crm'[1] = t
      BY <1>1, <2>1, <2>2, Prepended DEF Created
    <3>. QED
      BY <3>1 DEF NamedIn
  <2>4. CallNamed(crm', Holding(call[c], id, FALSE))
    BY <1>1, <2>2, <2>3, HoldingOK DEF CallNamed
  <2>5. \A e \in Callers : CallNamed(crm', call'[e])
    BY <2>1, <2>4, CallNamesBecome
  <2>6. UNCHANGED <<store, outcome>>
    BY <1>2 DEF PostAccepted
  <2>. QED
    BY <2>5, <2>6 DEF NamesInv
<1>3. CASE PostLost(c) \/ PostRefused(c)
  <2>1. RetryOrRaise(c) /\ UNCHANGED store
    BY <1>3 DEF PostLost, PostRefused
  <2>2. \A e \in Callers : CallNamed(crm', call'[e])
    BY <1>1, <2>1, RetryNames
  <2>3. UNCHANGED outcome
    BY <2>1 DEF RetryOrRaise, Raised
  <2>. QED
    BY <2>1, <2>2, <2>3 DEF NamesInv
<1>4. CASE PostRejected(c)
  <2>1. Raised(c) /\ UNCHANGED store
    BY <1>4 DEF PostRejected
  <2>2. \A e \in Callers : CallNamed(crm', call'[e])
    BY <2>1, RaisedNames
  <2>3. UNCHANGED outcome
    BY <2>1 DEF Raised
  <2>. QED
    BY <2>1, <2>2, <2>3 DEF NamesInv
<1>. QED
  BY <1>2, <1>3, <1>4 DEF Post

LEMMA PutNames ==
  ASSUME TypeInv, NamesInv(crm), NEW c \in Callers, Put(c)
  PROVE  NamesInv(crm)'
<1>. DEFINE d == [call[c] EXCEPT !.pc = "save"]
<1>1. /\ call \in [Callers -> Call] /\ call[c] \in Call /\ call[c].key \in Keys
      /\ call[c].pc = "put" /\ store \in [Keys -> TaskIds \cup {None}]
      /\ CallNamed(crm, call[c])
  BY DEF TypeInv, TypeOK, Bound, Put, NamesInv
<1>2. CallNamed(crm, d)
  BY <1>1, GoesTo DEF CallNamed
<1>3. call' = [call EXCEPT ![c] = d]
  BY <1>1 DEF Put
<1>. HIDE DEF d
<1>4. \A b \in Callers : CallNamed(crm, call'[b])
  BY <1>2, <1>3, CallNamesBecome
<1>5. \A k \in Keys : RecordNamed(crm, k, store'[k])
  <2>1. CASE Enabled
    <3>1. \A k \in Keys : store'[k] = IF k = call[c].key THEN call[c].task
                                                         ELSE store[k]
      BY <1>1, <2>1 DEF Put
    <3>2. RecordNamed(crm, call[c].key, call[c].task)
      BY <1>1 DEF CallNamed, RecordNamed
    <3>. QED
      BY <3>1, <3>2 DEF NamesInv
  <2>2. CASE ~Enabled
    BY <2>2 DEF Put, NamesInv
  <2>. QED
    BY <2>1, <2>2
<1>6. UNCHANGED <<crm, outcome>>
  BY DEF Put
<1>. QED
  BY <1>4, <1>5, <1>6 DEF NamesInv

LEMMA SaveNames ==
  ASSUME TypeInv, NamesInv(crm), NEW c \in Callers, Save(c)
  PROVE  NamesInv(crm)'
<1>1. CallNamed(crm, call[c]) /\ call[c].pc = "save"
  BY DEF NamesInv, Save
<1>2. Returned(c, call[c].task, call[c].reused) /\ UNCHANGED <<crm, store>>
  BY DEF Save
<1>3. /\ \A e \in Callers : CallNamed(crm, call'[e])
      /\ \A e \in Callers : OutcomeNamed(crm, outcome'[e])
  BY <1>1, <1>2, ReturnedNames DEF CallNamed
<1>. QED
  BY <1>2, <1>3 DEF NamesInv

LEMMA StopNames ==
  ASSUME TypeInv, NamesInv(crm), NEW c \in Callers, Stop(c)
  PROVE  NamesInv(crm)'
<1>1. Raised(c) /\ UNCHANGED <<crm, store>>
  BY DEF Stop
<1>2. \A e \in Callers : CallNamed(crm, call'[e])
  BY <1>1, RaisedNames
<1>3. UNCHANGED outcome
  BY <1>1 DEF Raised
<1>. QED
  BY <1>1, <1>2, <1>3 DEF NamesInv

LEMMA NamesInit == Init => NamesInv(crm)
<1>. SUFFICES ASSUME Init PROVE NamesInv(crm)
  OBVIOUS
<1>1. \A c \in Callers : call[c].pc = "idle"
  BY IdleCallOK DEF Init
<1>. QED
  BY <1>1 DEF Init, NamesInv, RecordNamed, CallNamed, OutcomeNamed

LEMMA NamesNext == TypeInv /\ NamesInv(crm) /\ [Next]_vars => NamesInv(crm)'
<1>. SUFFICES ASSUME TypeInv, NamesInv(crm), [Next]_vars PROVE NamesInv(crm)'
  OBVIOUS
<1>1. NamesInv(crm')
  BY NamesKept
<1>2. ASSUME NEW c \in Callers, NEW k \in Keys, NEW m \in MockModes,
             CreateTask(c, k, m)
      PROVE  NamesInv(crm)'
  BY <1>2, CreateTaskNames
<1>3. ASSUME NEW c \in Callers, Step(c) PROVE NamesInv(crm)'
  BY <1>1, <1>3, GetNames, ScanNames, PostNames, PutNames, SaveNames DEF Step
<1>4. ASSUME NEW c \in Callers, Stop(c) PROVE NamesInv(crm)'
  BY <1>4, StopNames
<1>5. CASE UNCHANGED <<store, call, outcome>>
  BY <1>1, <1>5 DEF NamesInv
<1>6. OthersCreate \/ OthersTouch \/ UNCHANGED vars
        => UNCHANGED <<store, call, outcome>>
  BY DEF OthersCreate, OthersTouch, vars
<1>. QED
  BY <1>2, <1>3, <1>4, <1>5, <1>6 DEF Next

LEMMA AlwaysNames == Spec => []NamesInv(crm)
BY AlwaysTypeInv, NamesInit, NamesNext, PTL DEF Spec

\* A recorded id that AmoCRM gave out is the id of a task with that key's
\* text, although a record is written some steps after its task was found or
\* made, and mock runs record ids of their own in the same store.
THEOREM RecordsNameTheirTask == Spec => []RecordNamesItsTask
<1>1. NamesInv(crm) => RecordNamesItsTask
  BY MockAssumption, NoneAssumption
     DEF NamesInv, RecordNamed, NamedIn, RecordNamesItsTask, TasksOf
<1>. QED
  BY <1>1, AlwaysNames, PTL

\* A run without mock that reports a task has one in AmoCRM with its text,
\* unless a mock run recorded this text before.
THEOREM OutcomesNameTheirTask == Spec => []OutcomeNamesItsTask
<1>1. TypeInv /\ NamesInv(crm) => OutcomeNamesItsTask
  BY DEF NamesInv, OutcomeNamed, NamedIn, OutcomeNamesItsTask, TasksOf
<1>. QED
  BY <1>1, AlwaysTypeInv, AlwaysNames, PTL

-----------------------------------------------------------------------------
(***************************************************************************)
(* How the list of tasks moves, and how a search goes on.                  *)
(***************************************************************************)

\* AmoCRM gives an id to one task.
IdsApart(s) == \A i, j \in DOMAIN s : s[i].id = s[j].id => i = j

\* How many tasks the pages before page p list.
Before(p) == (p - 1) * PageSize

\* The ids of the tasks in list s.
IdsOf(s) == {s[i].id : i \in DOMAIN s}

\* Between s and t no task has come to an earlier place, but for those in M.
PushedBack(s, t, M) ==
  \A i \in DOMAIN t :
    \/ t[i].id \in M
    \/ \E j \in DOMAIN s : j <= i /\ s[j].id = t[i].id

\* What is in a list of tasks.
LEMMA ListOK ==
  ASSUME NEW s \in Seq(CrmTask)
  PROVE  /\ DOMAIN s = 1..Len(s) /\ Len(s) \in Nat
         /\ \A i \in DOMAIN s : i \in Nat \ {0} /\ s[i] \in CrmTask /\ s[i].id \in Tasks
<1>1. DOMAIN s = 1..Len(s) /\ Len(s) \in Nat
  BY LenProperties
<1>2. \A i \in 1..Len(s) : i \in Nat \ {0} /\ s[i] \in CrmTask
  BY <1>1, ElementOfSeq
<1>. QED
  BY <1>1, <1>2 DEF CrmTask

\* Where the pages of a search begin and end.
LEMMA PagesOK ==
  /\ \A p \in 1..MaxPages : Before(p) \in Nat /\ p * PageSize \in Nat
  /\ Before(1) = 0
  /\ \A p \in 1..MaxPages : Before(p + 1) = p * PageSize
<1>1. PageSize \in Nat /\ MaxPages \in Nat
  BY LimitsAssumption
<1>2. \A p \in 1..MaxPages : p - 1 \in Nat /\ p \in Nat /\ (p + 1) - 1 = p
  BY <1>1
<1>3. \A m, n \in Nat : m * n \in Nat /\ m * n = n * m
  OBVIOUS
<1>4. 1 - 1 = 0 /\ 0 * PageSize = 0
  BY <1>1
<1>. QED
  BY <1>1, <1>2, <1>3, <1>4 DEF Before

\* Where the tasks of a list are when another is put in front.
LEMMA Prepending ==
  ASSUME NEW s \in Seq(CrmTask), NEW t \in CrmTask
  PROVE  \A i \in DOMAIN (<<t>> \o s) :
           \/ i = 1 /\ (<<t>> \o s)[i] = t
           \/ i - 1 \in DOMAIN s /\ (<<t>> \o s)[i] = s[i - 1] /\ i \in Nat
<1>. DEFINE u == <<t>> \o s
<1>1. <<t>> \in Seq(CrmTask) /\ Len(<<t>>) = 1 /\ <<t>>[1] = t
  OBVIOUS
<1>2. /\ u \in Seq(CrmTask) /\ Len(u) = 1 + Len(s)
      /\ \A i \in 1 .. 1 + Len(s) : u[i] = IF i <= 1 THEN <<t>>[i] ELSE s[i - 1]
  BY <1>1, ConcatProperties
<1>3. DOMAIN u = 1..(1 + Len(s)) /\ DOMAIN s = 1..Len(s) /\ Len(s) \in Nat
  BY <1>2, ListOK
<1>. HIDE DEF u
<1>4. \A i \in DOMAIN u : \/ i = 1 /\ u[i] = t
                          \/ i - 1 \in DOMAIN s /\ u[i] = s[i - 1] /\ i \in Nat
  BY <1>1, <1>2, <1>3
<1>. QED
  BY <1>4 DEF u

\* A new task in front pushes all others back.
LEMMA PrependedMoves ==
  ASSUME NEW s \in Seq(CrmTask), NEW t \in CrmTask, t.id \notin IdsOf(s),
         IdsApart(s)
  PROVE  IdsApart(<<t>> \o s) /\ PushedBack(s, <<t>> \o s, {t.id})
<1>. DEFINE u == <<t>> \o s
<1>4. \A i \in DOMAIN u : \/ i = 1 /\ u[i] = t
                          \/ i - 1 \in DOMAIN s /\ u[i] = s[i - 1] /\ i \in Nat
  BY Prepending
<1>. HIDE DEF u
<1>5. \A i \in DOMAIN s : s[i].id # t.id
  BY DEF IdsOf
<1>6. IdsApart(u)
  <2>. SUFFICES ASSUME NEW i \in DOMAIN u, NEW j \in DOMAIN u, u[i].id = u[j].id
                PROVE  i = j
    BY DEF IdsApart
  <2>1. i = 1 <=> j = 1
    BY <1>4, <1>5
  <2>2. CASE i # 1 /\ j # 1
    <3>1. i - 1 = j - 1
      BY <1>4, <2>2 DEF IdsApart
    <3>. QED
      BY <1>4, <2>2, <3>1
  <2>. QED
    BY <2>1, <2>2
<1>7. PushedBack(s, u, {t.id})
  <2>. SUFFICES ASSUME NEW i \in DOMAIN u
                PROVE  \/ u[i].id \in {t.id}
                       \/ \E j \in DOMAIN s : j <= i /\ s[j].id = u[i].id
    BY DEF PushedBack
  <2>1. CASE i - 1 \in DOMAIN s /\ u[i] = s[i - 1] /\ i \in Nat
    <3>1. i - 1 <= i
      BY <2>1
    <3>. QED
      BY <2>1, <3>1
  <2>. QED
    BY <1>4, <2>1
<1>. QED
  BY <1>6, <1>7 DEF u

\* So does a task that moves to the front.
LEMMA TouchedMoves ==
  ASSUME NEW s \in Seq(CrmTask), NEW i \in DOMAIN s, IdsApart(s)
  PROVE  /\ IdsApart(ToFront(s, i))
         /\ PushedBack(s, ToFront(s, i), {ToFront(s, i)[1].id})
<1>. DEFINE t == ToFront(s, i)
            from(j) == IF j = 1 THEN i ELSE IF j <= i THEN j - 1 ELSE j
<1>1. DOMAIN s = 1..Len(s) /\ Len(s) \in Nat /\ DOMAIN t = DOMAIN s
  BY ListOK DEF ToFront
<1>2. \A j \in DOMAIN s : from(j) \in DOMAIN s /\ t[j] = s[from(j)]
  BY <1>1 DEF ToFront
<1>3. \A j, l \in DOMAIN s : from(j) = from(l) => j = l
  BY <1>1
<1>4. \A j \in DOMAIN s : j = 1 \/ from(j) <= j
  BY <1>1
<1>. HIDE DEF t, from
<1>5. IdsApart(t)
  BY <1>1, <1>2, <1>3 DEF IdsApart
<1>6. PushedBack(s, t, {t[1].id})
  BY <1>1, <1>2, <1>4 DEF PushedBack
<1>. QED
  BY <1>5, <1>6 DEF t

\* What a step of call c may do to it, and what it has seen then.
LEMMA StepCalls ==
  ASSUME TypeInv, NEW c \in Callers, Step(c) \/ Stop(c)
  PROVE  /\ call[c].pc # "idle" /\ \A b \in Callers \ {c} : call'[b] = call[b]
         /\ call'[c].pc # "idle" => call'[c].key = call[c].key
         /\ \/ call'[c].pc \in {"idle", "put", "save"}
            \/ call[c].pc = "post" /\ call'[c].pc = "post"
            \/ /\ call[c].pc = "get" /\ call'[c].pc = "scan"
               /\ call'[c].page = call[c].page /\ crm' = crm
            \/ /\ call[c].pc = "scan" /\ crm' = crm
               /\ \A i \in DOMAIN crm :
                    (call[c].page - 1) * PageSize < i /\ i <= call[c].page * PageSize
                      => crm[i].marker # call[c].key
               /\ \/ /\ call'[c].pc = "post"
                     /\ \/ Len(crm) < call[c].page * PageSize
                        \/ call[c].page = MaxPages
                  \/ /\ call'[c].pc = "scan"
                     /\ call'[c].page = call[c].page + 1
<1>. DEFINE d == call[c]
<1>1. call \in [Callers -> Call] /\ d \in Call /\ Bound(d)
  BY DEF TypeInv, TypeOK
<1>2. ASSUME NEW e, call' = [call EXCEPT ![c] = e]
      PROVE  call'[c] = e /\ \A b \in Callers \ {c} : call'[b] = call[b]
  BY <1>1, <1>2
<1>3. CASE call' = [call EXCEPT ![c] = IdleCall] /\ d.pc # "idle"
  BY <1>2, <1>3, IdleCallOK
<1>4. ASSUME NEW t \in TaskIds, NEW b \in BOOLEAN, d.pc # "idle",
             call' = [call EXCEPT ![c] = Holding(d, t, b)]
      PROVE  /\ call'[c].pc = "put" /\ call'[c].key = d.key
             /\ \A e \in Callers \ {c} : call'[e] = call[e]
  <2>1. call'[c] = Holding(d, t, b) /\ \A e \in Callers \ {c} : call'[e] = call[e]
    BY <1>2, <1>4
  <2>. QED
    BY <1>1, <2>1, HoldingOK
<1>5. CASE Get(c)
  <2>1. CASE d.mock /\ call' = [call EXCEPT ![c] = Creating(d)]
    <3>1. MockTask(d.key) \in TaskIds /\ d.pc # "idle"
      BY <1>1, <1>5 DEF Get, Bound, TaskIds
    <3>2. call' = [call EXCEPT ![c] = Holding(d, MockTask(d.key), FALSE)]
      BY <2>1 DEF Creating
    <3>. QED
      BY <1>4, <3>1, <3>2
  <2>2. CASE call' = [call EXCEPT ![c] = [d EXCEPT !.pc = "scan"]]
    <3>1. /\ [d EXCEPT !.pc = "scan"].pc = "scan"
          /\ [d EXCEPT !.pc = "scan"].key = d.key
          /\ [d EXCEPT !.pc = "scan"].page = d.page
      BY <1>1 DEF Call
    <3>. QED
      BY <1>2, <1>5, <2>2, <3>1 DEF Get
  <2>. QED
    BY <1>3, <1>5, <2>1, <2>2 DEF Get, Returned
<1>6. CASE Scan(c)
  <2>. DEFINE found == {i \in Page(d.page) : crm[i].marker = d.key}
  <2>0. crm \in Seq(CrmTask) /\ d.pc = "scan" /\ crm' = crm /\ d.key \in Keys
    BY <1>1, <1>6 DEF TypeInv, TypeOK, Scan, Bound
  <2>1. CASE \E i \in found : call' = [call EXCEPT ![c] = Holding(d, crm[i].id, TRUE)]
    <3>1. PICK i \in found : call' = [call EXCEPT ![c] = Holding(d, crm[i].id, TRUE)]
      BY <2>1
    <3>2. crm[i].id \in TaskIds
      BY <2>0, ListOK DEF Page, TaskIds
    <3>. QED
      BY <1>4, <2>0, <3>1, <3>2
  <2>2. CASE found = {}
    <3>1. \A i \in DOMAIN crm :
            (d.page - 1) * PageSize < i /\ i <= d.page * PageSize
              => crm[i].marker # d.key
      BY <2>2 DEF Page
    <3>2. CASE /\ LastPage(d.page) \/ d.page = MaxPages
               /\ call' = [call EXCEPT ![c] = Creating(d)]
      <4>1. Creating(d).key = d.key /\ Creating(d).pc \in {"put", "post"}
        BY <1>1, <2>0, CreatingOK
      <4>. QED
        BY <1>2, <2>0, <3>1, <3>2, <4>1 DEF LastPage
    <3>3. CASE call' = [call EXCEPT ![c] = [d EXCEPT !.page = @ + 1]]
      <4>1. /\ [d EXCEPT !.page = @ + 1].pc = d.pc
            /\ [d EXCEPT !.page = @ + 1].key = d.key
            /\ [d EXCEPT !.page = @ + 1].page = d.page + 1
        BY <1>1 DEF Call
      <4>. QED
        BY <1>2, <2>0, <3>1, <3>3, <4>1
    <3>. QED
      BY <1>1, <1>6, <2>2, <3>2, <3>3 DEF Scan, Searched
  <2>. QED
    BY <1>6, <2>1, <2>2 DEF Scan, Searched
<1>7. CASE Post(c)
  <2>0. d.pc = "post"
    BY <1>7 DEF Post, PostAccepted, PostLost, PostRefused, PostRejected
  <2>1. CASE PostAccepted(c)
    BY <1>4, <2>0, <2>1 DEF PostAccepted, Unused, TaskIds
  <2>2. CASE call' = [call EXCEPT ![c] = [d EXCEPT !.tries = @ + 1]]
    <3>1. /\ [d EXCEPT !.tries = @ + 1].pc = d.pc
          /\ [d EXCEPT !.tries = @ + 1].key = d.key
      BY <1>1 DEF Call
    <3>. QED
      BY <1>2, <2>0, <2>2, <3>1
  <2>. QED
    BY <1>1, <1>3, <1>7, <2>0, <2>1, <2>2
       DEF Post, PostLost, PostRefused, PostRejected, RetryOrRaise, Raised
<1>8. CASE Put(c)
  <2>1. /\ [d EXCEPT !.pc = "save"].pc = "save"
        /\ [d EXCEPT !.pc = "save"].key = d.key
    BY <1>1 DEF Call
  <2>2. call' = [call EXCEPT ![c] = [d EXCEPT !.pc = "save"]] /\ d.pc = "put"
    BY <1>1, <1>8 DEF Put
  <2>. QED
    BY <1>2, <2>1, <2>2
<1>9. CASE Save(c) \/ Stop(c)
  BY <1>3, <1>9 DEF Save, Stop, Returned, Raised
<1>. QED
  BY <1>5, <1>6, <1>7, <1>8, <1>9 DEF Step

-----------------------------------------------------------------------------
(***************************************************************************)
(* Calls that follow one another make no task twice.                       *)
(***************************************************************************)

\* One caller, which looks for its tasks and has an answer to every POST that
\* made one, or an error that is no reason to post again.
OneAtATime == Enabled /\ "lost" \notin Faults /\ \A b, c \in Callers : b = c

\* The account has no more tasks than a search reads.
WithinPages == IsFiniteSet(Tasks) /\ Cardinality(Tasks) <= MaxPages * PageSize

\* The marker of a key is in one task.
KeysApart(s) ==
  \A i, j \in DOMAIN s : s[i].marker = s[j].marker /\ s[i].marker # None => i = j

\* The task of call d's key is on none of the pages of s that d has read; when
\* d comes to post, there is none.
Unfound(s, d) ==
  /\ d.pc = "get" => d.page = 1
  /\ d.pc = "scan" =>
       \A i \in DOMAIN s : s[i].marker = d.key => i > Before(d.page)
  /\ d.pc = "post" => \A i \in DOMAIN s : s[i].marker # d.key

OneTaskInv ==
  /\ IdsApart(crm) /\ KeysApart(crm)
  /\ \A c \in Callers : Unfound(crm, call[c])

\* The list of tasks ends within the pages.
LEMMA ListEnds ==
  ASSUME WithinPages, NEW s \in Seq(CrmTask), IdsApart(s)
  PROVE  Len(s) <= MaxPages * PageSize
<1>. DEFINE S == 1..Len(s)
            f == [i \in S |-> s[i].id]
<1>1. DOMAIN s = S /\ Len(s) \in Nat /\ \A i \in S : s[i].id \in Tasks
  BY ListOK
<1>2. f \in Injection(S, Tasks)
  BY <1>1 DEF Injection, IsInjective, IdsApart
<1>3. Cardinality(S) <= Cardinality(Tasks) /\ Cardinality(Tasks) \in Nat
  BY <1>2, FS_Injection, FS_CardinalityType DEF WithinPages
<1>4. Cardinality(S) = Len(s)
  BY <1>1, FS_Interval
<1>5. MaxPages * PageSize \in Nat
  BY LimitsAssumption
<1>. QED
  BY <1>1, <1>3, <1>4, <1>5 DEF WithinPages

\* A new task in front, whose key no task has, and what it leaves to be found.
LEMMA NewTaskApart ==
  ASSUME NEW s \in Seq(CrmTask), NEW t \in CrmTask, KeysApart(s),
         t.marker = None \/ \A i \in DOMAIN s : s[i].marker # t.marker
  PROVE  KeysApart(<<t>> \o s)
<1>. DEFINE u == <<t>> \o s
<1>1. \A i \in DOMAIN u : \/ i = 1 /\ u[i] = t
                          \/ i - 1 \in DOMAIN s /\ u[i] = s[i - 1] /\ i \in Nat
  BY Prepending
<1>. HIDE DEF u
<1>2. KeysApart(u)
  <2>. SUFFICES ASSUME NEW i \in DOMAIN u, NEW j \in DOMAIN u,
                       u[i].marker = u[j].marker, u[i].marker # None
                PROVE  i = j
    BY DEF KeysApart
  <2>1. i = 1 <=> j = 1
    BY <1>1
  <2>2. CASE i # 1 /\ j # 1
    <3>1. i - 1 = j - 1
      BY <1>1, <2>2 DEF KeysApart
    <3>. QED
      BY <1>1, <2>2, <3>1
  <2>. QED
    BY <2>1, <2>2
<1>. QED
  BY <1>2 DEF u

LEMMA NewTaskUnfound ==
  ASSUME NEW s \in Seq(CrmTask), NEW t \in CrmTask, NEW d \in Call,
         Unfound(s, d), t.marker # d.key
  PROVE  Unfound(<<t>> \o s, d)
<1>. DEFINE u == <<t>> \o s
<1>1. \A i \in DOMAIN u : \/ i = 1 /\ u[i] = t
                          \/ i - 1 \in DOMAIN s /\ u[i] = s[i - 1] /\ i \in Nat
  BY Prepending
<1>. HIDE DEF u
<1>2. ASSUME d.pc = "scan", NEW i \in DOMAIN u, u[i].marker = d.key
      PROVE  i > Before(d.page)
  <2>1. i - 1 \in DOMAIN s /\ s[i - 1].marker = d.key /\ i \in Nat
    BY <1>1, <1>2
  <2>2. i - 1 > Before(d.page) /\ Before(d.page) \in Nat
    BY <1>2, <2>1, PagesOK DEF Unfound, Call
  <2>. QED
    BY <2>1, <2>2
<1>3. ASSUME d.pc = "post", NEW i \in DOMAIN u
      PROVE  u[i].marker # d.key
  BY <1>1, <1>3 DEF Unfound
<1>4. Unfound(u, d)
  BY <1>2, <1>3 DEF Unfound
<1>. QED
  BY <1>4 DEF u

\* A request that creates a task is the last of its call that posts.
LEMMA PostMakesOne ==
  ASSUME OneAtATime, TypeInv, NEW c \in Callers, Post(c)
  PROVE  \/ crm' = crm
         \/ /\ call[c].pc = "post" /\ call[c].key \in Keys
            /\ \E id \in Unused : Created(c, id)
            /\ call'[c].pc \in {"idle", "put"}
<1>1. /\ call \in [Callers -> Call] /\ call[c] \in Call /\ Bound(call[c])
      /\ call[c].pc = "post"
  BY DEF TypeInv, TypeOK, Post, PostAccepted, PostLost, PostRefused, PostRejected
<1>2. CASE PostAccepted(c)
  <2>1. PICK id \in Unused : /\ Created(c, id)
                             /\ call' = [call EXCEPT ![c] = Holding(@, id, FALSE)]
    BY <1>2 DEF PostAccepted
  <2>2. call'[c] = Holding(call[c], id, FALSE) /\ id \in TaskIds
    BY <1>1, <2>1 DEF Unused, TaskIds
  <2>3. call'[c].pc = "put"
    BY <1>1, <2>2 DEF Holding, Call
  <2>. QED
    BY <1>1, <2>1, <2>3 DEF Bound
<1>3. CASE PostRejected(c)
  <2>1. call'[c].pc = "idle"
    BY <1>1, <1>3, IdleCallOK DEF PostRejected, Raised
  <2>. QED
    BY <1>1, <1>3, <2>1 DEF PostRejected, Bound
<1>4. CASE PostRefused(c)
  BY <1>4 DEF PostRefused
<1>. QED
  BY <1>2, <1>3, <1>4 DEF Post, PostLost, OneAtATime

LEMMA OneTaskInit == Init => OneTaskInv
<1>. SUFFICES ASSUME Init PROVE OneTaskInv
  OBVIOUS
<1>1. IdsApart(crm) /\ KeysApart(crm)
  BY DEF Init, IdsApart, KeysApart
<1>2. \A c \in Callers : call[c].pc = "idle"
  BY IdleCallOK DEF Init
<1>. QED
  BY <1>1, <1>2 DEF OneTaskInv, Unfound

\* Call c ends, records, or goes on, and has then still not missed its task.
LEMMA StepUnfound ==
  ASSUME OneAtATime, WithinPages, TypeInv, OneTaskInv, NEW c \in Callers,
         Step(c) \/ Stop(c), crm' = crm
  PROVE  Unfound(crm, call'[c])
<1>. DEFINE d == call[c]
<1>1. /\ crm \in Seq(CrmTask) /\ d \in Call /\ d.key \in Keys
      /\ Unfound(crm, d) /\ IdsApart(crm)
  BY StepCalls DEF TypeInv, TypeOK, Bound, OneTaskInv
<1>2. call'[c].pc # "idle" => call'[c].key = d.key
  BY StepCalls
<1>3. CASE call'[c].pc \in {"idle", "put", "save"}
  BY <1>3 DEF Unfound
<1>4. CASE d.pc = "post" /\ call'[c].pc = "post"
  BY <1>1, <1>2, <1>4 DEF Unfound
<1>5. CASE d.pc = "get" /\ call'[c].pc = "scan" /\ call'[c].page = d.page
  <2>1. \A i \in DOMAIN crm : i > Before(1)
    BY <1>1, ListOK, PagesOK
  <2>. QED
    BY <1>1, <1>5, <2>1 DEF Unfound
<1>6. CASE /\ d.pc = "scan"
           /\ \A i \in DOMAIN crm :
                (d.page - 1) * PageSize < i /\ i <= d.page * PageSize
                  => crm[i].marker # d.key
           /\ \/ /\ call'[c].pc = "post"
                 /\ Len(crm) < d.page * PageSize \/ d.page = MaxPages
              \/ call'[c].pc = "scan" /\ call'[c].page = d.page + 1
  <2>1. d.page \in 1..MaxPages /\ d.page * PageSize \in Nat
    BY <1>1, PagesOK DEF Call
  <2>2. ASSUME NEW i \in DOMAIN crm, crm[i].marker = d.key
        PROVE  i > d.page * PageSize
    <3>1. i \in Nat /\ i > (d.page - 1) * PageSize
      BY <1>1, <1>6, <2>2, ListOK DEF Unfound, Before
    <3>. QED
      BY <1>6, <2>1, <2>2, <3>1
  <2>3. CASE /\ call'[c].pc = "post"
             /\ Len(crm) < d.page * PageSize \/ d.page = MaxPages
    <3>1. ASSUME NEW i \in DOMAIN crm, crm[i].marker = d.key PROVE FALSE
      <4>1. i \in Nat /\ i <= Len(crm) /\ Len(crm) \in Nat
        BY <1>1, ListOK
      <4>2. Len(crm) <= MaxPages * PageSize
        BY <1>1, ListEnds
      <4>3. i > d.page * PageSize
        BY <2>2, <3>1
      <4>4. CASE Len(crm) < d.page * PageSize
        BY <2>1, <4>1, <4>3, <4>4
      <4>5. CASE d.page = MaxPages
        BY <2>1, <4>1, <4>2, <4>3, <4>5
      <4>. QED
        BY <2>3, <4>4, <4>5
    <3>. QED
      BY <1>2, <2>3, <3>1 DEF Unfound
  <2>4. CASE call'[c].pc = "scan" /\ call'[c].page = d.page + 1
    <3>1. Before(call'[c].page) = d.page * PageSize
      BY <2>1, <2>4, PagesOK
    <3>. QED
      BY <1>2, <2>2, <2>4, <3>1 DEF Unfound
  <2>. QED
    BY <1>6, <2>3, <2>4
<1>. QED
  BY <1>3, <1>4, <1>5, <1>6, StepCalls

\* The steps of the calls, where others only create tasks.
NextUntouched ==
  \/ \E c \in Callers :
       \/ \E k \in Keys, m \in MockModes : CreateTask(c, k, m)
       \/ Step(c)
       \/ Stop(c)
  \/ OthersCreate

LEMMA UntouchedIsNext == [NextUntouched]_vars => [Next]_vars
BY DEF NextUntouched, Next

\* Each of them keeps to one task per key.
LEMMA OneTaskNext ==
  ASSUME OneAtATime, WithinPages, TypeInv, OneTaskInv, [NextUntouched]_vars
  PROVE  OneTaskInv'
<1>1. /\ crm \in Seq(CrmTask) /\ call \in [Callers -> Call]
      /\ IdsApart(crm) /\ KeysApart(crm)
      /\ \A c \in Callers : Unfound(crm, call[c])
  BY DEF TypeInv, TypeOK, OneTaskInv
<1>2. ASSUME NEW t \in CrmTask, t.id \in Unused, crm' = <<t>> \o crm,
             t.marker = None \/ \A i \in DOMAIN crm : crm[i].marker # t.marker
      PROVE  IdsApart(crm') /\ KeysApart(crm')
  <2>1. t.id \notin IdsOf(crm)
    BY <1>2 DEF Unused, IdsOf
  <2>. QED
    BY <1>1, <1>2, <2>1, PrependedMoves, NewTaskApart
<1>3. ASSUME NEW c \in Callers, NEW k \in Keys, NEW m \in MockModes,
             CreateTask(c, k, m)
      PROVE  OneTaskInv'
  <2>1. NewCall(k, m).pc = "get" /\ NewCall(k, m).page = 1
    BY SettingsAssumption, NewCallOK DEF NewCall, IdleCall
  <2>2. call' = [call EXCEPT ![c] = NewCall(k, m)] /\ crm' = crm
    BY <1>3 DEF CreateTask, OneAtATime
  <2>3. Unfound(crm, NewCall(k, m))
    BY <2>1 DEF Unfound
  <2>4. \A b \in Callers : call'[b] = NewCall(k, m) \/ call'[b] = call[b]
    BY <1>1, <2>2
  <2>. QED
    BY <1>1, <2>2, <2>3, <2>4 DEF OneTaskInv
<1>4. ASSUME NEW c \in Callers, Step(c) \/ Stop(c) PROVE OneTaskInv'
  <2>1. CASE crm' = crm
    <3>1. Unfound(crm, call'[c])
      BY <1>4, <2>1, StepUnfound
    <3>2. \A b \in Callers : b = c
      BY DEF OneAtATime
    <3>. QED
      BY <1>1, <2>1, <3>1, <3>2 DEF OneTaskInv
  <2>2. CASE crm' # crm
    <3>1. Post(c)
      BY <1>4, <2>2 DEF Step, Stop, Get, Scan, Put, Save
    <3>2. PICK id \in Unused :
            /\ Created(c, id) /\ call[c].pc = "post" /\ call[c].key \in Keys
            /\ call'[c].pc \in {"idle", "put"}
      BY <2>2, <3>1, PostMakesOne
    <3>. DEFINE t == [id |-> id, marker |-> call[c].key]
    <3>3. t \in CrmTask /\ t.id \in Unused /\ t.marker = call[c].key
      BY <3>2 DEF CrmTask, Unused
    <3>4. crm' = <<t>> \o crm
      BY <3>2 DEF Created
    <3>. HIDE DEF t
    <3>5. \A i \in DOMAIN crm : crm[i].marker # t.marker
      BY <1>1, <3>2, <3>3 DEF Unfound
    <3>6. IdsApart(crm') /\ KeysApart(crm')
      BY <1>2, <3>3, <3>4, <3>5
    <3>7. \A b \in Callers : Unfound(crm', call'[b])
      BY <3>2 DEF Unfound, OneAtATime
    <3>. QED
      BY <3>6, <3>7 DEF OneTaskInv
  <2>. QED
    BY <2>1, <2>2
<1>5. CASE OthersCreate
  <2>1. PICK id \in Unused : crm' = <<[id |-> id, marker |-> None]>> \o crm
    BY <1>5 DEF OthersCreate
  <2>. DEFINE t == [id |-> id, marker |-> None]
  <2>2. t \in CrmTask /\ t.id \in Unused /\ t.marker = None
    BY DEF CrmTask, Unused
  <2>3. crm' = <<t>> \o crm
    BY <2>1
  <2>. HIDE DEF t
  <2>4. IdsApart(crm') /\ KeysApart(crm')
    BY <1>2, <2>2, <2>3
  <2>5. ASSUME NEW b \in Callers PROVE Unfound(crm', call[b])
    <3>1. CASE call[b].pc = "idle"
      BY <3>1 DEF Unfound
    <3>2. CASE call[b].pc # "idle"
      <4>1. call[b].key \in Keys /\ None \notin Keys
        BY <3>2, NoneAssumption DEF TypeInv, Bound
      <4>. QED
        BY <1>1, <2>2, <2>3, <4>1, NewTaskUnfound
    <3>. QED
      BY <3>1, <3>2
  <2>. QED
    BY <1>5, <2>4, <2>5 DEF OneTaskInv, OthersCreate
<1>6. CASE UNCHANGED vars
  BY <1>6 DEF vars, OneTaskInv
<1>. QED
  BY <1>3, <1>4, <1>5, <1>6 DEF NextUntouched

\* Then AmoCRM has at most one task of each key.
LEMMA OneTaskEach == OneTaskInv => NoDuplicateTask
<1>. SUFFICES ASSUME OneTaskInv, NEW k \in Keys
              PROVE  Cardinality(TasksOf(k)) <= 1
  BY DEF NoDuplicateTask
<1>1. \A i, j \in TasksOf(k) : i = j
  BY NoneAssumption DEF OneTaskInv, KeysApart, TasksOf
<1>2. CASE TasksOf(k) = {}
  BY <1>2, FS_EmptySet
<1>3. CASE TasksOf(k) # {}
  <2>1. PICK i : TasksOf(k) = {i}
    BY <1>1, <1>3
  <2>. QED
    BY <2>1, FS_Singleton
<1>. QED
  BY <1>2, <1>3

-----------------------------------------------------------------------------
(***************************************************************************)
(* How a call ends, and what real calls end with.                          *)
(***************************************************************************)

\* A step of a call gives it an outcome, for its key, only when it returns.
LEMMA StepOutcomes ==
  ASSUME TypeInv, NEW c \in Callers, Step(c) \/ Stop(c)
  PROVE  /\ \A b \in Callers \ {c} : outcome'[b] = outcome[b]
         /\ \/ outcome'[c] = outcome[c]
            \/ /\ call'[c].pc = "idle" /\ outcome'[c].key = call[c].key
               /\ \/ /\ call[c].pc = "get" /\ store[call[c].key] # None
                     /\ outcome'[c].task = store[call[c].key]
                  \/ call[c].pc = "save" /\ outcome'[c].task = call[c].task
<1>1. /\ outcome \in [Callers -> Outcome \cup {None}]
      /\ call \in [Callers -> Call]
  BY DEF TypeInv, TypeOK
<1>2. ASSUME NEW t, NEW b, Returned(c, t, b)
      PROVE  /\ \A e \in Callers \ {c} : outcome'[e] = outcome[e]
             /\ call'[c].pc = "idle"
             /\ outcome'[c].key = call[c].key /\ outcome'[c].task = t
  <2>. DEFINE o == [key |-> call[c].key, task |-> t, mocked |-> call[c].mock,
                    reused |-> b]
  <2>1. outcome' = [outcome EXCEPT ![c] = o] /\ call' = [call EXCEPT ![c] = IdleCall]
    BY <1>2 DEF Returned
  <2>2. o.key = call[c].key /\ o.task = t
    OBVIOUS
  <2>. HIDE DEF o
  <2>. QED
    BY <1>1, <2>1, <2>2, IdleCallOK
<1>3. CASE UNCHANGED outcome
  BY <1>3
<1>4. CASE Get(c) /\ ~UNCHANGED outcome
  <2>1. /\ call[c].pc = "get" /\ store[call[c].key] # None
        /\ Returned(c, store[call[c].key], TRUE)
    BY <1>4 DEF Get
  <2>. QED
    BY <1>2, <2>1
<1>5. CASE Save(c)
  BY <1>2, <1>5 DEF Save
<1>. QED
  BY <1>3, <1>4, <1>5
     DEF Step, Stop, Scan, Post, PostAccepted, PostLost, PostRefused,
         PostRejected, RetryOrRaise, Raised, Put

\* Without MOCK_CRM no task is made up, held or recorded.
NoMocks ==
  /\ \A k \in Keys : store[k] \in Tasks \cup {None}
  /\ \A c \in Callers : /\ ~call[c].mock
                        /\ call[c].pc \in {"put", "save"} => call[c].task \in Tasks

LEMMA NoMocksInit == Init => NoMocks
<1>. SUFFICES ASSUME Init PROVE NoMocks
  OBVIOUS
<1>1. \A c \in Callers : call[c] = IdleCall
  BY DEF Init
<1>2. \A k \in Keys : store[k] = None
  BY DEF Init
<1>. QED
  BY <1>1, <1>2 DEF NoMocks, IdleCall

\* One call becomes d, which has made nothing up.
LEMMA RealCallBecomes ==
  ASSUME TypeInv, NoMocks, NEW c \in Callers, NEW d,
         call' = [call EXCEPT ![c] = d], ~d.mock,
         d.pc \in {"put", "save"} => d.task \in Tasks,
         UNCHANGED store
  PROVE  NoMocks'
<1>1. call \in [Callers -> Call]
  BY DEF TypeInv, TypeOK
<1>2. \A b \in Callers : call'[b] = d \/ call'[b] = call[b]
  BY <1>1
<1>. QED
  BY <1>2 DEF NoMocks

LEMMA NoMocksNext ==
  ASSUME MockModes \subseteq {FALSE}, TypeInv, NoMocks, [Next]_vars
  PROVE  NoMocks'
<1>0. /\ call \in [Callers -> Call] /\ \A c \in Callers : Bound(call[c])
      /\ crm \in Seq(CrmTask) /\ store \in [Keys -> TaskIds \cup {None}]
  BY DEF TypeInv, TypeOK
<1>14. ~IdleCall.mock
  BY DEF IdleCall
<1>1. ASSUME NEW c \in Callers, Raised(c), UNCHANGED store PROVE NoMocks'
  BY <1>1, <1>14, RealCallBecomes, IdleCallOK DEF Raised
<1>2. ASSUME NEW c \in Callers, NEW t, NEW b, Returned(c, t, b), UNCHANGED store
      PROVE  NoMocks'
  BY <1>2, <1>14, RealCallBecomes, IdleCallOK DEF Returned
<1>3. ASSUME NEW c \in Callers, NEW t \in Tasks, NEW b \in BOOLEAN,
             call' = [call EXCEPT ![c] = Holding(call[c], t, b)], UNCHANGED store
      PROVE  NoMocks'
  <2>1. Holding(call[c], t, b).task = t /\ Holding(call[c], t, b).mock = call[c].mock
    BY <1>0 DEF Holding, Call
  <2>. QED
    BY <1>3, <2>1, RealCallBecomes DEF NoMocks
<1>4. ASSUME NEW c \in Callers, NEW pc \in {"scan", "post"},
             call' = [call EXCEPT ![c] = [call[c] EXCEPT !.pc = pc]],
             UNCHANGED store
      PROVE  NoMocks'
  <2>1. /\ [call[c] EXCEPT !.pc = pc].pc = pc
        /\ [call[c] EXCEPT !.pc = pc].mock = call[c].mock
    BY <1>0, GoesTo
  <2>. QED
    BY <1>4, <2>1, RealCallBecomes DEF NoMocks
<1>5. ASSUME NEW c \in Callers
      PROVE  Creating(call[c]) = [call[c] EXCEPT !.pc = "post"]
  BY DEF NoMocks, Creating
<1>6. ASSUME NEW c \in Callers, NEW k \in Keys, NEW m \in MockModes,
             CreateTask(c, k, m)
      PROVE  NoMocks'
  <2>. DEFINE d == NewCall(k, m)
              p == [d EXCEPT !.pc = "post"]
  <2>1. d \in Call /\ d.pc = "get" /\ ~d.mock
    BY NewCallOK
  <2>2. p.pc = "post" /\ ~p.mock
    BY <2>1, GoesTo
  <2>3. call' = [call EXCEPT ![c] = IF Enabled THEN d ELSE p] /\ UNCHANGED store
    BY <1>6, <2>1 DEF CreateTask, Creating
  <2>. HIDE DEF d, p
  <2>. QED
    BY <2>1, <2>2, <2>3, RealCallBecomes
<1>7. ASSUME NEW c \in Callers, Get(c) PROVE NoMocks'
  <2>1. CASE \E t, b : Returned(c, t, b)
    BY <1>2, <1>7, <2>1 DEF Get
  <2>2. CASE call' = [call EXCEPT ![c] = [call[c] EXCEPT !.pc = "scan"]]
    BY <1>4, <1>7, <2>2 DEF Get
  <2>. QED
    BY <1>7, <2>1, <2>2 DEF Get, NoMocks
<1>8. ASSUME NEW c \in Callers, Scan(c) PROVE NoMocks'
  <2>1. UNCHANGED store
    BY <1>8 DEF Scan
  <2>2. CASE \E i \in DOMAIN crm : call' = [call EXCEPT ![c] = Holding(call[c], crm[i].id, TRUE)]
    BY <1>0, <1>3, <2>1, <2>2, ListOK
  <2>3. CASE call' = [call EXCEPT ![c] = Creating(call[c])]
    BY <1>4, <1>5, <2>1, <2>3
  <2>4. CASE call' = [call EXCEPT ![c] = [call[c] EXCEPT !.page = @ + 1]]
    <3>1. /\ [call[c] EXCEPT !.page = @ + 1].pc = call[c].pc
          /\ [call[c] EXCEPT !.page = @ + 1].mock = call[c].mock
          /\ [call[c] EXCEPT !.page = @ + 1].task = call[c].task
      BY <1>0 DEF Call
    <3>. QED
      BY <2>1, <2>4, <3>1, RealCallBecomes DEF NoMocks
  <2>. QED
    BY <1>0, <1>8, <2>2, <2>3, <2>4 DEF Scan, Searched, Page
<1>9. ASSUME NEW c \in Callers, RetryOrRaise(c), UNCHANGED store PROVE NoMocks'
  <2>1. CASE call' = [call EXCEPT ![c] = [call[c] EXCEPT !.tries = @ + 1]]
    <3>1. /\ [call[c] EXCEPT !.tries = @ + 1].pc = call[c].pc
          /\ [call[c] EXCEPT !.tries = @ + 1].mock = call[c].mock
          /\ [call[c] EXCEPT !.tries = @ + 1].task = call[c].task
      BY <1>0 DEF Call
    <3>. QED
      BY <1>9, <2>1, <3>1, RealCallBecomes DEF NoMocks
  <2>. QED
    BY <1>0, <1>1, <1>9, <2>1 DEF RetryOrRaise
<1>10. ASSUME NEW c \in Callers, Post(c) PROVE NoMocks'
  <2>1. CASE PostAccepted(c)
    <3>1. PICK id \in Unused : call' = [call EXCEPT ![c] = Holding(call[c], id, FALSE)]
      BY <1>0, <2>1 DEF PostAccepted
    <3>. QED
      BY <1>3, <2>1, <3>1 DEF PostAccepted, Unused
  <2>. QED
    BY <1>1, <1>9, <1>10, <2>1 DEF Post, PostLost, PostRefused, PostRejected
<1>11. ASSUME NEW c \in Callers, Put(c) PROVE NoMocks'
  <2>1. call[c].task \in Tasks /\ ~call[c].mock /\ call[c].pc = "put"
    BY <1>11 DEF Put, NoMocks
  <2>2. \A k \in Keys : store'[k] \in Tasks \cup {None}
    BY <1>0, <1>11, <2>1 DEF Put, NoMocks
  <2>3. /\ [call[c] EXCEPT !.pc = "save"].task = call[c].task
        /\ [call[c] EXCEPT !.pc = "save"].mock = call[c].mock
    BY <1>0 DEF Call
  <2>4. \A b \in Callers : \/ call'[b] = [call[c] EXCEPT !.pc = "save"]
                           \/ call'[b] = call[b]
    BY <1>0, <1>11 DEF Put
  <2>. QED
    BY <2>1, <2>2, <2>3, <2>4 DEF NoMocks
<1>12. ASSUME NEW c \in Callers, Save(c) \/ Stop(c) PROVE NoMocks'
  BY <1>1, <1>2, <1>12 DEF Save, Stop
<1>13. CASE UNCHANGED <<store, call>>
  BY <1>13 DEF NoMocks
<1>. QED
  BY <1>6, <1>7, <1>8, <1>10, <1>11, <1>12, <1>13
     DEF Next, Step, OthersCreate, OthersTouch, vars

\* A real call returns a task of AmoCRM's with the text that it was asked for.
LEMMA RealOutcome ==
  ASSUME TypeInv, NoMocks, TypeInv', NamesInv(crm)', NEW c \in Callers,
         Step(c) \/ Stop(c), outcome'[c] # outcome[c], outcome'[c] # None
  PROVE  call'[c].pc = "idle" /\ NamedIn(crm', call[c].key, outcome'[c].task)
<1>1. /\ call'[c].pc = "idle" /\ outcome'[c].key = call[c].key
      /\ \/ /\ call[c].pc = "get" /\ store[call[c].key] # None
            /\ outcome'[c].task = store[call[c].key]
         \/ call[c].pc = "save" /\ outcome'[c].task = call[c].task
  BY StepOutcomes
<1>2. call[c].key \in Keys
  BY <1>1 DEF TypeInv, Bound
<1>3. OutcomeNamed(crm', outcome'[c])
  BY DEF NamesInv
<1>4. outcome'[c].task \in Tasks
  <2>1. CASE call[c].pc = "get"
    BY <1>1, <1>2, <2>1 DEF NoMocks
  <2>2. CASE call[c].pc = "save"
    BY <1>1, <2>2 DEF NoMocks
  <2>. QED
    BY <1>1, <2>1, <2>2
<1>. QED
  BY <1>1, <1>2, <1>3, <1>4, MockAssumption DEF OutcomeNamed

-----------------------------------------------------------------------------
(***************************************************************************)
(* No search overlooks a task that it could have relied on.                *)
(***************************************************************************)

\* What call d ought to find in list s, K, is within reach and, while it
\* searches, not on the pages that it has read; when it comes to post, there is
\* nothing left.
Hunts(s, d, K) ==
  /\ d.pc = "idle" => K = {}
  /\ d.pc # "idle" => K \subseteq WithinReach(s, d.key)
  /\ d.pc = "get" => d.page = 1
  /\ Enabled /\ d.pc = "scan" =>
       \A i \in DOMAIN s : s[i].id \in K => i > Before(d.page)
  /\ Enabled /\ d.pc = "post" => K = {}

KnownInv ==
  /\ IdsApart(crm)
  /\ known \in [Callers -> SUBSET Tasks]
  /\ \A c \in Callers : Hunts(crm, call[c], known[c])

LEMMA ReachIsPages == Reach \in Nat /\ Reach = MaxPages * PageSize
<1>1. PageSize \in Nat /\ MaxPages \in Nat
  BY LimitsAssumption
<1>2. \A m, n \in Nat : m * n \in Nat /\ m * n = n * m
  OBVIOUS
<1>. QED
  BY <1>1, <1>2 DEF Reach

LEMMA ReachOK ==
  ASSUME NEW s \in Seq(CrmTask), NEW k
  PROVE  /\ WithinReach(s, k) \subseteq IdsOf(s) /\ IdsOf(s) \subseteq Tasks
         /\ \A t \in WithinReach(s, k) :
              \E i \in DOMAIN s : i <= Reach /\ s[i].marker = k /\ s[i].id = t
BY ListOK DEF WithinReach, IdsOf

-----------------------------------------------------------------------------
(***************************************************************************)
(* How a search goes on.                                                   *)
(***************************************************************************)

\* A call that does nothing goes on knowing what is still to be found.
LEMMA HuntGoesOn ==
  ASSUME NEW s \in Seq(CrmTask), NEW t \in Seq(CrmTask), NEW M,
         PushedBack(s, t, M), NEW d \in Call, NEW K, Hunts(s, d, K),
         NEW L, L \subseteq K \ M, d.pc = "idle" => L = {},
         d.pc # "idle" => L \subseteq WithinReach(t, d.key)
  PROVE  Hunts(t, d, L)
<1>1. ASSUME Enabled, d.pc = "scan", NEW i \in DOMAIN t, t[i].id \in L
      PROVE  i > Before(d.page)
  <2>1. PICK j \in DOMAIN s : j <= i /\ s[j].id = t[i].id
    BY <1>1 DEF PushedBack
  <2>2. j > Before(d.page)
    BY <1>1, <2>1 DEF Hunts
  <2>3. i \in Nat /\ j \in Nat /\ Before(d.page) \in Nat
    BY ListOK, PagesOK DEF Call
  <2>. QED
    BY <2>1, <2>2, <2>3
<1>. QED
  BY <1>1 DEF Hunts

\* A search that found nothing on a page has nothing to find up to its end.
LEMMA PageRead ==
  ASSUME NEW s \in Seq(CrmTask), IdsApart(s), NEW d \in Call, NEW K,
         Hunts(s, d, K), Enabled, d.pc = "scan",
         \A i \in DOMAIN s :
           (d.page - 1) * PageSize < i /\ i <= d.page * PageSize
             => s[i].marker # d.key
  PROVE  \A i \in DOMAIN s : s[i].id \in K => i > d.page * PageSize
<1>. SUFFICES ASSUME NEW i \in DOMAIN s, s[i].id \in K
              PROVE  i > d.page * PageSize
  OBVIOUS
<1>1. i > (d.page - 1) * PageSize
  BY DEF Hunts, Before
<1>2. PICK j \in DOMAIN s : s[j].marker = d.key /\ s[j].id = s[i].id
  BY ReachOK DEF Hunts
<1>3. s[i].marker = d.key
  BY <1>2 DEF IdsApart
<1>4. i \in Nat /\ d.page * PageSize \in Nat
  BY ListOK, PagesOK DEF Call
<1>. QED
  BY <1>1, <1>3, <1>4

\* After a short page, or the last that it reads, it has nothing to find.
LEMMA SearchOver ==
  ASSUME NEW s \in Seq(CrmTask), NEW d \in Call, NEW K,
         K \subseteq WithinReach(s, d.key),
         Len(s) < d.page * PageSize \/ d.page = MaxPages,
         \A i \in DOMAIN s : s[i].id \in K => i > d.page * PageSize
  PROVE  K = {}
<1>. SUFFICES ASSUME NEW t \in K PROVE FALSE
  OBVIOUS
<1>1. PICK i \in DOMAIN s : i <= Reach /\ s[i].id = t
  BY ReachOK
<1>2. i > d.page * PageSize
  BY <1>1
<1>3. i \in Nat /\ d.page * PageSize \in Nat /\ i <= Len(s) /\ Len(s) \in Nat
  BY ListOK, PagesOK, ReachIsPages DEF Call
<1>. QED
  BY <1>1, <1>2, <1>3, PagesOK, ReachIsPages

\* The list changes by tasks that come first: new ones, and one that others
\* edit.
LEMMA ListMoves ==
  ASSUME TypeInv, IdsApart(crm), [HistoryNext]_historyVars
  PROVE  /\ IdsApart(crm')
         /\ \E M : /\ PushedBack(crm, crm', M)
                   /\ \/ M \cap IdsOf(crm) = {}
                      \/ OthersTouchH /\ M = {crm'[1].id}
<1>0. crm \in Seq(CrmTask) /\ call \in [Callers -> Call]
  BY DEF TypeInv, TypeOK
<1>1. CASE crm' = crm
  <2>1. \A i \in DOMAIN crm : i <= i
    BY <1>0, ListOK
  <2>2. PushedBack(crm, crm', {})
    BY <1>1, <2>1 DEF PushedBack
  <2>. QED
    BY <1>1, <2>2
<1>2. ASSUME NEW t \in CrmTask, t.id \in Unused, crm' = <<t>> \o crm
      PROVE  IdsApart(crm') /\ \E M : /\ PushedBack(crm, crm', M)
                                      /\ M \cap IdsOf(crm) = {}
  <2>1. t.id \notin IdsOf(crm)
    BY <1>2 DEF Unused, IdsOf
  <2>2. IdsApart(crm') /\ PushedBack(crm, crm', {t.id})
    BY <1>0, <1>2, <2>1, PrependedMoves
  <2>. QED
    BY <2>1, <2>2
<1>3. ASSUME NEW c \in Callers, NEW id \in Unused, Created(c, id)
      PROVE  \E t \in CrmTask : t.id \in Unused /\ crm' = <<t>> \o crm
  <2>1. call[c].key \in Keys \cup {None} /\ id \in Tasks
    BY <1>0 DEF Call, Unused
  <2>2. [id |-> id, marker |-> call[c].key] \in CrmTask
    BY <2>1 DEF CrmTask
  <2>. QED
    BY <1>3, <2>2 DEF Created
<1>4. CASE OthersCreateH
  <2>1. PICK id \in Unused : crm' = <<[id |-> id, marker |-> None]>> \o crm
    BY <1>4 DEF OthersCreateH, OthersCreate
  <2>2. [id |-> id, marker |-> None] \in CrmTask
    BY DEF CrmTask, Unused
  <2>. QED
    BY <1>2, <2>1, <2>2
<1>5. CASE OthersTouchH
  <2>1. PICK i \in DOMAIN crm : crm' = ToFront(crm, i)
    BY <1>5 DEF OthersTouchH, OthersTouch
  <2>. QED
    BY <1>0, <1>5, <2>1, TouchedMoves
<1>6. ASSUME NEW c \in Callers, Post(c)
      PROVE  crm' = crm \/ \E id \in Unused : Created(c, id)
  BY <1>6 DEF Post, PostAccepted, PostLost, PostRefused, PostRejected
<1>7. \/ crm' = crm \/ OthersCreateH \/ OthersTouchH
      \/ \E c \in Callers : Post(c)
  BY DEF HistoryNext, historyVars, vars, CreateTaskH, CreateTask, StepH, Step,
         Get, Scan, Put, Save, StopH, Stop
<1>. QED
  BY <1>1, <1>2, <1>3, <1>4, <1>5, <1>6, <1>7

LEMMA HistoryInitIsInit == HistoryInit => Init
BY DEF HistoryInit

LEMMA HistoryNextIsNext == [HistoryNext]_historyVars => [Next]_vars
BY DEF HistoryNext, historyVars, CreateTaskH, StepH, StopH, OthersCreateH,
       OthersTouchH, Next

LEMMA KnownInit == HistoryInit => KnownInv
<1>. SUFFICES ASSUME HistoryInit PROVE KnownInv
  OBVIOUS
<1>1. IdsApart(crm)
  BY DEF HistoryInit, Init, IdsApart
<1>2. \A c \in Callers : Hunts(crm, call[c], known[c])
  BY IdleCallOK DEF HistoryInit, Init, Hunts
<1>. QED
  BY <1>1, <1>2 DEF KnownInv, HistoryInit

LEMMA KnownNext ==
  TypeInv /\ KnownInv /\ [HistoryNext]_historyVars => KnownInv'
<1>. SUFFICES ASSUME TypeInv, KnownInv, [HistoryNext]_historyVars
              PROVE  KnownInv'
  OBVIOUS
<1>0. /\ crm \in Seq(CrmTask) /\ crm' \in Seq(CrmTask)
      /\ call \in [Callers -> Call] /\ call' \in [Callers -> Call]
      /\ IdsApart(crm) /\ known \in [Callers -> SUBSET Tasks]
      /\ \A c \in Callers : Hunts(crm, call[c], known[c])
  BY TypeInvNext, HistoryNextIsNext DEF TypeInv, TypeOK, KnownInv
<1>1. IdsApart(crm')
  BY <1>0, ListMoves
<1>2. PICK M : /\ PushedBack(crm, crm', M)
               /\ \/ M \cap IdsOf(crm) = {}
                  \/ OthersTouchH /\ M = {crm'[1].id}
  BY <1>0, ListMoves
<1>3. ASSUME NEW c \in Callers, NEW k \in Keys, NEW m \in MockModes,
             CreateTaskH(c, k, m)
      PROVE  KnownInv'
  <2>. DEFINE d == NewCall(k, m)
  <2>1. /\ d \in Call /\ d.pc = "get" /\ d.key = k /\ d.page = 1
    BY SettingsAssumption, NewCallOK DEF NewCall, IdleCall
  <2>2. /\ call' = [call EXCEPT ![c] = IF Enabled THEN d ELSE Creating(d)]
        /\ known' = [known EXCEPT ![c] = WithinReach(crm, k)] /\ crm' = crm
    BY <1>3 DEF CreateTaskH, CreateTask
  <2>3. Creating(d).key = k /\ Creating(d).pc \in {"put", "post"}
    BY <2>1, CreatingOK
  <2>4. WithinReach(crm, k) \subseteq Tasks
    BY <1>0, ReachOK
  <2>. HIDE DEF d
  <2>5. Hunts(crm', call'[c], known'[c])
    BY <1>0, <2>1, <2>2, <2>3 DEF Hunts
  <2>6. \A b \in Callers \ {c} : Hunts(crm', call'[b], known'[b])
    BY <1>0, <2>2
  <2>. QED
    BY <1>0, <1>1, <2>2, <2>4, <2>5, <2>6 DEF KnownInv
<1>4. ASSUME NEW moved, StillKnown(moved), NEW b \in Callers
      PROVE  /\ call'[b].pc = "idle" => known'[b] = {}
             /\ call'[b].pc # "idle" =>
                  /\ known'[b] \subseteq known[b] \ moved
                  /\ known'[b] \subseteq WithinReach(crm', call[b].key)
             /\ known'[b] \subseteq known[b]
  BY <1>4 DEF StillKnown
<1>5. ASSUME NEW moved, StillKnown(moved), NEW b \in Callers, call'[b] = call[b],
             M \cap IdsOf(crm) = {} \/ M = moved
      PROVE  Hunts(crm', call'[b], known'[b])
  <2>1. known[b] \subseteq IdsOf(crm)
    BY <1>0, ReachOK DEF Hunts
  <2>2. known'[b] \subseteq known[b] \ M
    BY <1>4, <1>5, <2>1
  <2>3. call[b].pc = "idle" => known'[b] = {}
    BY <1>4, <1>5
  <2>4. call[b].pc # "idle" => known'[b] \subseteq WithinReach(crm', call[b].key)
    BY <1>4, <1>5
  <2>. QED
    BY <1>0, <1>2, <1>5, <2>2, <2>3, <2>4, HuntGoesOn
<1>6. ASSUME NEW moved, StillKnown(moved)
      PROVE  known' \in [Callers -> SUBSET Tasks]
  BY <1>0, <1>6 DEF StillKnown
<1>7. CASE OthersTouchH
  <2>1. StillKnown({crm'[1].id}) /\ call' = call
    BY <1>7 DEF OthersTouchH, OthersTouch
  <2>. QED
    BY <1>1, <1>2, <1>5, <1>6, <1>7, <2>1 DEF KnownInv
<1>8. CASE ~OthersTouchH /\ OthersCreateH
  <2>1. StillKnown({}) /\ call' = call
    BY <1>8 DEF OthersCreateH, OthersCreate
  <2>. QED
    BY <1>1, <1>2, <1>5, <1>6, <1>8, <2>1 DEF KnownInv
<1>9. ASSUME NEW c \in Callers, StepH(c) \/ StopH(c), ~OthersTouchH
      PROVE  KnownInv'
  <2>. DEFINE d == call[c]
  <2>1. (Step(c) \/ Stop(c)) /\ StillKnown({})
    BY <1>9 DEF StepH, StopH
  <2>0. /\ d.pc # "idle" /\ \A b \in Callers \ {c} : call'[b] = call[b]
        /\ call'[c].pc # "idle" => call'[c].key = d.key
    BY <2>1, StepCalls
  <2>2. \A b \in Callers \ {c} : Hunts(crm', call'[b], known'[b])
    <3>1. M \cap IdsOf(crm) = {}
      BY <1>2, <1>9
    <3>. QED
      BY <1>5, <2>0, <2>1, <3>1
  <2>3. /\ d \in Call /\ d.pc # "idle" /\ Hunts(crm, d, known[c])
        /\ known'[c] \subseteq known[c]
        /\ call'[c].pc = "idle" => known'[c] = {}
        /\ call'[c].pc # "idle" =>
             known'[c] \subseteq WithinReach(crm', call'[c].key)
    <3>1. d \in Call /\ Hunts(crm, d, known[c])
      BY <1>0
    <3>2. /\ known'[c] \subseteq known[c]
          /\ call'[c].pc = "idle" => known'[c] = {}
          /\ call'[c].pc # "idle" => known'[c] \subseteq WithinReach(crm', d.key)
      BY <1>4, <2>1
    <3>. QED
      BY <2>0, <3>1, <3>2
  <2>4. Hunts(crm', call'[c], known'[c])
    <3>1. CASE call'[c].pc \in {"idle", "put", "save"}
      BY <2>3, <3>1 DEF Hunts
    <3>2. CASE d.pc = "post" /\ call'[c].pc = "post"
      BY <2>3, <3>2 DEF Hunts
    <3>3. CASE /\ d.pc = "get" /\ call'[c].pc = "scan"
               /\ call'[c].page = d.page /\ crm' = crm
      <4>1. \A i \in DOMAIN crm : i > Before(d.page)
        BY <1>0, <2>3, <3>3, ListOK, PagesOK DEF Hunts
      <4>. QED
        BY <2>3, <3>3, <4>1 DEF Hunts
    <3>4. CASE /\ d.pc = "scan" /\ crm' = crm
               /\ \A i \in DOMAIN crm :
                    (d.page - 1) * PageSize < i /\ i <= d.page * PageSize
                      => crm[i].marker # d.key
               /\ \/ /\ call'[c].pc = "post"
                     /\ Len(crm) < d.page * PageSize \/ d.page = MaxPages
                  \/ call'[c].pc = "scan" /\ call'[c].page = d.page + 1
      <4>1. Enabled => \A i \in DOMAIN crm :
                         crm[i].id \in known[c] => i > d.page * PageSize
        BY <1>0, <2>3, <3>4, PageRead
      <4>2. CASE /\ call'[c].pc = "post"
                 /\ Len(crm) < d.page * PageSize \/ d.page = MaxPages
        <5>1. Enabled => known[c] = {}
          <6>1. known[c] \subseteq WithinReach(crm, d.key)
            BY <2>3 DEF Hunts
          <6>. QED
            BY <1>0, <2>3, <4>1, <4>2, <6>1, SearchOver
        <5>. QED
          BY <2>3, <4>2, <5>1 DEF Hunts
      <4>3. CASE call'[c].pc = "scan" /\ call'[c].page = d.page + 1
        <5>1. Before(call'[c].page) = d.page * PageSize
          BY <2>3, <4>3, PagesOK DEF Call
        <5>. QED
          BY <2>3, <3>4, <4>1, <4>3, <5>1 DEF Hunts
      <4>. QED
        BY <3>4, <4>2, <4>3
    <3>. QED
      BY <2>1, <3>1, <3>2, <3>3, <3>4, StepCalls
  <2>. QED
    BY <1>1, <1>6, <2>1, <2>2, <2>4 DEF KnownInv
<1>10. CASE UNCHANGED historyVars
  BY <1>10 DEF historyVars, vars, KnownInv
<1>. QED
  BY <1>3, <1>7, <1>8, <1>9, <1>10 DEF HistoryNext

\* With CRM_IDEMPOTENCY_ENABLED a call posts a task only if the account has
\* none with its key, apart from those that came, or were edited, while the call
\* was under way and those that are out of reach of the search: whatever fails,
\* with any number of runs at once, and however the list moves between two
\* requests.
THEOREM NoDuplicateIsAvoidable == HistorySpec => []NoAvoidableDuplicate
<1>1. HistorySpec => [](TypeInv /\ KnownInv)
  BY HistoryInitIsInit, HistoryNextIsNext, TypeInvInit, TypeInvNext, KnownInit,
     KnownNext, PTL DEF HistorySpec
<1>2. KnownInv => NoAvoidableDuplicate
  BY DEF KnownInv, Hunts, NoAvoidableDuplicate
<1>. QED
  BY <1>1, <1>2, PTL
=============================================================================
