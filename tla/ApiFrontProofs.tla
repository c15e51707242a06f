---------------------------- MODULE ApiFrontProofs ----------------------------
(***************************************************************************)
(* Theorems about ApiFront, for every set of deployments, accounts and     *)
(* balances, whatever breaks and is repaired between two calls.            *)
(***************************************************************************)
EXTENDS ApiFront, FiniteSetTheorems, WellFoundedInduction, TLAPS

-----------------------------------------------------------------------------
(***************************************************************************)
(* The inductive invariants.                                               *)
(***************************************************************************)

\* A request has no answer while it is handled, and has left nothing behind
\* until it is let in, and nothing but its hit until its key.
Admission ==
  /\ at.pc \in RequestPcs \cup ProbePcs => api /\ answer = None
  /\ at.pc \in {"auth", "limit"} => effects = {}
  /\ at.pc \in {"list", "get", "credentials", "packages", "balance"}
       => effects \subseteq {"hit"}

AdmissionInv == TypeOK /\ Admission /\ RefusalLeavesNothing

\* A live process has the table that it made or that was migrated.
TableInv ==
  /\ api => table = "schema"
  /\ told # None => api

\* What a probe has found out, while nothing fails: the file of a live process
\* can be opened, so that the directory is what matters with SQLite.
DbIsFine == JobTable = {"data_dir"} \/ JobTable \subseteq up

DirIsFine == "data_dir" \in up

RedisIsFine == NeedsRedis => "redis" \in up

ProbeInv ==
  calm =>
    /\ at.pc = "check_dir" /\ at.ok => DbIsFine
    /\ at.pc = "ping_redis" /\ at.ok => DbIsFine /\ DirIsFine
    /\ told = 200 => DbIsFine /\ DirIsFine /\ RedisIsFine

ReadyInv == TableInv /\ ProbeInv /\ ReadyIsServed

-----------------------------------------------------------------------------
(***************************************************************************)
(* Lemmas about the handler that the event loop is in.                     *)
(***************************************************************************)
Handlers == [pc : {"idle"} \cup RequestPcs \cup ProbePcs, input : Inputs,
             listed : Accounts \cup {None}, ok : BOOLEAN]

\* The event loop can be in no handler.
LEMMA IdleIsAHandler == Idle \in Handlers /\ Idle.pc = "idle"
  BY DEF Idle, Handlers, Inputs

\* A handler that begins is in its first step and in nothing else.
LEMMA Begun ==
  /\ [Idle EXCEPT !.pc = "ping_db"] \in Handlers
  /\ [Idle EXCEPT !.pc = "ping_db"].pc = "ping_db"
  BY DEF Idle, Handlers, ProbePcs, Inputs

LEMMA RequestBegun ==
  ASSUME BeginRequest
  PROVE  at' \in Handlers /\ at'.pc = "auth"
  BY DEF BeginRequest, Idle, Handlers, RequestPcs

\* A handler that goes on keeps what it saw.
LEMMA Moved ==
  ASSUME NEW h \in Handlers, NEW pc \in {"idle"} \cup RequestPcs \cup ProbePcs
  PROVE  /\ [h EXCEPT !.pc = pc] \in Handlers
         /\ [h EXCEPT !.pc = pc].pc = pc
         /\ [h EXCEPT !.pc = pc].ok = h.ok
         /\ [h EXCEPT !.pc = pc].input = h.input
  BY DEF Handlers

\* The check goes on with the account that proxy.market listed.
Seen(h, pc, account) == [h EXCEPT !.pc = pc, !.listed = account]

LEMMA Saw ==
  ASSUME NEW h \in Handlers, NEW account \in Accounts,
         NEW pc \in {"idle"} \cup RequestPcs
  PROVE  Seen(h, pc, account) \in Handlers /\ Seen(h, pc, account).pc = pc
  BY DEF Handlers, Seen

\* A probe goes on with what it found out.
Probed(h, pc, ok) == [h EXCEPT !.pc = pc, !.ok = ok]

LEMMA Found ==
  ASSUME NEW h \in Handlers, NEW pc \in ProbePcs, NEW ok \in BOOLEAN
  PROVE  /\ Probed(h, pc, ok) \in Handlers
         /\ Probed(h, pc, ok).pc = pc
         /\ Probed(h, pc, ok).ok = ok
  BY DEF Handlers, Probed

\* A call that answers, or goes on with an effect, leaves a handler, a status
\* and effects of their types.
LEMMA AnswerTypes ==
  ASSUME TypeOK, NEW status \in {200, 202, 401, 402, 404, 422, 429, 500},
         Answer(status)
  PROVE  /\ at' \in Handlers /\ at'.pc = "idle" /\ at'.input = at.input
         /\ answer' = status
  BY Moved DEF Answer, TypeOK, Handlers

LEMMA GoOnTypes ==
  ASSUME TypeOK, NEW pc \in RequestPcs, NEW effect \in SUBSET Effects,
         GoOn(pc, effect)
  PROVE  /\ at' \in Handlers /\ at'.pc = pc
         /\ effects' = effects \cup effect /\ answer' = answer
  BY Moved DEF GoOn, TypeOK, Handlers

\* A call does one of the two.
LEMMA CallTypes ==
  ASSUME TypeOK, NEW services, NEW pc \in RequestPcs,
         NEW effect \in SUBSET Effects, Call(services, pc, effect)
  PROVE  /\ at' \in Handlers
         /\ \/ /\ services \subseteq up
               /\ at'.pc = pc /\ effects' = effects \cup effect
               /\ answer' = answer
            \/ /\ ~(services \subseteq up)
               /\ at'.pc = "idle" /\ effects' = effects /\ answer' = 500
  <1>1. CASE services \subseteq up
    BY <1>1, GoOnTypes DEF Call
  <1>2. CASE ~(services \subseteq up)
    BY <1>2, AnswerTypes DEF Call
  <1> QED  BY <1>1, <1>2

-----------------------------------------------------------------------------
(***************************************************************************)
(* Every step keeps AdmissionInv.                                          *)
(***************************************************************************)

\* Before a key is reserved a handler has left at most its hit behind, and
\* before it is let in nothing.
BeforeKey == {"list", "get", "credentials", "packages", "balance"}

BeforeHit == {"auth", "limit"}

\* A handler that goes on and keeps to that keeps the invariant.
LEMMA GoesOn ==
  ASSUME AdmissionInv, at.pc \in RequestPcs, NEW pc \in RequestPcs,
         NEW effect \in SUBSET Effects, GoOn(pc, effect),
         pc \in BeforeHit => effects \cup effect = {},
         pc \in BeforeKey => effects \cup effect \subseteq {"hit"},
         table' \in {"absent", "empty", "schema"},
         UNCHANGED <<settings, up, api, told, calm>>
  PROVE  AdmissionInv'
  <1>1. /\ at' \in Handlers /\ at'.pc = pc
        /\ effects' = effects \cup effect /\ answer' = answer
    BY GoOnTypes DEF AdmissionInv
  <1>2. answer = None /\ api
    BY DEF AdmissionInv, Admission
  <1>3. TypeOK'
    BY <1>1 DEF AdmissionInv, TypeOK, Handlers
  <1>4. Admission' /\ RefusalLeavesNothing'
    BY <1>1, <1>2, NoneAssumption
       DEF Admission, RefusalLeavesNothing, BeforeHit, BeforeKey
  <1> QED  BY <1>3, <1>4 DEF AdmissionInv

\* So does one that answers, if its refusals come in time.
LEMMA Answers ==
  ASSUME AdmissionInv,
         NEW status \in {200, 202, 401, 402, 404, 422, 429, 500}, Answer(status),
         effects' \subseteq Effects,
         status \in {401, 429} => effects' = {},
         status \in {402, 422} => effects' \subseteq {"hit"},
         table' \in {"absent", "empty", "schema"},
         calm' \in BOOLEAN,
         UNCHANGED <<settings, up, api, told>>
  PROVE  AdmissionInv'
  <1>1. at' \in Handlers /\ at'.pc = "idle" /\ answer' = status
    BY AnswerTypes DEF AdmissionInv
  <1>2. TypeOK'
    BY <1>1 DEF AdmissionInv, TypeOK, Handlers
  <1>3. Admission' /\ RefusalLeavesNothing'
    BY <1>1 DEF Admission, RefusalLeavesNothing, RequestPcs, ProbePcs
  <1> QED  BY <1>2, <1>3 DEF AdmissionInv

\* And so does a call, which goes on or answers 500.
LEMMA Calls ==
  ASSUME AdmissionInv, at.pc \in RequestPcs, NEW services, NEW pc \in RequestPcs,
         NEW effect \in SUBSET Effects, Call(services, pc, effect),
         pc \notin BeforeHit,
         pc \in BeforeKey => effects \cup effect \subseteq {"hit"},
         table' \in {"absent", "empty", "schema"},
         UNCHANGED <<settings, up, api, told, calm>>
  PROVE  AdmissionInv'
  <1>1. CASE services \subseteq up
    BY <1>1, GoesOn DEF Call
  <1>2. CASE ~(services \subseteq up)
    <2>1. effects \subseteq Effects /\ calm \in BOOLEAN
      BY DEF AdmissionInv, TypeOK
    <2> QED  BY <1>2, <2>1, Answers DEF Call
  <1> QED  BY <1>1, <1>2

\* What the invariant says of the parts that the actions below leave alone.
LEMMA Parts ==
  ASSUME AdmissionInv
  PROVE  /\ table \in {"absent", "empty", "schema"}
         /\ calm \in BOOLEAN
         /\ effects \subseteq Effects
         /\ at.pc \in BeforeHit => effects = {}
         /\ at.pc \in BeforeKey => effects \subseteq {"hit"}
  BY DEF AdmissionInv, Admission, TypeOK, BeforeHit, BeforeKey

\* Where the limiter lets a request go on.
LEMMA RoutesAre ==
  ASSUME NEW input
  PROVE  Routes(input) \subseteq {"credentials", "list", "get"}
  BY DEF Routes

\* The middlewares and the prerequisites of a request leave at most its hit,
\* and a refusal comes before that or before the key.
LEMMA LetIn ==
  ASSUME AdmissionInv, Authenticate \/ Limit \/ Credentials
  PROVE  AdmissionInv'
  <1> USE Parts DEF BeforeHit, BeforeKey, RequestPcs, Effects
  <1>1. CASE Authenticate
    <2>1. CASE GoOn("limit", {})
      BY <1>1, <2>1, GoesOn DEF Authenticate
    <2>2. CASE Answer(401) /\ UNCHANGED effects
      BY <1>1, <2>2, Answers DEF Authenticate
    <2>3. CASE Answer(500) /\ UNCHANGED effects
      BY <1>1, <2>3, Answers DEF Authenticate
    <2> QED  BY <1>1, <2>1, <2>2, <2>3 DEF Authenticate
  <1>2. CASE Limit
    <2>1. ASSUME NEW pc \in {"credentials", "list", "get"},
                 Call(Limiter, pc, {"hit"})
          PROVE  AdmissionInv'
      BY <1>2, <2>1, Calls DEF Limit
    <2>2. CASE Answer(429) /\ UNCHANGED effects
      BY <1>2, <2>2, Answers DEF Limit
    <2> QED  BY <1>2, <2>1, <2>2, RoutesAre DEF Limit
  <1>3. CASE Credentials
    <2>1. ASSUME NEW pc \in {"packages", "key"}, GoOn(pc, {})
          PROVE  AdmissionInv'
      BY <1>3, <2>1, GoesOn DEF Credentials
    <2>2. CASE Answer(422) /\ UNCHANGED effects
      BY <1>3, <2>2, Answers DEF Credentials
    <2> QED  BY <1>3, <2>1, <2>2 DEF Credentials
  <1> QED  BY <1>1, <1>2, <1>3

\* The quota check leaves nothing behind, however it ends.
LEMMA PackagesKeep ==
  ASSUME AdmissionInv, Packages
  PROVE  AdmissionInv'
  <1>0. PICK account \in Accounts :
        /\ at' = [at EXCEPT !.pc = IF TrafficExhausted(account) THEN "idle"
                                   ELSE "balance", !.listed = account]
        /\ answer' = IF TrafficExhausted(account) THEN 402 ELSE None
    BY DEF Packages
  <1> DEFINE pc == IF TrafficExhausted(account) THEN "idle" ELSE "balance"
  <1>1. pc \in {"idle", "balance"} /\ (pc = "idle" <=> answer' = 402)
    BY <1>0, NoneAssumption
  <1>2. at' = Seen(at, pc, account)
    BY <1>0 DEF Seen
  <1>3. answer' \in {402, None} /\ (answer' = 402 => pc = "idle")
    BY <1>0, <1>1
  <1> HIDE DEF pc
  <1>4. at \in Handlers
    BY DEF AdmissionInv, TypeOK, Handlers
  <1>5. pc \in {"idle"} \cup RequestPcs
    BY <1>1 DEF RequestPcs
  <1>6. at' \in Handlers /\ at'.pc = pc
    BY <1>2, <1>4, <1>5, Saw
  <1>7. effects' \subseteq {"hit"}
    BY Parts DEF Packages, BeforeKey
  <1>8. api' /\ UNCHANGED <<settings, up, table, api, effects, told, calm>>
    BY DEF Packages, AdmissionInv, Admission, RequestPcs
  <1>9. TypeOK'
    BY <1>3, <1>6, <1>8 DEF AdmissionInv, TypeOK, Handlers
  <1>10. Admission' /\ RefusalLeavesNothing'
    BY <1>1, <1>3, <1>6, <1>7, <1>8, NoneAssumption
       DEF Admission, RefusalLeavesNothing, RequestPcs, ProbePcs
  <1> QED  BY <1>9, <1>10 DEF AdmissionInv

LEMMA QuotaKeeps ==
  ASSUME AdmissionInv, Packages \/ PackagesFail \/ Balance \/ QuotaGarbage
  PROVE  AdmissionInv'
  <1> USE Parts DEF BeforeHit, BeforeKey, RequestPcs, Effects
  <1>1. CASE PackagesFail
    BY <1>1, GoesOn DEF PackagesFail
  <1>2. CASE Balance
    <2>1. CASE Answer(402) /\ UNCHANGED effects
      BY <1>2, <2>1, Answers DEF Balance
    <2>2. CASE GoOn("key", {})
      BY <1>2, <2>2, GoesOn DEF Balance
    <2> QED  BY <1>2, <2>1, <2>2 DEF Balance
  <1>3. CASE QuotaGarbage
    <2>1. calm' \in BOOLEAN
      BY <1>3 DEF QuotaGarbage
    <2> QED  BY <1>3, <2>1, Answers DEF QuotaGarbage
  <1> QED  BY <1>1, <1>2, <1>3, PackagesKeep

\* The table that a connection leaves is of its type.
LEMMA ConnectedType ==
  ASSUME AdmissionInv
  PROVE  Connected \in {"absent", "empty", "schema"}
  BY Parts DEF Connected

\* A read answers with one of its statuses or with a 500.
LEMMA ReadKeeps ==
  ASSUME AdmissionInv, NEW services, NEW raises,
         NEW statuses \in SUBSET {200, 202, 404},
         ReadTable(services, statuses, raises)
  PROVE  AdmissionInv'
  <1>1. PICK status \in {200, 202, 404, 500} : Answer(status)
    BY DEF ReadTable
  <1> QED  BY <1>1, Answers, Parts, ConnectedType DEF ReadTable

\* From the key on a request is not refused any more.
LEMMA SubmitKeeps ==
  ASSUME AdmissionInv,
         \/ ReserveKey \/ Replay \/ ListJobs \/ GetJob \/ InsertRow \/ Enqueue
         \/ CountAndReply
  PROVE  AdmissionInv'
  <1> USE Parts DEF BeforeHit, BeforeKey, RequestPcs, Effects
  <1>1. CASE ReserveKey
    <2>1. CASE GoOn("row", {})
      BY <1>1, <2>1, GoesOn DEF ReserveKey
    <2>2. CASE Call(KeyStore, "row", {"key"})
      BY <1>1, <2>2, Calls DEF ReserveKey
    <2> QED  BY <1>1, <2>1, <2>2 DEF ReserveKey
  <1>2. CASE Replay
    BY <1>2, ReadKeeps DEF Replay
  <1>3. CASE ListJobs \/ GetJob
    <2>1. CASE ListJobs /\ at.input = "word_limit"
      BY <2>1, Answers DEF ListJobs
    <2>2. CASE ListJobs /\ at.input # "word_limit"
      BY <2>2, ReadKeeps DEF ListJobs
    <2>3. CASE GetJob
      BY <2>3, ReadKeeps DEF GetJob
    <2> QED  BY <1>3, <2>1, <2>2, <2>3
  <1>4. CASE InsertRow
    <2>1. CASE Call(JobTable, "enqueue", {"row"})
      BY <1>4, <2>1, Calls, ConnectedType DEF InsertRow
    <2>2. CASE Answer(500) /\ UNCHANGED effects
      BY <1>4, <2>2, Answers, ConnectedType DEF InsertRow
    <2> QED  BY <1>4, <2>1, <2>2 DEF InsertRow
  <1>5. CASE Enqueue
    BY <1>5, Calls DEF Enqueue
  <1>6. CASE CountAndReply
    <2>1. PICK status \in {202, 500} : Answer(status)
      BY <1>6 DEF CountAndReply
    <2>2. effects' \subseteq Effects
      BY <1>6 DEF CountAndReply
    <2> QED  BY <1>6, <2>1, <2>2, Answers DEF CountAndReply
  <1> QED  BY <1>1, <1>2, <1>3, <1>4, <1>5, <1>6

\* A handler that begins, ends or probes leaves nothing and refuses nothing.
LEMMA Untouched ==
  ASSUME AdmissionInv, at' \in Handlers,
         \/ at'.pc \in {"idle"} /\ effects' = {}
         \/ at'.pc \in ProbePcs \cup {"auth"} /\ api' /\ effects' = {}
         \/ at'.pc \in ProbePcs \cup {"idle"} /\ api' /\ UNCHANGED effects,
         at'.pc # "idle" => answer' = None,
         answer' \in {None, 200, 500},
         settings' = settings, up' \subseteq Services,
         table' \in {"absent", "empty", "schema"}, api' \in BOOLEAN,
         told' \in {None, 200, 503}, calm' \in BOOLEAN
  PROVE  AdmissionInv'
  <1>1. effects' \subseteq Effects /\ settings' \in Deployments
    BY DEF AdmissionInv, TypeOK
  <1>2. TypeOK'
    BY <1>1 DEF TypeOK, Handlers
  <1>3. Admission' /\ RefusalLeavesNothing'
    BY NoneAssumption
       DEF Admission, RefusalLeavesNothing, RequestPcs, ProbePcs
  <1> QED  BY <1>2, <1>3 DEF AdmissionInv

\* A probe refuses nothing.
LEMMA ProbeKeeps ==
  ASSUME AdmissionInv, BeginProbe \/ ProbeStep
  PROVE  AdmissionInv'
  <1>1. /\ at \in Handlers /\ up \subseteq Services /\ api \in BOOLEAN
        /\ told \in {None, 200, 503} /\ calm \in BOOLEAN
        /\ table \in {"absent", "empty", "schema"}
    BY DEF AdmissionInv, TypeOK, Handlers
  <1>2. at.pc \in ProbePcs => api /\ answer = None
    BY DEF AdmissionInv, Admission
  <1>3. CASE BeginProbe
    <2>1. at' \in Handlers /\ at'.pc = "ping_db"
      BY <1>3, Begun DEF BeginProbe, ProbePcs
    <2> QED  BY <1>1, <1>3, <2>1, Untouched DEF BeginProbe, ProbePcs
  <1>4. CASE PingDb
    <2>1. at' = Probed(at, "check_dir", Pinged) /\ Pinged \in BOOLEAN
      BY <1>4 DEF PingDb, Probed, Pinged
    <2>2. at' \in Handlers /\ at'.pc = "check_dir"
      BY <1>1, <2>1, Found DEF ProbePcs
    <2> QED
      BY <1>1, <1>2, <1>4, <2>2, Untouched, ConnectedType DEF PingDb, ProbePcs
  <1>5. CASE CheckDir
    <2>1. at' \in Handlers /\ at'.pc = "ping_redis"
      <3>1. (at.ok /\ "data_dir" \in up) \in BOOLEAN
        OBVIOUS
      <3>2. at' = Probed(at, "ping_redis", at.ok /\ "data_dir" \in up)
        BY <1>1, <1>5 DEF CheckDir, Probed
      <3> QED  BY <1>1, <3>1, <3>2, Found DEF ProbePcs
    <2> QED  BY <1>1, <1>2, <1>5, <2>1, Untouched DEF CheckDir, ProbePcs
  <1>6. CASE Conclude
    <2>1. at' \in Handlers /\ at'.pc = "idle" /\ told' \in {None, 200, 503}
      BY <1>6, IdleIsAHandler DEF Conclude
    <2> QED  BY <1>1, <1>2, <1>6, <2>1, Untouched DEF Conclude, ProbePcs
  <1> QED  BY <1>3, <1>4, <1>5, <1>6 DEF ProbeStep

\* Neither do the process, its services and its operator.
LEMMA SurroundingsKeep ==
  ASSUME AdmissionInv,
         BeginRequest \/ Scrape \/ Start \/ Stop \/ Break \/ Repair \/ DeleteFile
  PROVE  AdmissionInv'
  <1>1. /\ at \in Handlers /\ up \subseteq Services /\ api \in BOOLEAN
        /\ told \in {None, 200, 503} /\ calm \in BOOLEAN
        /\ table \in {"absent", "empty", "schema"}
    BY DEF AdmissionInv, TypeOK, Handlers
  <1>2. CASE BeginRequest
    <2>1. at' \in Handlers /\ at'.pc = "auth"
      BY <1>2, RequestBegun
    <2> QED  BY <1>1, <1>2, <2>1, Untouched DEF BeginRequest
  <1>3. CASE Scrape
    <2>1. answer' \in {200, 500}
      BY <1>3 DEF Scrape
    <2> QED  BY <1>1, <1>3, <2>1, Untouched, IdleIsAHandler DEF Scrape
  <1>4. CASE Start
    BY <1>4 DEF Start, AdmissionInv, Admission, RefusalLeavesNothing, TypeOK
  <1>5. CASE Stop
    <2>1. api' \in BOOLEAN /\ at' \in Handlers /\ at'.pc = "idle"
      BY <1>5, IdleIsAHandler DEF Stop
    <2> QED  BY <1>1, <1>5, <2>1, Untouched DEF Stop
  <1>6. CASE Break
    <2>1. up' \subseteq Services /\ calm' \in BOOLEAN
      BY <1>1, <1>6 DEF Break
    <2> QED
      BY <1>6, <2>1
         DEF Break, AdmissionInv, Admission, RefusalLeavesNothing, TypeOK
  <1>7. CASE Repair
    <2>1. up' \subseteq Services
      BY <1>1, <1>7 DEF Repair
    <2> QED
      BY <1>7, <2>1
         DEF Repair, AdmissionInv, Admission, RefusalLeavesNothing, TypeOK
  <1>8. CASE DeleteFile
    <2>1. table' \in {"absent", "empty", "schema"} /\ calm' \in BOOLEAN
      BY <1>8 DEF DeleteFile
    <2> QED
      BY <1>8, <2>1
         DEF DeleteFile, AdmissionInv, Admission, RefusalLeavesNothing, TypeOK
  <1> QED  BY <1>2, <1>3, <1>4, <1>5, <1>6, <1>7, <1>8

LEMMA AdmissionInitially ==
  ASSUME Init
  PROVE  AdmissionInv
  <1>1. TypeOK
    <2>1. table \in {"absent", "empty", "schema"}
      BY DEF Init
    <2> QED  BY <2>1, IdleIsAHandler DEF Init, TypeOK, Handlers
  <1>2. Admission /\ RefusalLeavesNothing
    BY IdleIsAHandler, NoneAssumption
       DEF Init, Admission, RefusalLeavesNothing, RequestPcs, ProbePcs
  <1> QED  BY <1>1, <1>2 DEF AdmissionInv

LEMMA AdmissionStep ==
  ASSUME AdmissionInv, [Next]_vars
  PROVE  AdmissionInv'
  <1>1. CASE RequestStep
    BY <1>1, LetIn, QuotaKeeps, SubmitKeeps DEF RequestStep
  <1>2. CASE BeginProbe \/ ProbeStep
    BY <1>2, ProbeKeeps
  <1>3. CASE BeginRequest \/ Scrape \/ Start \/ Stop \/ Break \/ Repair \/ DeleteFile
    BY <1>3, SurroundingsKeep
  <1>4. CASE UNCHANGED vars
    BY <1>4 DEF vars, AdmissionInv, Admission, RefusalLeavesNothing, TypeOK
  <1> QED  BY <1>1, <1>2, <1>3, <1>4 DEF Next

LEMMA AdmissionInvariant == Spec => []AdmissionInv
  <1>1. Init => AdmissionInv
    BY AdmissionInitially
  <1>2. AdmissionInv /\ [Next]_vars => AdmissionInv'
    BY AdmissionStep
  <1> QED  BY <1>1, <1>2, PTL DEF Spec

\* Every variable of the API process keeps its type.
THEOREM FrontTypes == Spec => []TypeOK
  <1>1. AdmissionInv => TypeOK
    BY DEF AdmissionInv
  <1> QED  BY <1>1, AdmissionInvariant, PTL

\* A POST that is refused leaves no key, row or message behind, and one that
\* is refused before it was let in, no hit of its limit either.
THEOREM RefusalsLeaveNothing == Spec => []RefusalLeavesNothing
  <1>1. AdmissionInv => RefusalLeavesNothing
    BY DEF AdmissionInv
  <1> QED  BY <1>1, AdmissionInvariant, PTL

-----------------------------------------------------------------------------
(***************************************************************************)
(* What /ready promised.                                                   *)
(***************************************************************************)

\* How a step of a request may end where the table is there: it goes on, or
\* has its answer, and a 500 among these has its cause.
Ended ==
  /\ at'.pc \notin ProbePcs
  /\ UNCHANGED <<settings, up, table, api, told>>
  /\ calm' => calm
  /\ answer' = 500 => ~calm' \/ ~(Needed \subseteq up) \/ InputRaises'

\* A request keeps what it brought.
LEMMA InputStays ==
  ASSUME at'.input = at.input, settings' = settings
  PROVE  InputRaises' <=> InputRaises
  BY DEF InputRaises, KeyRaises, LimitRaises, IdRaises

LEMMA GoesOnEnds ==
  ASSUME AdmissionInv, at.pc \in RequestPcs, NEW pc \in RequestPcs,
         NEW effect \in SUBSET Effects, GoOn(pc, effect),
         UNCHANGED <<settings, up, table, api, told, calm>>
  PROVE  Ended
  <1>1. at'.pc = pc /\ answer' = answer
    BY GoOnTypes DEF AdmissionInv
  <1>2. answer = None
    BY DEF AdmissionInv, Admission
  <1> QED  BY <1>1, <1>2, NoneAssumption DEF Ended, RequestPcs, ProbePcs

LEMMA AnswersEnd ==
  ASSUME AdmissionInv,
         NEW status \in {200, 202, 401, 402, 404, 422, 429, 500}, Answer(status),
         UNCHANGED <<settings, up, table, api, told>>, calm' => calm,
         status = 500 => ~calm' \/ ~(Needed \subseteq up) \/ InputRaises
  PROVE  Ended
  <1>1. at'.pc = "idle" /\ answer' = status /\ at'.input = at.input
    BY AnswerTypes DEF AdmissionInv
  <1> QED  BY <1>1, InputStays DEF Ended, ProbePcs

LEMMA CallsEnd ==
  ASSUME AdmissionInv, at.pc \in RequestPcs, NEW pc \in RequestPcs,
         NEW services \in SUBSET Needed,
         NEW effect \in SUBSET Effects, Call(services, pc, effect),
         UNCHANGED <<settings, up, table, api, told, calm>>
  PROVE  Ended
  <1>1. CASE services \subseteq up
    BY <1>1, GoesOnEnds DEF Call
  <1>2. CASE ~(services \subseteq up)
    BY <1>2, AnswersEnd DEF Call
  <1> QED  BY <1>1, <1>2

LEMMA ReadsEnd ==
  ASSUME AdmissionInv, table = "schema", NEW services \in SUBSET Needed,
         NEW statuses \in SUBSET {200, 202, 404}, NEW raises,
         raises => InputRaises, ReadTable(services, statuses, raises)
  PROVE  Ended
  <1>1. UNCHANGED <<settings, up, table, api, told, calm>>
    BY DEF ReadTable, Connected
  <1>2. CASE \E status \in statuses : Answer(status)
    BY <1>1, <1>2, AnswersEnd
  <1>3. CASE /\ raises \/ ~(services \cup JobTable \subseteq up)
             /\ Answer(500)
    BY <1>1, <1>3, AnswersEnd DEF Needed
  <1> QED  BY <1>2, <1>3 DEF ReadTable

\* Every step of a request ends like that.
LEMMA RequestsEnd ==
  ASSUME AdmissionInv, table = "schema", RequestStep
  PROVE  Ended
  <1> USE DEF RequestPcs, Effects, Needed
  <1>1. CASE Authenticate
    <2>1. CASE GoOn("limit", {})
      BY <1>1, <2>1, GoesOnEnds DEF Authenticate
    <2>2. CASE Answer(401)
      BY <1>1, <2>2, AnswersEnd DEF Authenticate
    <2>3. CASE KeyRaises /\ Answer(500)
      BY <1>1, <2>3, AnswersEnd DEF Authenticate, InputRaises
    <2> QED  BY <1>1, <2>1, <2>2, <2>3 DEF Authenticate
  <1>2. CASE Limit
    <2>1. ASSUME NEW pc \in {"credentials", "list", "get"},
                 Call(Limiter, pc, {"hit"})
          PROVE  Ended
      BY <1>2, <2>1, CallsEnd DEF Limit
    <2>2. CASE Answer(429)
      BY <1>2, <2>2, AnswersEnd DEF Limit
    <2> QED  BY <1>2, <2>1, <2>2, RoutesAre DEF Limit
  <1>3. CASE ListJobs \/ GetJob
    <2>1. CASE ListJobs /\ at.input = "word_limit"
      BY <2>1, AnswersEnd DEF ListJobs
    <2>2. CASE ListJobs /\ at.input # "word_limit"
      BY <2>2, ReadsEnd DEF ListJobs, InputRaises
    <2>3. CASE GetJob
      BY <2>3, ReadsEnd DEF GetJob, InputRaises
    <2> QED  BY <1>3, <2>1, <2>2, <2>3
  <1>4. CASE Credentials
    <2>1. ASSUME NEW pc \in {"packages", "key"}, GoOn(pc, {})
          PROVE  Ended
      BY <1>4, <2>1, GoesOnEnds DEF Credentials
    <2>2. CASE Answer(422)
      BY <1>4, <2>2, AnswersEnd DEF Credentials
    <2> QED  BY <1>4, <2>1, <2>2 DEF Credentials
  <1>5. CASE Packages
    <2>1. PICK account \in Accounts, pc \in {"idle", "balance"} :
            at' = Seen(at, pc, account)
      <3>1. PICK account \in Accounts :
              at' = [at EXCEPT !.pc = IF TrafficExhausted(account) THEN "idle"
                                      ELSE "balance", !.listed = account]
        BY <1>5 DEF Packages
      <3>2. at' = Seen(at, IF TrafficExhausted(account) THEN "idle"
                           ELSE "balance", account)
        BY <3>1 DEF Seen
      <3> QED  BY <3>2
    <2>2. at'.pc \in {"idle", "balance"}
      <3>1. at \in Handlers
        BY DEF AdmissionInv, TypeOK, Handlers
      <3> QED  BY <2>1, <3>1, Saw
    <2>3. answer' # 500
      BY <1>5, NoneAssumption DEF Packages
    <2> QED  BY <1>5, <2>2, <2>3 DEF Packages, Ended, ProbePcs
  <1>6. CASE PackagesFail
    BY <1>6, GoesOnEnds DEF PackagesFail
  <1>7. CASE Balance
    <2>1. CASE Answer(402)
      BY <1>7, <2>1, AnswersEnd DEF Balance
    <2>2. CASE GoOn("key", {})
      BY <1>7, <2>2, GoesOnEnds DEF Balance
    <2> QED  BY <1>7, <2>1, <2>2 DEF Balance
  <1>8. CASE QuotaGarbage
    <2>1. ~calm'
      BY <1>8 DEF QuotaGarbage
    <2> QED  BY <1>8, <2>1, AnswersEnd DEF QuotaGarbage
  <1>9. CASE ReserveKey
    <2>1. CASE GoOn("row", {})
      BY <1>9, <2>1, GoesOnEnds DEF ReserveKey
    <2>2. CASE Call(KeyStore, "row", {"key"})
      BY <1>9, <2>2, CallsEnd DEF ReserveKey
    <2> QED  BY <1>9, <2>1, <2>2 DEF ReserveKey
  <1>10. CASE Replay
    BY <1>10, ReadsEnd DEF Replay
  <1>11. CASE InsertRow
    <2>1. UNCHANGED <<settings, up, table, api, told, calm>>
      BY <1>11 DEF InsertRow, Connected
    <2> QED  BY <1>11, <2>1, CallsEnd DEF InsertRow
  <1>12. CASE Enqueue
    BY <1>12, CallsEnd DEF Enqueue
  <1>13. CASE CountAndReply
    <2>1. CASE Answer(202)
      BY <1>13, <2>1, AnswersEnd DEF CountAndReply
    <2>2. CASE Answer(500) /\ ~(Counters \subseteq up)
      BY <1>13, <2>2, AnswersEnd DEF CountAndReply
    <2> QED  BY <1>13, <2>1, <2>2 DEF CountAndReply
  <1> QED
    BY <1>1, <1>2, <1>3, <1>4, <1>5, <1>6, <1>7, <1>8, <1>9, <1>10, <1>11,
       <1>12, <1>13 DEF RequestStep

\* In the documented deployments what a probe finds out is all that a request
\* needs.
LEMMA ProbeCoversNeeds ==
  ASSUME SingleNode \/ Scale,
         DbIsFine, DirIsFine, RedisIsFine
  PROVE  Needed \subseteq up
  <1>1. CASE SingleNode
    BY <1>1 DEF SingleNode, DirIsFine, Needed, Limiter, KeyStore, JobTable,
       Broker, Counters
  <1>2. CASE Scale
    <2>1. JobTable \subseteq up
      BY <1>2 DEF Scale, DbIsFine, JobTable
    <2>2. "redis" \in up
      BY <1>2 DEF Scale, RedisIsFine, NeedsRedis
    <2> QED
      BY <1>2, <2>1, <2>2 DEF Scale, Needed, Limiter, KeyStore, Broker, Counters
  <1> QED  BY <1>1, <1>2

\* A request, whose 500 a probe that answered 200 excludes.
LEMMA RequestIsReady ==
  ASSUME AdmissionInv, ReadyInv, RequestStep
  PROVE  ReadyInv'
  <1>1. at.pc \in RequestPcs
    BY DEF RequestStep, Authenticate, Limit, ListJobs, GetJob, Credentials,
       Packages, PackagesFail, Balance, QuotaGarbage, ReserveKey, Replay, InsertRow,
       Enqueue, CountAndReply, RequestPcs
  <1>2. api /\ table = "schema"
    BY <1>1 DEF AdmissionInv, Admission, ReadyInv, TableInv
  <1>3. Ended
    BY <1>2, RequestsEnd
  <1>4. TableInv'
    BY <1>2, <1>3 DEF Ended, TableInv
  <1>5. ProbeInv'
    BY <1>3 DEF Ended, ReadyInv, ProbeInv, ProbePcs, DbIsFine, DirIsFine,
       RedisIsFine, JobTable, NeedsRedis
  <1>6. ReadyIsServed'
    <2>1. SUFFICES ASSUME SingleNode \/ Scale, told = 200, calm', ~InputRaises'
                   PROVE  answer' # 500
      BY <1>3 DEF Ended, ReadyIsServed, SingleNode, Scale
    <2>2. Needed \subseteq up
      BY <1>3, <2>1, ProbeCoversNeeds DEF Ended, ReadyInv, ProbeInv
    <2> QED  BY <1>3, <2>1, <2>2 DEF Ended
  <1> QED  BY <1>4, <1>5, <1>6 DEF ReadyInv

\* A scrape, which reads the counters.
LEMMA ScrapeIsReady ==
  ASSUME AdmissionInv, ReadyInv, Scrape
  PROVE  ReadyInv'
  <1>1. TableInv'
    BY DEF Scrape, ReadyInv, TableInv
  <1>2. ProbeInv'
    BY IdleIsAHandler DEF Scrape, ReadyInv, ProbeInv, DbIsFine, DirIsFine,
       RedisIsFine, JobTable, NeedsRedis
  <1>3. ReadyIsServed'
    <2>1. SUFFICES ASSUME SingleNode \/ Scale, told = 200, calm
                   PROVE  answer' # 500
      BY DEF Scrape, ReadyIsServed, SingleNode, Scale
    <2>2. Counters \subseteq up
      BY <2>1, ProbeCoversNeeds DEF ReadyInv, ProbeInv, Needed
    <2> QED  BY <2>2 DEF Scrape
  <1> QED  BY <1>1, <1>2, <1>3 DEF ReadyInv

\* The steps of a probe, each of which may trust those before it as long as
\* nothing has failed.
LEMMA ProbeIsReady ==
  ASSUME AdmissionInv, ReadyInv, BeginProbe \/ ProbeStep
  PROVE  ReadyInv'
  <1>1. at \in Handlers
    BY DEF AdmissionInv, TypeOK, Handlers
  <1>2. CASE BeginProbe
    <2>1. at'.pc = "ping_db"
      BY <1>2, Begun DEF BeginProbe, ProbePcs
    <2> QED
      BY <1>2, <2>1, NoneAssumption
         DEF BeginProbe, ReadyInv, TableInv, ProbeInv, ReadyIsServed
  <1>3. ASSUME at.pc \in ProbePcs
        PROVE  api /\ answer = None /\ table = "schema"
    BY <1>3 DEF AdmissionInv, Admission, ReadyInv, TableInv
  <1>4. CASE PingDb
    <2>1. at' = Probed(at, "check_dir", Pinged) /\ Pinged \in BOOLEAN
      BY <1>4 DEF PingDb, Probed, Pinged
    <2>2. at'.pc = "check_dir" /\ at'.ok = Pinged
      BY <1>1, <2>1, Found DEF ProbePcs
    <2>3. /\ table' = table /\ answer' = None
          /\ UNCHANGED <<settings, up, api, told, calm>>
      BY <1>3, <1>4 DEF PingDb, Connected, ProbePcs
    <2>4. Pinged => DbIsFine'
      BY <2>3 DEF Pinged, DbIsFine, JobTable
    <2>5. TableInv' /\ ReadyIsServed'
      BY <2>3, NoneAssumption DEF ReadyInv, TableInv, ReadyIsServed
    <2>6. ProbeInv'
      BY <2>2, <2>3, <2>4 DEF ReadyInv, ProbeInv, DbIsFine, DirIsFine,
         RedisIsFine, JobTable, NeedsRedis
    <2> QED  BY <2>5, <2>6 DEF ReadyInv
  <1>5. CASE CheckDir
    <2>1. (at.ok /\ "data_dir" \in up) \in BOOLEAN
      OBVIOUS
    <2>2. at' = Probed(at, "ping_redis", at.ok /\ "data_dir" \in up)
      BY <1>5 DEF CheckDir, Probed
    <2>3. at'.pc = "ping_redis" /\ (at'.ok => at.ok /\ "data_dir" \in up)
      BY <1>1, <2>1, <2>2, Found DEF ProbePcs
    <2>4. answer' = None /\ UNCHANGED <<settings, up, table, api, told, calm>>
      BY <1>3, <1>5 DEF CheckDir, ProbePcs
    <2>5. TableInv' /\ ReadyIsServed'
      BY <2>4, NoneAssumption DEF ReadyInv, TableInv, ReadyIsServed
    <2>6. ProbeInv'
      BY <1>5, <2>3, <2>4 DEF CheckDir, ReadyInv, ProbeInv, DbIsFine, DirIsFine,
         RedisIsFine, JobTable, NeedsRedis
    <2> QED  BY <2>5, <2>6 DEF ReadyInv
  <1>6. CASE Conclude
    <2>1. answer' = None /\ UNCHANGED <<settings, up, table, api, calm>>
      BY <1>3, <1>6 DEF Conclude, ProbePcs
    <2>2. told' = 200 => at.ok /\ RedisIsFine
      BY <1>6 DEF Conclude, RedisIsFine
    <2>3. TableInv' /\ ReadyIsServed'
      BY <1>3, <1>6, <2>1, NoneAssumption
         DEF Conclude, ReadyInv, TableInv, ReadyIsServed, ProbePcs
    <2>4. ProbeInv'
      BY <1>6, <2>1, <2>2, IdleIsAHandler
         DEF Conclude, ReadyInv, ProbeInv, DbIsFine, DirIsFine, RedisIsFine,
             JobTable, NeedsRedis
    <2> QED  BY <2>3, <2>4 DEF ReadyInv
  <1> QED  BY <1>2, <1>4, <1>5, <1>6 DEF ProbeStep

\* What happens around the handlers: what fails ends the calm, what is
\* repaired was not relied on, and no operator deletes a file in use.
LEMMA SurroundingsAreReady ==
  ASSUME ~DeleteWhileUp, AdmissionInv, ReadyInv,
         BeginRequest \/ Start \/ Stop \/ Break \/ Repair \/ DeleteFile
  PROVE  ReadyInv'
  <1>1. CASE BeginRequest
    <2>1. at'.pc = "auth"
      BY <1>1, RequestBegun
    <2>2. answer' = None /\ UNCHANGED <<settings, up, table, api, told, calm>>
      BY <1>1 DEF BeginRequest
    <2>3. ProbeInv'
      BY <2>1, <2>2 DEF ReadyInv, ProbeInv, DbIsFine, DirIsFine, RedisIsFine,
         JobTable, NeedsRedis
    <2> QED
      BY <2>2, <2>3, NoneAssumption DEF ReadyInv, TableInv, ReadyIsServed
  <1>2. CASE Start
    <2>1. told = None /\ UNCHANGED <<settings, up, at, answer, told, calm>>
      BY <1>2, NoneAssumption DEF Start, ReadyInv, TableInv
    <2>2. TableInv' /\ ReadyIsServed'
      BY <1>2, <2>1, NoneAssumption DEF Start, TableInv, ReadyIsServed
    <2>3. ProbeInv'
      BY <2>1, NoneAssumption DEF ReadyInv, ProbeInv, DbIsFine, DirIsFine,
         RedisIsFine, JobTable, NeedsRedis
    <2> QED  BY <2>2, <2>3 DEF ReadyInv
  <1>3. CASE Stop
    BY <1>3, IdleIsAHandler, NoneAssumption
       DEF Stop, ReadyInv, TableInv, ProbeInv, ReadyIsServed
  <1>4. CASE Break
    BY <1>4 DEF Break, ReadyInv, TableInv, ProbeInv, ReadyIsServed
  <1>5. CASE Repair
    <2>1. /\ up \subseteq up'
          /\ UNCHANGED <<settings, table, api, at, answer, told, calm>>
      BY <1>5 DEF Repair
    <2>2. TableInv' /\ ReadyIsServed'
      BY <2>1, InputStays
         DEF ReadyInv, TableInv, ReadyIsServed, SingleNode, Scale
    <2>3. /\ DbIsFine => DbIsFine'
          /\ DirIsFine => DirIsFine'
          /\ RedisIsFine => RedisIsFine'
      BY <2>1 DEF DbIsFine, DirIsFine, RedisIsFine, JobTable, NeedsRedis
    <2>4. ProbeInv'
      BY <2>1, <2>3 DEF ReadyInv, ProbeInv
    <2> QED  BY <2>2, <2>4 DEF ReadyInv
  <1>6. CASE DeleteFile
    BY <1>6 DEF DeleteFile, ReadyInv, TableInv, ProbeInv, ReadyIsServed
  <1> QED  BY <1>1, <1>2, <1>3, <1>4, <1>5, <1>6

LEMMA ReadyInitially ==
  ASSUME Init
  PROVE  ReadyInv
  BY IdleIsAHandler, NoneAssumption
     DEF Init, ReadyInv, TableInv, ProbeInv, ReadyIsServed

LEMMA ReadyStep ==
  ASSUME ~DeleteWhileUp, AdmissionInv, ReadyInv, [Next]_vars
  PROVE  ReadyInv'
  <1>1. CASE UNCHANGED vars
    BY <1>1, InputStays DEF vars, ReadyInv, TableInv, ProbeInv, ReadyIsServed, SingleNode,
       Scale, DbIsFine, DirIsFine, RedisIsFine, JobTable, NeedsRedis
  <1> QED
    BY <1>1, RequestIsReady, ScrapeIsReady, ProbeIsReady, SurroundingsAreReady
       DEF Next

\* If nobody deletes the database of a live process: after a /ready that
\* answered 200 in a documented deployment, and while nothing fails, no POST,
\* GET or scrape is answered with a 500, except one that brought what a call
\* raises for in this deployment, whatever the services do.
THEOREM ReadyIsTrue ==
  ASSUME ~DeleteWhileUp
  PROVE  Spec => []ReadyIsServed
  <1>1. Init => ReadyInv
    BY ReadyInitially
  <1>2. AdmissionInv /\ ReadyInv /\ [Next]_vars => ReadyInv'
    BY ReadyStep
  <1>3. ReadyInv => ReadyIsServed
    BY DEF ReadyInv
  <1> QED  BY <1>1, <1>2, <1>3, AdmissionInvariant, PTL DEF Spec

-----------------------------------------------------------------------------
(***************************************************************************)
(* What the traffic of several packages adds up to.                        *)
(***************************************************************************)

\* Induction, over a set of numbers.
LEMMA Induction ==
  ASSUME NEW S, 0 \in S, \A n \in Nat : n \in S => n + 1 \in S
  PROVE  Nat \subseteq S
<1>. SUFFICES ASSUME ~(Nat \subseteq S) PROVE FALSE
  OBVIOUS
<1>. DEFINE T == Nat \ S
            R == OpToRel(<, Nat)
<1>1. IsWellFoundedOn(R, Nat)
  BY NatLessThanWellFounded
<1>2. PICK x \in T : \A y \in T : <<y, x>> \notin R
  BY <1>1, WFMin, Zenon
<1>3. x # 0 /\ x - 1 \in Nat /\ x - 1 < x
  OBVIOUS
<1>4. x - 1 \in S
  BY <1>2, <1>3 DEF OpToRel
<1>. QED
  BY <1>3, <1>4

\* The element that a sum over s takes first.
First(s) == CHOOSE x \in s : TRUE

\* f sums the numbers w over the sets of F.
Sums(f, F, w) ==
  \A s \in F : f[s] = IF s = {} THEN 0 ELSE w[First(s)] + f[s \ {First(s)}]

\* The subsets of T with at most m elements.
UpTo(m, T) == {s \in SUBSET T : Cardinality(s) <= m}

LEMMA WithoutFirst ==
  ASSUME NEW T, IsFiniteSet(T), NEW m \in Nat, NEW s \in UpTo(m + 1, T), s # {}
  PROVE  First(s) \in s /\ First(s) \in T /\ s \ {First(s)} \in UpTo(m, T)
<1>1. s \in SUBSET T /\ IsFiniteSet(s) /\ Cardinality(s) <= m + 1
  BY FS_Subset DEF UpTo
<1>2. First(s) \in s
  BY DEF First
<1>3. Cardinality(s) \in Nat /\ Cardinality(s \ {First(s)}) = Cardinality(s) - 1
  BY <1>1, <1>2, FS_CardinalityType, FS_RemoveElement
<1>. QED
  BY <1>1, <1>2, <1>3 DEF UpTo

LEMMA OnlyEmpty ==
  ASSUME NEW T, IsFiniteSet(T)
  PROVE  UpTo(0, T) = {{}}
<1>1. ASSUME NEW s \in UpTo(0, T) PROVE s = {}
  <2>1. IsFiniteSet(s) /\ Cardinality(s) <= 0
    BY FS_Subset DEF UpTo
  <2>2. Cardinality(s) \in Nat
    BY <2>1, FS_CardinalityType
  <2>. QED
    BY <2>1, <2>2, FS_EmptySet
<1>2. {} \in UpTo(0, T)
  BY FS_EmptySet DEF UpTo
<1>. QED
  BY <1>1, <1>2

LEMMA AllSubsets ==
  ASSUME NEW T, IsFiniteSet(T)
  PROVE  Cardinality(T) \in Nat /\ UpTo(Cardinality(T), T) = SUBSET T
BY FS_CardinalityType, FS_Subset DEF UpTo

LEMMA SumExists ==
  ASSUME NEW T, IsFiniteSet(T), NEW w \in [T -> Nat]
  PROVE  \E f \in [SUBSET T -> Nat] : Sums(f, SUBSET T, w)
<1>. DEFINE S == {m \in Nat : \E f \in [UpTo(m, T) -> Nat] : Sums(f, UpTo(m, T), w)}
<1>1. 0 \in S
  <2>. DEFINE f == [s \in UpTo(0, T) |-> 0]
  <2>1. f \in [UpTo(0, T) -> Nat] /\ Sums(f, UpTo(0, T), w)
    BY OnlyEmpty DEF Sums
  <2>. QED
    BY <2>1
<1>2. ASSUME NEW m \in Nat, m \in S PROVE m + 1 \in S
  <2>1. PICK g \in [UpTo(m, T) -> Nat] : Sums(g, UpTo(m, T), w)
    BY <1>2
  <2>. DEFINE f == [s \in UpTo(m + 1, T) |->
                      IF s = {} THEN 0 ELSE w[First(s)] + g[s \ {First(s)}]]
  <2>2. ASSUME NEW s \in UpTo(m + 1, T), s # {}
        PROVE  First(s) \in T /\ s \ {First(s)} \in UpTo(m, T)
    BY <2>2, WithoutFirst
  <2>3. f \in [UpTo(m + 1, T) -> Nat]
    BY <2>2
  <2>4. \A s \in UpTo(m, T) : s \in UpTo(m + 1, T) /\ f[s] = g[s]
    <3>1. \A s \in UpTo(m, T) : s \in UpTo(m + 1, T)
      <4>. SUFFICES ASSUME NEW s \in UpTo(m, T) PROVE s \in UpTo(m + 1, T)
        OBVIOUS
      <4>1. Cardinality(s) \in Nat
        BY FS_Subset, FS_CardinalityType DEF UpTo
      <4>. QED
        BY <4>1 DEF UpTo
    <3>. QED
      BY <2>1, <3>1 DEF Sums
  <2>5. ASSUME NEW s \in UpTo(m + 1, T)
        PROVE  f[s] = IF s = {} THEN 0 ELSE w[First(s)] + f[s \ {First(s)}]
    <3>1. s # {} => f[s \ {First(s)}] = g[s \ {First(s)}]
      BY <2>2, <2>4
    <3>. QED
      BY <3>1
  <2>6. Sums(f, UpTo(m + 1, T), w)
    <3>. HIDE DEF f
    <3>. QED
      BY <2>5 DEF Sums
  <2>7. m + 1 \in Nat
    OBVIOUS
  <2>. HIDE DEF f
  <2>. QED
    BY <2>3, <2>6, <2>7
<1>. HIDE DEF S
<1>3. Cardinality(T) \in S
  BY <1>1, <1>2, Induction, AllSubsets
<1>. QED
  BY <1>3, AllSubsets DEF S

\* A sum is no less than each of its terms.
LEMMA SumBounds ==
  ASSUME NEW T, IsFiniteSet(T), NEW w \in [T -> Nat], NEW f, Sums(f, SUBSET T, w)
  PROVE  f[T] \in Nat /\ \A x \in T : w[x] <= f[T]
<1>. DEFINE Bounds(s) == f[s] \in Nat /\ \A x \in s : w[x] <= f[s]
            S == {m \in Nat : \A s \in UpTo(m, T) : Bounds(s)}
<1>1. 0 \in S
  BY OnlyEmpty DEF Sums
<1>2. ASSUME NEW m \in Nat, m \in S PROVE m + 1 \in S
  <2>. SUFFICES ASSUME NEW s \in UpTo(m + 1, T) PROVE Bounds(s)
    <3>. HIDE DEF Bounds
    <3>1. m + 1 \in Nat
      OBVIOUS
    <3>. QED
      BY <3>1
  <2>0. s \in SUBSET T
    BY DEF UpTo
  <2>1. CASE s = {}
    BY <2>1 DEF Sums
  <2>2. CASE s # {}
    <3>. DEFINE x == First(s)
                r == s \ {x}
    <3>1. x \in s /\ x \in T /\ r \in UpTo(m, T)
      BY <2>2, WithoutFirst
    <3>2. f[s] = w[x] + f[r]
      BY <2>0, <2>2 DEF Sums
    <3>. HIDE DEF x
    <3>3. f[r] \in Nat /\ \A y \in r : w[y] <= f[r]
      <4>. HIDE DEF r
      <4>. QED
        BY <1>2, <3>1
    <3>4. w[x] \in Nat /\ \A y \in s : w[y] \in Nat /\ (y = x \/ y \in r)
      BY <2>0, <3>1
    <3>5. f[s] \in Nat
      BY <3>2, <3>3, <3>4
    <3>6. ASSUME NEW y \in s PROVE w[y] <= f[s]
      <4>. HIDE DEF r
      <4>1. CASE y = x
        BY <3>2, <3>3, <3>4, <4>1
      <4>2. CASE y \in r
        BY <3>2, <3>3, <3>4, <4>2
      <4>. QED
        BY <3>4, <4>1, <4>2
    <3>. QED
      BY <3>5, <3>6
  <2>. QED
    BY <2>1, <2>2
<1>. HIDE DEF S, Bounds
<1>3. Cardinality(T) \in S
  BY <1>1, <1>2, Induction, AllSubsets
<1>4. Bounds(T)
  BY <1>3, AllSubsets DEF S
<1>. QED
  BY <1>4 DEF Bounds

LEMMA ActivePackages ==
  ASSUME NEW account \in Seq(ProxyPackageQuota)
  PROVE  /\ IsFiniteSet(Active(account))
         /\ \A i \in Active(account) :
              /\ account[i].total \in Int /\ account[i].used \in Int
              /\ Remaining(account[i]) \in Nat
              /\ account[i].total - account[i].used <= Remaining(account[i])
<1>1. Active(account) \subseteq 1..Len(account) /\ Len(account) \in Nat
  BY DEF Active, Listed
<1>2. IsFiniteSet(Active(account))
  <2>1. IsFiniteSet(1..Len(account))
    BY <1>1, FS_Interval
  <2>. QED
    BY <1>1, <2>1, FS_Subset
<1>3. \A i \in Active(account) : account[i] \in ProxyPackageQuota
  BY <1>1
<1>4. \A p \in ProxyPackageQuota : p.total \in Int /\ p.used \in Int
  BY DEF ProxyPackageQuota
<1>. QED
  BY <1>2, <1>3, <1>4 DEF Remaining

\* The prepaid traffic is no less than what any active package has left.
LEMMA PrepaidBounds ==
  ASSUME NEW account \in Seq(ProxyPackageQuota)
  PROVE  /\ Prepaid(account) \in Nat
         /\ \A i \in Active(account) : Remaining(account[i]) <= Prepaid(account)
<1>. DEFINE T == Active(account)
            w == [i \in T |-> Remaining(account[i])]
            Meets(g) == g = [s \in SUBSET T |->
                               IF s = {} THEN 0
                               ELSE Remaining(account[First(s)])
                                      + g[s \ {First(s)}]]
            f == CHOOSE g : Meets(g)
<1>1. IsFiniteSet(T) /\ \A i \in T : Remaining(account[i]) \in Nat
  BY ActivePackages
<1>2. w \in [T -> Nat]
  BY <1>1
<1>3. PICK g \in [SUBSET T -> Nat] : Sums(g, SUBSET T, w)
  <2>. HIDE DEF w, T
  <2>. QED
    BY <1>1, <1>2, SumExists
<1>4. \A s \in SUBSET T : s # {} => First(s) \in T
  BY DEF First
<1>5. Meets(g)
  <2>1. \A s \in SUBSET T : s # {} => w[First(s)] = Remaining(account[First(s)])
    BY <1>4
  <2>. HIDE DEF w, T
  <2>. QED
    BY <1>3, <2>1 DEF Sums
<1>6. Meets(f)
  <2>. HIDE DEF Meets
  <2>. QED
    BY <1>5
<1>7. Prepaid(account) = f[T]
  BY DEF Prepaid, MapThenSumSet, MapThenFoldSet, First
<1>. HIDE DEF f
<1>8. Sums(f, SUBSET T, w)
  <2>1. \A s \in SUBSET T : s # {} => w[First(s)] = Remaining(account[First(s)])
    BY <1>4
  <2>. HIDE DEF w, T
  <2>. QED
    BY <1>6, <2>1 DEF Sums
<1>9. f[T] \in Nat /\ \A i \in T : w[i] <= f[T]
  <2>. HIDE DEF w, T, Meets
  <2>. QED
    BY <1>1, <1>2, <1>8, SumBounds
<1>. QED
  BY <1>7, <1>9

-----------------------------------------------------------------------------
(***************************************************************************)
(* Why a POST is refused for its quota.                                    *)
(***************************************************************************)

\* No active package that is listed has the minimum left.
Exhausted(account) ==
  \A i \in Active(account) : account[i].total - account[i].used < MinBytes

\* Both conclusions of the check mean that.
LEMMA RefusalsExhausted ==
  ASSUME NEW account \in Accounts, NEW balance
  PROVE  /\ TrafficExhausted(account) => Exhausted(account)
         /\ BalanceExhausted(account, balance) => Exhausted(account)
<1>1. account \in Seq(ProxyPackageQuota) /\ MinBytes \in Int
  BY QuotaAssumption
<1>2. \A i \in Active(account) :
        /\ account[i].total \in Int /\ account[i].used \in Int
        /\ Remaining(account[i]) \in Nat
        /\ account[i].total - account[i].used <= Remaining(account[i])
  BY <1>1, ActivePackages
<1>3. \A i \in Active(account) :
        Remaining(account[i]) < MinBytes
          => account[i].total - account[i].used < MinBytes
  BY <1>1, <1>2
<1>4. TrafficExhausted(account) =>
        \A i \in Active(account) : Remaining(account[i]) < MinBytes
  BY DEF TrafficExhausted, Depleted
<1>5. BalanceExhausted(account, balance) =>
        \A i \in Active(account) : Remaining(account[i]) < MinBytes
  <2>1. /\ Prepaid(account) \in Nat
        /\ \A i \in Active(account) : Remaining(account[i]) <= Prepaid(account)
    BY <1>1, PrepaidBounds
  <2>. QED
    BY <1>1, <1>2, <2>1 DEF BalanceExhausted
<1>. QED
  BY <1>3, <1>4, <1>5 DEF Exhausted

\* An account that passes the first conclusion passes the second: a package
\* with the minimum left is a term of the sum.
LEMMA BalanceNeverExhausted ==
  ASSUME NEW account \in Accounts, NEW balance, ~TrafficExhausted(account)
  PROVE  ~BalanceExhausted(account, balance)
<1>1. account \in Seq(ProxyPackageQuota) /\ MinBytes \in Int
  BY QuotaAssumption
<1>2. PICK i \in Active(account) : ~(Remaining(account[i]) < MinBytes)
  BY DEF TrafficExhausted, Depleted
<1>3. /\ Remaining(account[i]) \in Nat /\ Prepaid(account) \in Nat
      /\ Remaining(account[i]) <= Prepaid(account)
  BY <1>1, ActivePackages, PrepaidBounds
<1>. QED
  BY <1>1, <1>2, <1>3 DEF BalanceExhausted

\* The account that the second request is about is the one that was listed, and
\* has passed the first conclusion.
QuotaInv ==
  /\ at.pc = "balance" => /\ at.listed \in Accounts
                          /\ ~TrafficExhausted(at.listed)
  /\ answer = 402 => Exhausted(at.listed)

LEMMA QuotaInitially == Init => QuotaInv
BY NoneAssumption DEF Init, Idle, QuotaInv

LEMMA PackagesRefuse ==
  ASSUME AdmissionInv, Packages
  PROVE  QuotaInv'
<1>1. PICK account \in Accounts :
        /\ at' = [at EXCEPT !.pc = IF TrafficExhausted(account) THEN "idle"
                                   ELSE "balance", !.listed = account]
        /\ answer' = IF TrafficExhausted(account) THEN 402 ELSE None
  BY DEF Packages
<1>2. at'.listed = account
  BY <1>1 DEF AdmissionInv, TypeOK
<1>3. answer' = 402 => TrafficExhausted(account)
  BY <1>1, NoneAssumption
<1>4. answer' = 402 => Exhausted(at'.listed)
  BY <1>2, <1>3, RefusalsExhausted
<1>5. at'.pc = "balance" => ~TrafficExhausted(account)
  BY <1>1 DEF AdmissionInv, TypeOK
<1>6. at'.pc = "balance" => ~TrafficExhausted(at'.listed)
  BY <1>2, <1>5
<1>. QED
  BY <1>2, <1>4, <1>6
     DEF QuotaInv, Exhausted, TrafficExhausted, Depleted, Active, Listed

LEMMA BalanceRefuses ==
  ASSUME AdmissionInv, QuotaInv, Balance
  PROVE  QuotaInv'
<1>1. at.listed \in Accounts /\ answer = None
  BY DEF Balance, QuotaInv, AdmissionInv, Admission, RequestPcs
<1>2. PICK balance \in Balances \cup {None} :
        IF BalanceExhausted(at.listed, balance)
          THEN Answer(402) /\ UNCHANGED effects
          ELSE GoOn("key", {})
  BY DEF Balance
<1>3. CASE BalanceExhausted(at.listed, balance)
  <2>1. at' = [at EXCEPT !.pc = "idle"]
    BY <1>2, <1>3 DEF Answer
  <2>2. at'.listed = at.listed /\ at'.pc = "idle"
    BY <2>1 DEF AdmissionInv, TypeOK
  <2>3. Exhausted(at'.listed)
    BY <1>1, <1>3, <2>2, RefusalsExhausted
  <2>. QED
    BY <2>2, <2>3 DEF QuotaInv, Exhausted, Active, Listed
<1>4. CASE ~BalanceExhausted(at.listed, balance)
  <2>1. at' = [at EXCEPT !.pc = "key"] /\ answer' = answer
    BY <1>2, <1>4 DEF GoOn
  <2>2. at'.pc = "key"
    BY <2>1 DEF AdmissionInv, TypeOK
  <2>. QED
    BY <1>1, <2>1, <2>2, NoneAssumption DEF QuotaInv
<1>. QED
  BY <1>3, <1>4

\* No other step answers with a 402, or asks for the balance.
LEMMA OthersDoNotRefuse ==
  ASSUME AdmissionInv, [Next]_vars, ~Packages, ~Balance
  PROVE  \/ answer' # 402 /\ at'.pc # "balance"
         \/ UNCHANGED <<at, answer>>
<1>. USE NoneAssumption DEF AdmissionInv, TypeOK, Admission, RequestPcs, ProbePcs
<1>1. \A pc, effect : GoOn(pc, effect) => at'.pc = pc /\ answer' = answer
  BY DEF GoOn
<1>2. \A status : Answer(status) => at'.pc = "idle" /\ answer' = status
  BY DEF Answer
<1>3. \A services, pc, effect :
        Call(services, pc, effect) =>
          \/ at'.pc = pc /\ answer' = answer
          \/ at'.pc = "idle" /\ answer' = 500
  BY <1>1, <1>2 DEF Call
<1>4. CASE Authenticate \/ Limit
  BY <1>1, <1>2, <1>3, <1>4, RoutesAre DEF Authenticate, Limit
<1>5. CASE Credentials \/ PackagesFail \/ QuotaGarbage
  BY <1>1, <1>2, <1>5 DEF Credentials, PackagesFail, QuotaGarbage
<1>6. CASE ListJobs \/ GetJob \/ Replay
  BY <1>2, <1>6 DEF ListJobs, GetJob, Replay, ReadTable
<1>7. CASE ReserveKey \/ InsertRow \/ Enqueue
  BY <1>1, <1>2, <1>3, <1>7 DEF ReserveKey, InsertRow, Enqueue
<1>8. CASE CountAndReply
  BY <1>2, <1>8 DEF CountAndReply
<1>9. CASE BeginRequest \/ Scrape \/ BeginProbe \/ Stop
  <2>1. CASE BeginRequest
    <3>1. at'.pc = "auth"
      BY <2>1, RequestBegun
    <3>2. answer' = None
      BY <2>1 DEF BeginRequest
    <3>. QED
      BY <3>1, <3>2
  <2>2. CASE Scrape \/ BeginProbe \/ Stop
    BY <2>2 DEF Scrape, BeginProbe, Stop, Idle
  <2>. QED
    BY <1>9, <2>1, <2>2
<1>10. CASE PingDb \/ CheckDir \/ Conclude
  <2>1. answer' = answer /\ answer = None
    BY <1>10 DEF PingDb, CheckDir, Conclude
  <2>2. CASE PingDb
    BY <2>1, <2>2 DEF PingDb
  <2>3. CASE CheckDir
    BY <2>1, <2>3 DEF CheckDir
  <2>4. CASE Conclude
    BY <2>1, <2>4 DEF Conclude, Idle
  <2>. QED
    BY <1>10, <2>2, <2>3, <2>4
<1>11. CASE UNCHANGED <<at, answer>>
  BY <1>11
<1>. QED
  BY <1>4, <1>5, <1>6, <1>7, <1>8, <1>9, <1>10, <1>11
     DEF Next, RequestStep, ProbeStep, Start, Break, Repair, DeleteFile, vars

LEMMA QuotaStep == AdmissionInv /\ QuotaInv /\ [Next]_vars => QuotaInv'
<1>. SUFFICES ASSUME AdmissionInv, QuotaInv, [Next]_vars PROVE QuotaInv'
  OBVIOUS
<1>1. CASE answer' # 402 /\ at'.pc # "balance"
  BY <1>1 DEF QuotaInv
<1>2. CASE UNCHANGED <<at, answer>>
  BY <1>2 DEF QuotaInv, Exhausted, TrafficExhausted, Depleted, Active, Listed
<1>. QED
  BY <1>1, <1>2, PackagesRefuse, BalanceRefuses, OthersDoNotRefuse

\* A POST that is refused for its quota had no active package with the minimum
\* left, however the packages of the first page share out what is left and
\* whatever the balance is: a sum below the minimum has no term above it.
THEOREM RefusalsAreForTraffic == Spec => []RefusedOnlyWithoutTraffic
<1>1. QuotaInv => RefusedOnlyWithoutTraffic
  BY DEF QuotaInv, Exhausted, Active, Listed, RefusedOnlyWithoutTraffic
<1>. QED
  BY <1>1, AdmissionInvariant, QuotaInitially, QuotaStep, PTL
     DEF Spec

\* The second request decides nothing: whatever balance it names, the POST goes
\* on, although the port promises a refusal "when traffic or balance is
\* insufficient" (domain/ports/proxy_quota_checker.py).
THEOREM BalanceDecidesNothing ==
  Spec => [](at.pc = "balance" =>
               \A balance \in Balances \cup {None} :
                 ~BalanceExhausted(at.listed, balance))
<1>1. QuotaInv => (at.pc = "balance" =>
                     \A balance \in Balances \cup {None} :
                       ~BalanceExhausted(at.listed, balance))
  BY BalanceNeverExhausted DEF QuotaInv
<1>. QED
  BY <1>1, AdmissionInvariant, QuotaInitially, QuotaStep, PTL DEF Spec
=============================================================================
