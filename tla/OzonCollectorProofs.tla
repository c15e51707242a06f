-------------------------- MODULE OzonCollectorProofs --------------------------
(***************************************************************************)
(* Theorems about OzonCollector, for any list of proxies, any number of    *)
(* retries, any listings, and whatever the site answers.                   *)
(***************************************************************************)
EXTENDS OzonCollector, WellFoundedInduction, TLAPS

-----------------------------------------------------------------------------
(***************************************************************************)
(* The inductive invariants.                                               *)
(***************************************************************************)
N == Len(Proxies)

\* How many steps of the rotation proxy i is from proxy s.
Turn(s, i) == IF s <= i THEN i - s ELSE i - s + N

\* The attempts for a page went q times round all the proxies from proxy s on,
\* and once more to the first r of them.
Rounds(s, q, r) ==
  /\ attempt = q * N + r
  /\ Turn(s, proxyIndex) = r
  /\ \A i \in 1..N : tried[i] = IF Turn(s, i) < r THEN q + 1 ELSE q

RotationInv ==
  /\ pc \in {"attempt", "request", "batch", "done", "raised"}
  /\ proxyIndex \in 1..N
  /\ tried \in [1..N -> Nat]
  /\ pc \in {"attempt", "request"} =>
       \E s \in 1..N, q \in 0..(MaxRetries - 1), r \in 0..(N - 1) : Rounds(s, q, r)
  /\ error # None => pc = "done"
  /\ GivesUpFairly

\* SessionsAreConsistent, with the places of what it speaks of.
SessionsInv ==
  /\ clients \in [Sessions -> Profiles \cup {Cold, None}]
  /\ fingerprints \in [Sessions -> Profiles \cup {None}]
  /\ warmed \subseteq Sessions
  /\ proxyIndex \in 1..N
  /\ SessionsAreConsistent

LEMMA ProxiesOK == N \in Nat \ {0} /\ DOMAIN Proxies = 1..N
BY ClientAssumption DEF N

LEMMA SessionOK == ASSUME proxyIndex \in 1..N PROVE Session \in Sessions
BY ProxiesOK DEF Session, Sessions

-----------------------------------------------------------------------------
(***************************************************************************)
(* Every proxy gets its share of the attempts.                             *)
(***************************************************************************)

\* The index of the next proxy.
LEMMA NextIndex ==
  ASSUME NEW p \in 1..N
  PROVE  (p % N) + 1 = IF p = N THEN 1 ELSE p + 1
<1>1. CASE p = N
  <2>1. p % N = 0
    BY <1>1, ProxiesOK
  <2>. QED
    BY <1>1, <2>1
<1>2. CASE p # N
  <2>1. p % N = p
    BY <1>2, ProxiesOK
  <2>. QED
    BY <1>2, <2>1
<1>. QED
  BY <1>1, <1>2

\* It is one step further from where the page began, or back there.
LEMMA NextTurn ==
  ASSUME NEW s \in 1..N, NEW p \in 1..N, NEW n, n = IF p = N THEN 1 ELSE p + 1
  PROVE  /\ n \in 1..N /\ Turn(s, p) \in 0..(N - 1)
         /\ Turn(s, n) = IF Turn(s, p) = N - 1 THEN 0 ELSE Turn(s, p) + 1
         /\ \A i \in 1..N : Turn(s, i) = Turn(s, p) => i = p
BY ProxiesOK DEF Turn

LEMMA LessTimes ==
  ASSUME NEW m \in Nat, NEW n \in Nat, NEW k \in Nat, m <= n
  PROVE  m * k <= n * k
OBVIOUS

LEMMA OneMoreTime ==
  ASSUME NEW m \in Nat, NEW k \in Nat
  PROVE  (m + 1) * k = m * k + k /\ m * k \in Nat
OBVIOUS

\* An attempt ends: the rotation goes on, and when no attempt is left every
\* proxy has had MaxRetries.
LEMMA NextRounds ==
  ASSUME NEW s \in 1..N, NEW q \in 0..(MaxRetries - 1), NEW r \in 0..(N - 1),
         Rounds(s, q, r), proxyIndex \in 1..N, tried \in [1..N -> Nat], NextProxy
  PROVE  /\ proxyIndex' \in 1..N /\ tried' \in [1..N -> Nat]
         /\ attempt + 1 < Attempts /\ attempt' = attempt + 1 =>
              \E t \in 0..(MaxRetries - 1), u \in 0..(N - 1) : Rounds(s, t, u)'
         /\ ~(attempt + 1 < Attempts) => \A i \in 1..N : tried'[i] = MaxRetries
<1>0. /\ N \in Nat \ {0} /\ MaxRetries \in Nat \ {0} /\ q \in Nat /\ r \in Nat
      /\ Attempts = MaxRetries * N
  BY ProxiesOK, ClientAssumption DEF Attempts, N
<1>1. /\ attempt = q * N + r /\ Turn(s, proxyIndex) = r
      /\ \A i \in 1..N : tried[i] = IF Turn(s, i) < r THEN q + 1 ELSE q
  BY DEF Rounds
<1>2. /\ proxyIndex' = IF proxyIndex = N THEN 1 ELSE proxyIndex + 1
      /\ tried' = [tried EXCEPT ![proxyIndex] = @ + 1]
  BY NextIndex DEF NextProxy, N
<1>3. /\ proxyIndex' \in 1..N
      /\ Turn(s, proxyIndex') = IF r = N - 1 THEN 0 ELSE r + 1
      /\ \A i \in 1..N : Turn(s, i) = r => i = proxyIndex
  BY <1>1, <1>2, NextTurn
<1>4. tried' \in [1..N -> Nat]
  BY <1>2
<1>5. \A i \in 1..N : tried'[i] = IF Turn(s, i) <= r THEN q + 1 ELSE q
  <2>. SUFFICES ASSUME NEW i \in 1..N
                PROVE  tried'[i] = IF Turn(s, i) <= r THEN q + 1 ELSE q
    OBVIOUS
  <2>1. Turn(s, i) \in 0..(N - 1)
    BY <1>0 DEF Turn
  <2>2. CASE i = proxyIndex
    BY <1>0, <1>1, <1>2, <2>2
  <2>3. CASE i # proxyIndex
    BY <1>0, <1>1, <1>2, <1>3, <2>1, <2>3
  <2>. QED
    BY <2>2, <2>3
<1>6. CASE r < N - 1
  <2>1. attempt + 1 = q * N + (r + 1)
    BY <1>0, <1>1
  <2>2. attempt + 1 < Attempts
    <3>1. (q + 1) * N <= MaxRetries * N
      BY <1>0, LessTimes
    <3>2. (q + 1) * N = q * N + N /\ q * N \in Nat /\ MaxRetries * N \in Nat
      BY <1>0, OneMoreTime
    <3>3. q * N + N <= MaxRetries * N
      BY <3>1, <3>2
    <3>4. q * N + (r + 1) < MaxRetries * N
      BY <1>0, <1>6, <3>2, <3>3
    <3>. QED
      BY <1>0, <2>1, <3>4
  <2>3. \A i \in 1..N : tried'[i] = IF Turn(s, i) < r + 1 THEN q + 1 ELSE q
    <3>1. \A i \in 1..N : Turn(s, i) \in 0..(N - 1)
      BY <1>0 DEF Turn
    <3>. QED
      BY <1>0, <1>5, <3>1
  <2>4. ASSUME attempt' = attempt + 1 PROVE Rounds(s, q, r + 1)'
    <3>1. Turn(s, proxyIndex') = r + 1
      BY <1>0, <1>3, <1>6
    <3>2. attempt' = q * N + (r + 1)
      BY <2>1, <2>4
    <3>. QED
      BY <2>3, <3>1, <3>2 DEF Rounds, Turn, N
  <2>. QED
    BY <1>0, <1>3, <1>4, <1>6, <2>2, <2>4
<1>7. CASE r = N - 1
  <2>1. attempt + 1 = (q + 1) * N
    BY <1>0, <1>1, <1>7
  <2>2. \A i \in 1..N : tried'[i] = q + 1 /\ Turn(s, i) \in 0..(N - 1)
    <3>1. \A i \in 1..N : Turn(s, i) \in 0..(N - 1)
      BY <1>0 DEF Turn
    <3>. QED
      BY <1>0, <1>5, <1>7, <3>1
  <2>3. CASE q + 1 < MaxRetries
    <3>1. attempt + 1 < Attempts
      <4>1. (q + 1 + 1) * N <= MaxRetries * N
        BY <1>0, <2>3, LessTimes
      <4>2. /\ (q + 1 + 1) * N = (q + 1) * N + N
            /\ (q + 1) * N \in Nat /\ MaxRetries * N \in Nat
        BY <1>0, OneMoreTime
      <4>3. (q + 1) * N + N <= MaxRetries * N
        BY <4>1, <4>2
      <4>4. (q + 1) * N < MaxRetries * N
        BY <1>0, <4>2, <4>3
      <4>. QED
        BY <1>0, <2>1, <4>4
    <3>2. ASSUME attempt' = attempt + 1 PROVE Rounds(s, q + 1, 0)'
      <4>1. attempt' = (q + 1) * N + 0
        BY <1>0, <2>1, <3>2, OneMoreTime
      <4>2. Turn(s, proxyIndex') = 0
        BY <1>3, <1>7
      <4>3. \A i \in 1..N : tried'[i] = IF Turn(s, i) < 0 THEN q + 1 + 1 ELSE q + 1
        BY <1>0, <2>2
      <4>. QED
        BY <4>1, <4>2, <4>3 DEF Rounds, Turn, N
    <3>. QED
      BY <1>0, <1>3, <1>4, <2>3, <3>1, <3>2
  <2>4. CASE q + 1 = MaxRetries
    <3>1. attempt + 1 = Attempts /\ Attempts \in Nat
      BY <1>0, <2>1, <2>4
    <3>. QED
      BY <1>3, <1>4, <2>2, <2>4, <3>1
  <2>. QED
    BY <1>0, <2>3, <2>4
<1>. QED
  BY <1>0, <1>6, <1>7

LEMMA RotationInit == Init => RotationInv
<1>. SUFFICES ASSUME Init PROVE RotationInv
  OBVIOUS
<1>1. /\ N \in Nat \ {0} /\ DOMAIN Proxies = 1..N /\ MaxRetries \in Nat \ {0}
  BY ProxiesOK, ClientAssumption
<1>2. proxyIndex = 1 /\ attempt = 0 /\ tried = [i \in 1..N |-> 0]
  BY <1>1 DEF Init
<1>3. Rounds(1, 0, 0)
  <2>1. \A i \in 1..N : tried[i] = 0 /\ Turn(1, i) >= 0
    BY <1>1, <1>2 DEF Turn
  <2>2. 0 * N + 0 = 0
    BY <1>1
  <2>. QED
    BY <1>2, <2>1, <2>2 DEF Rounds, Turn
<1>. QED
  BY <1>1, <1>2, <1>3, ClientAssumption DEF Init, RotationInv, GivesUpFairly

\* A request that did not give a page.
LEMMA RetryRotates ==
  ASSUME RotationInv, pc = "request", NextProxy, Retry
  PROVE  RotationInv'
<1>1. PICK s \in 1..N, q \in 0..(MaxRetries - 1), r \in 0..(N - 1) :
        Rounds(s, q, r)
  BY DEF RotationInv
<1>2. proxyIndex \in 1..N /\ tried \in [1..N -> Nat] /\ error = None
  BY DEF RotationInv
<1>3. /\ proxyIndex' \in 1..N /\ tried' \in [1..N -> Nat]
      /\ attempt + 1 < Attempts /\ attempt' = attempt + 1 =>
           \E t \in 0..(MaxRetries - 1), u \in 0..(N - 1) : Rounds(s, t, u)'
      /\ ~(attempt + 1 < Attempts) => \A i \in 1..N : tried'[i] = MaxRetries
  BY <1>1, <1>2, NextRounds
<1>4. CASE attempt + 1 < Attempts
  <2>1. attempt' = attempt + 1 /\ pc' = "attempt" /\ error' = None
    BY <1>2, <1>4 DEF Retry, collectVars
  <2>2. PICK t \in 0..(MaxRetries - 1), u \in 0..(N - 1) : Rounds(s, t, u)'
    BY <1>3, <1>4, <2>1
  <2>. QED
    BY <1>3, <2>1, <2>2, ClientAssumption DEF RotationInv, GivesUpFairly, N
<1>5. CASE ~(attempt + 1 < Attempts)
  <2>1. pc' = "done"
    BY <1>5 DEF Retry, Degrade
  <2>2. \A i \in DOMAIN Proxies : tried'[i] = MaxRetries
    BY <1>3, <1>5, ProxiesOK
  <2>. QED
    BY <1>3, <2>1, <2>2 DEF RotationInv, GivesUpFairly, N
<1>. QED
  BY <1>4, <1>5

LEMMA RotationNext ==
  ASSUME RotationInv, [Next]_vars
  PROVE  RotationInv'
<1>1. ASSUME error' = None PROVE GivesUpFairly'
  BY <1>1, ClientAssumption DEF GivesUpFairly
<1>2. CASE OpenSession
  <2>1. /\ pc = "attempt" /\ pc' = "request" /\ error = None
        /\ UNCHANGED <<error, attempt, proxyIndex, tried>>
    BY <1>2 DEF OpenSession, collectVars, RotationInv
  <2>2. PICK s \in 1..N, q \in 0..(MaxRetries - 1), r \in 0..(N - 1) :
          Rounds(s, q, r)
    BY <2>1 DEF RotationInv
  <2>3. Rounds(s, q, r)'
    BY <2>1, <2>2 DEF Rounds, Turn, N
  <2>. QED
    BY <1>1, <2>1, <2>3 DEF RotationInv, N
<1>3. ASSUME NextProxy, pc = "request"
      PROVE  proxyIndex' \in 1..N /\ tried' \in [1..N -> Nat]
  BY <1>3, NextRounds DEF RotationInv
<1>4. CASE Fetched \/ QuotaExhausted
  <2>1. /\ NextProxy /\ pc = "request" /\ pc' \in {"batch", "raised"}
        /\ error' = None
    BY <1>4 DEF Fetched, QuotaExhausted, Raise, collectVars, RotationInv
  <2>. QED
    BY <1>1, <1>3, <2>1 DEF RotationInv, N
<1>5. CASE Malformed
  <2>1. /\ NextProxy /\ pc = "request" /\ pc' = "done" /\ error' = "malformed"
    BY <1>5 DEF Malformed, Degrade
  <2>. QED
    BY <1>3, <2>1 DEF RotationInv, GivesUpFairly, N
<1>6. CASE FetchedEmpty \/ Blocked
  BY <1>6, RetryRotates DEF FetchedEmpty, Blocked
<1>7. CASE AddBatch
  <2>1. /\ pc = "batch" /\ error = None /\ UNCHANGED <<error, proxyIndex>>
        /\ proxyIndex \in 1..N
    BY <1>7 DEF AddBatch, RotationInv
  <2>2. CASE pc' = "done" /\ UNCHANGED <<attempt, tried>>
    BY <1>1, <2>1, <2>2 DEF RotationInv, N
  <2>3. CASE pc' = "attempt" /\ attempt' = 0 /\ tried' = [i \in DOMAIN Proxies |-> 0]
    <3>1. N \in Nat \ {0} /\ DOMAIN Proxies = 1..N /\ MaxRetries \in Nat \ {0}
      BY ProxiesOK, ClientAssumption
    <3>2. /\ attempt' = 0 * N + 0 /\ Turn(proxyIndex, proxyIndex') = 0
          /\ \A i \in 1..N : tried'[i] = 0 /\ Turn(proxyIndex, i) >= 0
      BY <2>1, <2>3, <3>1 DEF Turn
    <3>3. Rounds(proxyIndex, 0, 0)'
      BY <2>1, <3>1, <3>2 DEF Rounds, Turn, N
    <3>4. tried' \in [1..N -> Nat]
      BY <2>3, <3>1
    <3>5. \E s \in 1..N, q \in 0..(MaxRetries - 1), r \in 0..(N - 1) :
            Rounds(s, q, r)'
      BY <2>1, <3>1, <3>3
    <3>. QED
      BY <1>1, <2>1, <2>3, <3>4, <3>5 DEF RotationInv, N
  <2>. QED
    BY <1>7, <2>2, <2>3 DEF AddBatch
<1>8. CASE UNCHANGED <<pc, error, attempt, proxyIndex, tried>>
  BY <1>8 DEF RotationInv, GivesUpFairly, Rounds, Turn, N
<1>. QED
  BY <1>2, <1>4, <1>5, <1>6, <1>7, <1>8
     DEF Next, Collect, Reorder, vars, collectVars

\* Wherever the rotation stands when a page begins and however often it has
\* gone round, a collect that gives up because of the anti-bot answers has
\* asked with every proxy as often as HTTP_MAX_RETRIES allows.
THEOREM GivesUpOnAll == Spec => []GivesUpFairly
<1>1. RotationInv /\ [Next]_vars => RotationInv'
  BY RotationNext
<1>2. RotationInv => GivesUpFairly
  BY DEF RotationInv
<1>. QED
  BY <1>1, <1>2, RotationInit, PTL DEF Spec

-----------------------------------------------------------------------------
(***************************************************************************)
(* A client, its warm-up and its fingerprint are dropped together.         *)
(***************************************************************************)
LEMMA SessionsInit == Init => SessionsInv
BY ProxiesOK DEF Init, SessionsInv, SessionsAreConsistent, NoSessions

\* The three ways in which a collect changes its sessions.
LEMMA SessionDropped ==
  ASSUME SessionsInv, DropSession, proxyIndex' \in 1..N
  PROVE  SessionsInv'
<1>1. \A s \in warmed' : s \in warmed /\ s # Session
  BY DEF DropSession
<1>2. /\ clients' \in [Sessions -> Profiles \cup {Cold, None}]
      /\ fingerprints' \in [Sessions -> Profiles \cup {None}]
      /\ warmed' \subseteq Sessions
  BY DEF SessionsInv, DropSession
<1>3. \A s \in warmed' : /\ clients'[s] = clients[s]
                         /\ fingerprints'[s] = fingerprints[s]
  BY <1>1 DEF SessionsInv, DropSession
<1>. QED
  BY <1>1, <1>2, <1>3 DEF SessionsInv, SessionsAreConsistent, N

LEMMA SessionsClosed ==
  ASSUME CloseSessions, proxyIndex' \in 1..N
  PROVE  SessionsInv'
BY DEF CloseSessions, SessionsInv, SessionsAreConsistent, NoSessions, N

LEMMA SessionOpened ==
  ASSUME SessionsInv, OpenSession
  PROVE  SessionsInv'
<1>0. /\ Session \in Sessions /\ UNCHANGED proxyIndex /\ None \notin Profiles
      /\ clients \in [Sessions -> Profiles \cup {Cold, None}]
      /\ fingerprints \in [Sessions -> Profiles \cup {None}]
      /\ warmed \subseteq Sessions /\ proxyIndex \in 1..N
      /\ \A s \in warmed : clients[s] # None /\ clients[s] = fingerprints[s]
  BY SessionOK, ClientAssumption
     DEF SessionsInv, SessionsAreConsistent, OpenSession
<1>1. PICK f \in IF fingerprints[Session] = None THEN Profiles
                                                 ELSE {fingerprints[Session]} :
        /\ fingerprints' = [fingerprints EXCEPT ![Session] = f]
        /\ IF Warmup /\ Session \notin warmed
             THEN /\ clients' = [clients EXCEPT ![Session] = f]
                  /\ warmed' = warmed \cup {Session}
             ELSE /\ clients' = [clients EXCEPT
                                   ![Session] = IF @ = None THEN Cold ELSE @]
                  /\ UNCHANGED warmed
  BY DEF OpenSession
<1>2. f \in Profiles /\ fingerprints' \in [Sessions -> Profiles \cup {None}]
  BY <1>0, <1>1
<1>3. CASE Warmup /\ Session \notin warmed
  <2>1. /\ clients' = [clients EXCEPT ![Session] = f]
        /\ warmed' = warmed \cup {Session}
    BY <1>1, <1>3
  <2>2. clients' \in [Sessions -> Profiles \cup {Cold, None}]
    BY <1>0, <1>2, <2>1
  <2>3. \A s \in warmed' : clients'[s] # None /\ clients'[s] = fingerprints'[s]
    BY <1>0, <1>1, <1>2, <2>1
  <2>. QED
    BY <1>0, <1>2, <2>1, <2>2, <2>3 DEF SessionsInv, SessionsAreConsistent, N
<1>4. CASE ~(Warmup /\ Session \notin warmed)
  <2>. DEFINE d == IF clients[Session] = None THEN Cold ELSE clients[Session]
  <2>1. /\ clients' = [clients EXCEPT ![Session] = d] /\ warmed' = warmed
        /\ d \in Profiles \cup {Cold, None}
    BY <1>0, <1>1, <1>4
  <2>2. clients' \in [Sessions -> Profiles \cup {Cold, None}]
    BY <1>0, <2>1
  <2>3. ASSUME NEW s \in warmed'
        PROVE  clients'[s] # None /\ clients'[s] = fingerprints'[s]
    <3>1. s \in warmed /\ clients[s] # None /\ clients[s] = fingerprints[s]
      BY <1>0, <2>1, <2>3
    <3>2. CASE s = Session
      BY <1>0, <1>1, <2>1, <3>1, <3>2
    <3>3. CASE s # Session
      BY <1>0, <1>1, <2>1, <3>1, <3>3
    <3>. QED
      BY <3>2, <3>3
  <2>. QED
    BY <1>0, <1>2, <2>1, <2>2, <2>3 DEF SessionsInv, SessionsAreConsistent, N
<1>. QED
  BY <1>3, <1>4

LEMMA SessionsNext ==
  ASSUME SessionsInv, [Next]_vars
  PROVE  SessionsInv'
<1>1. proxyIndex' \in 1..N
  <2>1. CASE NextProxy
    <3>1. proxyIndex' = IF proxyIndex = N THEN 1 ELSE proxyIndex + 1
      BY <2>1, NextIndex DEF NextProxy, N, SessionsInv
    <3>. QED
      BY <3>1, ProxiesOK DEF SessionsInv
  <2>. QED
    BY <2>1 DEF Next, Collect, Reorder, OpenSession, Fetched, FetchedEmpty, Blocked,
                Malformed, QuotaExhausted, AddBatch, vars, SessionsInv
<1>2. CASE UNCHANGED sessionVars
  BY <1>1, <1>2 DEF sessionVars, SessionsInv, SessionsAreConsistent, N
<1>3. CASE CloseSessions
  BY <1>1, <1>3, SessionsClosed
<1>4. CASE DropSession
  BY <1>1, <1>4, SessionDropped
<1>5. CASE OpenSession
  BY <1>5, SessionOpened
<1>. QED
  BY <1>2, <1>3, <1>4, <1>5
     DEF Next, Collect, Reorder, Fetched, FetchedEmpty, Blocked, Malformed,
         QuotaExhausted, AddBatch, Retry, MoreAttempts, Raise, Degrade, vars

\* Through blocks, lost connections and the rotation, a proxy that counts as
\* warmed up still has the client and the fingerprint of its warm-up.
THEOREM SessionsStayConsistent == Spec => []SessionsAreConsistent
<1>1. SessionsInv /\ [Next]_vars => SessionsInv'
  BY SessionsNext
<1>2. SessionsInv => SessionsAreConsistent
  BY DEF SessionsInv
<1>. QED
  BY <1>1, <1>2, SessionsInit, PTL DEF Spec
-----------------------------------------------------------------------------
(***************************************************************************)
(* What a fold over a list computes.                                       *)
(***************************************************************************)

\* Induction, over a set of numbers.
LEMMA Induction ==
  ASSUME NEW S, 0 \in S, \A n \in Nat : n \in S => n + 1 \in S
  PROVE  Nat \subseteq S
<1>. SUFFICES ASSUME ~(Nat \subseteq S) PROVE FALSE
  OBVIOUS
<1>. DEFINE T == Nat \ S
            R == OpToRel(<, Nat)
<1>1. IsWellFoundedOn(R, Nat)
  BY NatLessThanWellFounded
<1>2. PICK x \in T : \A y \in T : <<y, x>> \notin R
  BY <1>1, WFMin, Zenon
<1>3. x # 0 /\ x - 1 \in Nat /\ x - 1 < x
  OBVIOUS
<1>4. x - 1 \in S
  BY <1>2, <1>3 DEF OpToRel
<1>. QED
  BY <1>3, <1>4

LEMMA LastPosition ==
  ASSUME NEW n \in Nat, NEW s \in SUBSET (1..n), s # {}
  PROVE  Max(s) \in s /\ \A x \in s : x <= Max(s)
<1>. DEFINE S == {m \in Nat : \A t \in SUBSET (1..m) :
                                t # {} => \E x \in t : \A y \in t : x >= y}
<1>1. 0 \in S
  <2>1. 1..0 = {}
    OBVIOUS
  <2>. QED
    BY <2>1
<1>2. ASSUME NEW m \in Nat, m \in S PROVE m + 1 \in S
  <2>. SUFFICES ASSUME NEW t \in SUBSET (1..(m + 1)), t # {}
                PROVE  \E x \in t : \A y \in t : x >= y
    OBVIOUS
  <2>1. CASE m + 1 \in t
    BY <2>1
  <2>2. CASE m + 1 \notin t
    <3>1. t \in SUBSET (1..m)
      BY <2>2
    <3>. QED
      BY <1>2, <3>1
  <2>. QED
    BY <2>1, <2>2
<1>. HIDE DEF S
<1>3. n \in S
  BY <1>1, <1>2, Induction
<1>4. \E x \in s : \A y \in s : x >= y
  BY <1>3 DEF S
<1>. QED
  BY <1>4 DEF Max

LEMMA LastOfPrefix ==
  ASSUME NEW n \in Nat \ {0}
  PROVE  1..n # {} /\ Max(1..n) = n /\ (1..n) \ {n} = 1..(n - 1)
<1>1. n \in 1..n /\ 1..n \in SUBSET (1..n)
  OBVIOUS
<1>2. Max(1..n) \in 1..n /\ \A x \in 1..n : x <= Max(1..n)
  BY <1>1, LastPosition
<1>. QED
  BY <1>1, <1>2

LEMMA WithoutLast ==
  ASSUME NEW m \in Nat, NEW n \in Nat, m + 1 <= n,
         NEW s \in SUBSET (1..(m + 1)), s # {}
  PROVE  /\ Max(s) \in 1..n /\ s \ {Max(s)} \in SUBSET (1..m)
         /\ s \ {Max(s)} \in SUBSET (1..(m + 1))
<1>1. m + 1 \in Nat
  OBVIOUS
<1>2. PICK k : k = Max(s) /\ k \in s /\ \A x \in s : x <= k
  BY <1>1, LastPosition
<1>3. \A x \in s : x \in 1..(m + 1) /\ x <= k
  BY <1>2
<1>4. k \in 1..(m + 1)
  BY <1>2, <1>3
<1>5. \A x \in s \ {k} : x \in 1..(m + 1) /\ x <= k /\ x # k
  BY <1>3
<1>6. \A x \in s \ {k} : x \in 1..m
  BY <1>4, <1>5
<1>7. k \in 1..n
  BY <1>4
<1>8. s \ {k} \in SUBSET (1..m) /\ s \ {k} \in SUBSET (1..(m + 1))
  BY <1>6
<1>. QED
  BY <1>2, <1>7, <1>8

\* step takes what the elements before position i give, in V, to what they
\* give with it.
Steps(step, n, V) == \A v \in V, i \in 1..n : step[<<v, i>>] \in V

\* The function by which a fold over n elements is defined.
Folds(f, n, V, base, step) ==
  /\ f \in [SUBSET (1..n) -> V]
  /\ \A s \in SUBSET (1..n) :
       f[s] = IF s = {} THEN base ELSE step[<<f[s \ {Max(s)}], Max(s)>>]

\* It goes through the list from the left.
Runs(f, n, V, base, step) ==
  /\ f[1..0] = base
  /\ \A i \in 0..n : f[1..i] \in V
  /\ \A i \in 1..n : f[1..i] = step[<<f[1..(i - 1)], i>>]

LEMMA FoldExists ==
  ASSUME NEW n \in Nat, NEW V, NEW base \in V, NEW step, Steps(step, n, V)
  PROVE  \E f : Folds(f, n, V, base, step)
<1>0. \A v \in V, i \in 1..n : step[<<v, i>>] \in V
  BY DEF Steps
<1>. DEFINE Meets(f, m) ==
              \A s \in SUBSET (1..m) :
                f[s] = IF s = {} THEN base
                       ELSE step[<<f[s \ {Max(s)}], Max(s)>>]
            S == {m \in Nat : m <= n => \E f \in [SUBSET (1..m) -> V] : Meets(f, m)}
<1>1. 0 \in S
  <2>. DEFINE f == [s \in SUBSET (1..0) |-> base]
  <2>1. f \in [SUBSET (1..0) -> V] /\ Meets(f, 0)
    OBVIOUS
  <2>. QED
    BY <2>1
<1>2. ASSUME NEW m \in Nat, m \in S PROVE m + 1 \in S
  <2>. HIDE DEF Meets
  <2>. SUFFICES ASSUME m + 1 <= n
                PROVE  \E f \in [SUBSET (1..(m + 1)) -> V] : Meets(f, m + 1)
    <3>1. m + 1 \in Nat
      OBVIOUS
    <3>. QED
      BY <3>1
  <2>0. m <= n
    OBVIOUS
  <2>1. PICK g \in [SUBSET (1..m) -> V] : Meets(g, m)
    BY <1>2, <2>0
  <2>. DEFINE f == [s \in SUBSET (1..(m + 1)) |->
                      IF s = {} THEN base
                      ELSE step[<<g[s \ {Max(s)}], Max(s)>>]]
  <2>2. ASSUME NEW s \in SUBSET (1..(m + 1)), s # {}
        PROVE  /\ Max(s) \in 1..n /\ s \ {Max(s)} \in SUBSET (1..m)
               /\ s \ {Max(s)} \in SUBSET (1..(m + 1))
    BY <2>2, WithoutLast
  <2>3. f \in [SUBSET (1..(m + 1)) -> V]
    BY <1>0, <2>2
  <2>4. \A s \in SUBSET (1..m) : s \in SUBSET (1..(m + 1)) /\ f[s] = g[s]
    <3>1. \A i \in 1..m : i \in 1..(m + 1)
      OBVIOUS
    <3>. QED
      BY <2>1, <3>1 DEF Meets
  <2>5. ASSUME NEW s \in SUBSET (1..(m + 1))
        PROVE  f[s] = IF s = {} THEN base
                      ELSE step[<<f[s \ {Max(s)}], Max(s)>>]
    <3>1. s # {} => f[s \ {Max(s)}] = g[s \ {Max(s)}]
      BY <2>2, <2>4
    <3>. QED
      BY <3>1
  <2>. QED
    BY <2>3, <2>5 DEF Meets
<1>. HIDE DEF S
<1>3. n \in S
  BY <1>1, <1>2, Induction
<1>. HIDE DEF Meets
<1>4. n <= n
  OBVIOUS
<1>5. \E f \in [SUBSET (1..n) -> V] : Meets(f, n)
  BY <1>3, <1>4 DEF S
<1>. QED
  BY <1>5 DEF Meets, Folds

\* Any such function goes through the list from the left.
LEMMA FoldRuns ==
  ASSUME NEW n \in Nat, NEW V, NEW base \in V, NEW step,
         Steps(step, n, V), NEW f, f[{}] = base,
         \A s \in SUBSET (1..n) :
           s # {} /\ f[s \ {Max(s)}] \in V
             => f[s] = step[<<f[s \ {Max(s)}], Max(s)>>]
  PROVE  Runs(f, n, V, base, step)
<1>. DEFINE S == {m \in Nat : m <= n => f[1..m] \in V}
<1>1. 1..0 = {}
  OBVIOUS
<1>2. ASSUME NEW i \in 1..n, f[1..(i - 1)] \in V
      PROVE  f[1..i] = step[<<f[1..(i - 1)], i>>]
  <2>1. 1..i \in SUBSET (1..n) /\ i \in Nat \ {0}
    OBVIOUS
  <2>. QED
    BY <1>2, <2>1, LastOfPrefix
<1>3. 0 \in S
  BY <1>1
<1>4. ASSUME NEW m \in Nat, m \in S PROVE m + 1 \in S
  <2>. SUFFICES ASSUME m + 1 <= n PROVE f[1..(m + 1)] \in V
    OBVIOUS
  <2>1. m + 1 \in 1..n /\ (m + 1) - 1 = m /\ f[1..m] \in V
    BY <1>4
  <2>. QED
    BY <1>2, <2>1 DEF Steps
<1>. HIDE DEF S
<1>5. Nat \subseteq S
  BY <1>3, <1>4, Induction
<1>6. \A i \in 0..n : f[1..i] \in V
  BY <1>5 DEF S
<1>. QED
  BY <1>1, <1>2, <1>6 DEF Runs

-----------------------------------------------------------------------------
(***************************************************************************)
(* What the collector takes from a page.                                   *)
(***************************************************************************)
Members(q) == {q[i] : i \in DOMAIN q}

\* _parse_products, of any list.
PricedOf(q) ==
  FoldLeft(LAMBDA got, p : IF p \in Priced THEN Append(got, p) ELSE got, <<>>, q)

LEMMA ParsingRuns ==
  ASSUME NEW q \in Seq(Skus)
  PROVE  \E c \in [0..Len(q) -> Seq(Skus)] :
           /\ c[0] = <<>>
           /\ \A i \in 1..Len(q) :
                c[i] = IF q[i] \in Priced THEN Append(c[i - 1], q[i]) ELSE c[i - 1]
           /\ PricedOf(q) = c[Len(q)]
<1>. DEFINE n == Len(q)
            V == Seq(Skus)
            Op(v, i) == IF q[i] \in Priced THEN Append(v, q[i]) ELSE v
            step == [x \in V \X (1..n) |-> Op(x[1], x[2])]
            Meets(g) == g = [s \in SUBSET (1..n) |->
                               IF s = {} THEN <<>>
                               ELSE Op(g[s \ {Max(s)}], Max(s))]
            f == CHOOSE g : Meets(g)
<1>1. n \in Nat /\ DOMAIN q = 1..n /\ \A i \in 1..n : q[i] \in Skus
  OBVIOUS
<1>2. \A v \in V, i \in 1..n : Op(v, i) \in V /\ step[<<v, i>>] = Op(v, i)
  BY <1>1
<1>3. <<>> \in V /\ Steps(step, n, V)
  BY <1>2 DEF Steps
<1>4. PICK w : Folds(w, n, V, <<>>, step)
  <2>. HIDE DEF step, V, n, Op
  <2>. QED
    BY <1>1, <1>3, FoldExists
<1>5. Meets(w)
  <2>1. ASSUME NEW s \in SUBSET (1..n), s # {}
        PROVE  step[<<w[s \ {Max(s)}], Max(s)>>] = Op(w[s \ {Max(s)}], Max(s))
    <3>1. Max(s) \in s
      BY <1>1, <2>1, LastPosition
    <3>2. Max(s) \in 1..n /\ w[s \ {Max(s)}] \in V
      BY <1>4, <3>1 DEF Folds
    <3>. HIDE DEF step, Op, V
    <3>. QED
      BY <1>2, <3>2
  <2>. HIDE DEF step, Op
  <2>. QED
    BY <1>4, <2>1 DEF Folds
<1>6. Meets(f)
  <2>. HIDE DEF Meets
  <2>. QED
    BY <1>5
<1>7. PricedOf(q) = f[1..n]
  BY <1>1 DEF PricedOf, FoldLeft, MapThenFoldSet
<1>. HIDE DEF f
<1>8. f[{}] = <<>>
  BY <1>6
<1>9. \A s \in SUBSET (1..n) :
        s # {} /\ f[s \ {Max(s)}] \in V
          => f[s] = step[<<f[s \ {Max(s)}], Max(s)>>]
  <2>. SUFFICES ASSUME NEW s \in SUBSET (1..n), s # {}, f[s \ {Max(s)}] \in V
                PROVE  f[s] = step[<<f[s \ {Max(s)}], Max(s)>>]
    OBVIOUS
  <2>1. Max(s) \in 1..n
    BY <1>1, LastPosition
  <2>2. f[s] = Op(f[s \ {Max(s)}], Max(s))
    <3>. HIDE DEF Op
    <3>. QED
      BY <1>6
  <2>. HIDE DEF step, Op, V
  <2>. QED
    BY <1>2, <2>1, <2>2
<1>10. Runs(f, n, V, <<>>, step)
  <2>. HIDE DEF step, V, n, Op, Meets
  <2>. QED
    BY <1>1, <1>3, <1>8, <1>9, FoldRuns
<1>. DEFINE c == [i \in 0..n |-> f[1..i]]
<1>11. ASSUME NEW i \in 1..n PROVE c[i] = Op(c[i - 1], i)
  <2>1. i \in 0..n /\ i - 1 \in 0..n
    BY <1>1
  <2>2. f[1..(i - 1)] \in V /\ f[1..i] = step[<<f[1..(i - 1)], i>>]
    BY <1>10, <2>1 DEF Runs
  <2>3. f[1..i] = Op(f[1..(i - 1)], i)
    <3>. HIDE DEF step, V, Op
    <3>. QED
      BY <1>2, <2>2
  <2>. HIDE DEF Op
  <2>. QED
    BY <2>1, <2>3
<1>12. c \in [0..n -> V] /\ c[0] = <<>> /\ c[n] = PricedOf(q)
  <2>1. 0 \in 0..n /\ n \in 0..n
    BY <1>1
  <2>. QED
    BY <1>7, <1>10, <2>1 DEF Runs
<1>. HIDE DEF c
<1>. QED
  BY <1>11, <1>12

LEMMA AddingRuns ==
  ASSUME products \in Seq(Skus), NEW q \in Seq(Skus)
  PROVE  \E c \in [0..Len(q) -> Seq(Skus)] :
           /\ c[0] = products
           /\ \A i \in 1..Len(q) :
                c[i] = IF Len(c[i - 1]) >= target \/ q[i] \in Members(c[i - 1])
                         THEN c[i - 1] ELSE Append(c[i - 1], q[i])
           /\ With(q) = c[Len(q)]
<1>. DEFINE n == Len(q)
            V == Seq(Skus)
            Op(v, i) == IF Len(v) >= target \/ \E j \in DOMAIN v : v[j] = q[i]
                          THEN v ELSE Append(v, q[i])
            step == [x \in V \X (1..n) |-> Op(x[1], x[2])]
            Meets(g) == g = [s \in SUBSET (1..n) |->
                               IF s = {} THEN products
                               ELSE Op(g[s \ {Max(s)}], Max(s))]
            f == CHOOSE g : Meets(g)
<1>1. n \in Nat /\ DOMAIN q = 1..n /\ \A i \in 1..n : q[i] \in Skus
  OBVIOUS
<1>2. \A v \in V, i \in 1..n : Op(v, i) \in V /\ step[<<v, i>>] = Op(v, i)
  BY <1>1
<1>3. products \in V /\ Steps(step, n, V)
  BY <1>2 DEF Steps
<1>4. PICK w : Folds(w, n, V, products, step)
  <2>. HIDE DEF step, V, n, Op
  <2>. QED
    BY <1>1, <1>3, FoldExists
<1>5. Meets(w)
  <2>1. ASSUME NEW s \in SUBSET (1..n), s # {}
        PROVE  step[<<w[s \ {Max(s)}], Max(s)>>] = Op(w[s \ {Max(s)}], Max(s))
    <3>1. Max(s) \in s
      BY <1>1, <2>1, LastPosition
    <3>2. Max(s) \in 1..n /\ w[s \ {Max(s)}] \in V
      BY <1>4, <3>1 DEF Folds
    <3>. HIDE DEF step, Op, V
    <3>. QED
      BY <1>2, <3>2
  <2>. HIDE DEF step, Op
  <2>. QED
    BY <1>4, <2>1 DEF Folds
<1>6. Meets(f)
  <2>. HIDE DEF Meets
  <2>. QED
    BY <1>5
<1>7. With(q) = f[1..n]
  BY <1>1 DEF With, FoldLeft, MapThenFoldSet
<1>. HIDE DEF f
<1>8. f[{}] = products
  BY <1>6
<1>9. \A s \in SUBSET (1..n) :
        s # {} /\ f[s \ {Max(s)}] \in V
          => f[s] = step[<<f[s \ {Max(s)}], Max(s)>>]
  <2>. SUFFICES ASSUME NEW s \in SUBSET (1..n), s # {}, f[s \ {Max(s)}] \in V
                PROVE  f[s] = step[<<f[s \ {Max(s)}], Max(s)>>]
    OBVIOUS
  <2>1. Max(s) \in 1..n
    BY <1>1, LastPosition
  <2>2. f[s] = Op(f[s \ {Max(s)}], Max(s))
    <3>. HIDE DEF Op
    <3>. QED
      BY <1>6
  <2>. HIDE DEF step, Op, V
  <2>. QED
    BY <1>2, <2>1, <2>2
<1>10. Runs(f, n, V, products, step)
  <2>. HIDE DEF step, V, n, Op, Meets
  <2>. QED
    BY <1>1, <1>3, <1>8, <1>9, FoldRuns
<1>. DEFINE c == [i \in 0..n |-> f[1..i]]
<1>11. ASSUME NEW i \in 1..n PROVE c[i] = Op(c[i - 1], i)
  <2>1. i \in 0..n /\ i - 1 \in 0..n
    BY <1>1
  <2>2. f[1..(i - 1)] \in V /\ f[1..i] = step[<<f[1..(i - 1)], i>>]
    BY <1>10, <2>1 DEF Runs
  <2>3. f[1..i] = Op(f[1..(i - 1)], i)
    <3>. HIDE DEF step, V, Op
    <3>. QED
      BY <1>2, <2>2
  <2>. HIDE DEF Op
  <2>. QED
    BY <2>1, <2>3
<1>12. c \in [0..n -> V] /\ c[0] = products /\ c[n] = With(q)
  <2>1. 0 \in 0..n /\ n \in 0..n
    BY <1>1
  <2>. QED
    BY <1>7, <1>10, <2>1 DEF Runs
<1>. HIDE DEF c
<1>13. ASSUME NEW i \in 1..n
       PROVE  c[i] = IF Len(c[i - 1]) >= target \/ q[i] \in Members(c[i - 1])
                       THEN c[i - 1] ELSE Append(c[i - 1], q[i])
  BY <1>11 DEF Members
<1>. QED
  BY <1>12, <1>13

LEMMA AppendMembers ==
  ASSUME NEW S, NEW q \in Seq(S), NEW x \in S
  PROVE  /\ Append(q, x) \in Seq(S) /\ Len(Append(q, x)) = Len(q) + 1
         /\ Len(q) \in Nat
         /\ Members(Append(q, x)) = Members(q) \cup {x}
         /\ \A i \in 1..Len(q) : Append(q, x)[i] = q[i]
         /\ Append(q, x)[Len(q) + 1] = x
<1>. DEFINE a == Append(q, x)
            n == Len(q)
<1>1. /\ a \in Seq(S) /\ Len(a) = n + 1 /\ n \in Nat
      /\ DOMAIN a = 1..(n + 1) /\ DOMAIN q = 1..n
      /\ \A i \in 1..n : a[i] = q[i]
      /\ a[n + 1] = x
  OBVIOUS
<1>. HIDE DEF a, n
<1>2. \A i : i \in 1..(n + 1) <=> i \in 1..n \/ i = n + 1
  BY <1>1
<1>3. Members(a) = Members(q) \cup {x}
  BY <1>1, <1>2 DEF Members
<1>. QED
  BY <1>1, <1>3 DEF a, n

\* All products of a page whose price parses are taken, and only those.
LEMMA ParsesAll ==
  ASSUME NEW q \in Seq(Skus)
  PROVE  /\ PricedOf(q) \in Seq(Skus) /\ Len(PricedOf(q)) <= Len(q)
         /\ Members(PricedOf(q)) = Members(q) \cap Priced
<1>. DEFINE n == Len(q)
<1>1. n \in Nat /\ DOMAIN q = 1..n /\ \A i \in 1..n : q[i] \in Skus
  OBVIOUS
<1>2. PICK c \in [0..n -> Seq(Skus)] :
        /\ c[0] = <<>>
        /\ \A i \in 1..n :
             c[i] = IF q[i] \in Priced THEN Append(c[i - 1], q[i]) ELSE c[i - 1]
        /\ PricedOf(q) = c[n]
  BY ParsingRuns
<1>. DEFINE S == {m \in Nat : m <= n =>
                    /\ Len(c[m]) <= m
                    /\ Members(c[m]) = {q[i] : i \in 1..m} \cap Priced}
<1>3. 0 \in S
  <2>1. 1..0 = {} /\ Members(<<>>) = {} /\ Len(<<>>) = 0
    BY DEF Members
  <2>. QED
    BY <1>2, <2>1
<1>4. ASSUME NEW m \in Nat, m \in S PROVE m + 1 \in S
  <2>. SUFFICES ASSUME m + 1 <= n
                PROVE  /\ Len(c[m + 1]) <= m + 1
                       /\ Members(c[m + 1]) = {q[i] : i \in 1..(m + 1)} \cap Priced
    OBVIOUS
  <2>1. /\ m + 1 \in 1..n /\ m \in 0..n /\ (m + 1) - 1 = m /\ m <= n
        /\ c[m] \in Seq(Skus) /\ q[m + 1] \in Skus
    BY <1>1, <1>2
  <2>2. /\ Len(c[m]) <= m /\ Members(c[m]) = {q[i] : i \in 1..m} \cap Priced
    BY <1>4, <2>1
  <2>3. c[m + 1] = IF q[m + 1] \in Priced THEN Append(c[m], q[m + 1]) ELSE c[m]
    BY <1>2, <2>1
  <2>4. {q[i] : i \in 1..(m + 1)} = {q[i] : i \in 1..m} \cup {q[m + 1]}
    <3>1. \A i : i \in 1..(m + 1) <=> i \in 1..m \/ i = m + 1
      BY <2>1
    <3>. QED
      BY <3>1
  <2>5. CASE q[m + 1] \in Priced
    BY <2>1, <2>2, <2>3, <2>4, <2>5, AppendMembers
  <2>6. CASE q[m + 1] \notin Priced
    BY <2>1, <2>2, <2>3, <2>4, <2>6
  <2>. QED
    BY <2>5, <2>6
<1>. HIDE DEF S
<1>5. n \in S
  BY <1>1, <1>3, <1>4, Induction
<1>6. Len(c[n]) <= n /\ Members(c[n]) = {q[i] : i \in 1..n} \cap Priced
  BY <1>1, <1>5 DEF S
<1>7. Members(q) = {q[i] : i \in 1..n}
  BY <1>1 DEF Members
<1>8. n \in 0..n
  BY <1>1
<1>9. c[n] \in Seq(Skus)
  BY <1>2, <1>8
<1>. HIDE DEF n
<1>. QED
  BY <1>2, <1>6, <1>7, <1>9 DEF n

Distinct(q) == \A i, j \in DOMAIN q : q[i] = q[j] => i = j

\* The products after a batch: those before and, unless there are enough, all
\* of the batch; none of them twice, and not too many.
LEMMA AddsAll ==
  ASSUME products \in Seq(Skus), target \in Nat, Len(products) <= target,
         Distinct(products), NEW q \in Seq(Skus)
  PROVE  /\ With(q) \in Seq(Skus) /\ Len(With(q)) <= target /\ Distinct(With(q))
         /\ Members(products) \subseteq Members(With(q))
         /\ Members(With(q)) \subseteq Members(products) \cup Members(q)
         /\ Len(With(q)) < target => Members(q) \subseteq Members(With(q))
<1>. DEFINE n == Len(q)
            Good(v, m) ==
              /\ Len(v) <= target /\ Distinct(v)
              /\ Members(products) \subseteq Members(v)
              /\ Members(v) \subseteq Members(products) \cup {q[i] : i \in 1..m}
              /\ Len(v) < target => {q[i] : i \in 1..m} \subseteq Members(v)
<1>1. n \in Nat /\ DOMAIN q = 1..n /\ \A i \in 1..n : q[i] \in Skus
  OBVIOUS
<1>2. PICK c \in [0..n -> Seq(Skus)] :
        /\ c[0] = products
        /\ \A i \in 1..n :
             c[i] = IF Len(c[i - 1]) >= target \/ q[i] \in Members(c[i - 1])
                      THEN c[i - 1] ELSE Append(c[i - 1], q[i])
        /\ With(q) = c[n]
  BY AddingRuns
<1>. DEFINE S == {m \in Nat : m <= n => Good(c[m], m)}
<1>3. 0 \in S
  <2>1. 1..0 = {}
    OBVIOUS
  <2>. QED
    BY <1>2, <2>1
<1>4. ASSUME NEW m \in Nat, m \in S PROVE m + 1 \in S
  <2>. SUFFICES ASSUME m + 1 <= n PROVE Good(c[m + 1], m + 1)
    <3>. HIDE DEF Good
    <3>1. m + 1 \in Nat
      OBVIOUS
    <3>. QED
      BY <3>1
  <2>. DEFINE v == c[m]
              x == q[m + 1]
  <2>1. /\ m + 1 \in 1..n /\ m \in 0..n /\ (m + 1) - 1 = m /\ m <= n
        /\ v \in Seq(Skus) /\ x \in Skus /\ Len(v) \in Nat
    BY <1>1, <1>2
  <2>2. Good(v, m)
    <3>. HIDE DEF Good
    <3>. QED
      BY <1>4, <2>1
  <2>3. c[m + 1] = IF Len(v) >= target \/ x \in Members(v)
                     THEN v ELSE Append(v, x)
    BY <1>2, <2>1
  <2>4. {q[i] : i \in 1..(m + 1)} = {q[i] : i \in 1..m} \cup {x}
    <3>1. \A i : i \in 1..(m + 1) <=> i \in 1..m \/ i = m + 1
      BY <2>1
    <3>. QED
      BY <3>1
  <2>. HIDE DEF v, x
  <2>5. CASE Len(v) >= target \/ x \in Members(v)
    <3>1. c[m + 1] = v
      BY <2>3, <2>5
    <3>2. Len(v) < target => x \in Members(v)
      BY <2>1, <2>5
    <3>. QED
      BY <2>2, <2>4, <3>1, <3>2
  <2>6. CASE Len(v) < target /\ x \notin Members(v)
    <3>. DEFINE a == Append(v, x)
    <3>1. /\ c[m + 1] = a /\ a \in Seq(Skus) /\ Len(a) = Len(v) + 1
          /\ Members(a) = Members(v) \cup {x}
          /\ \A i \in 1..Len(v) : a[i] = v[i]
          /\ a[Len(v) + 1] = x
      BY <2>1, <2>3, <2>6, AppendMembers
    <3>. HIDE DEF a
    <3>2. Distinct(a)
      <4>1. DOMAIN a = 1..(Len(v) + 1) /\ DOMAIN v = 1..Len(v)
        BY <2>1, <3>1
      <4>2. \A i \in DOMAIN a : i \in DOMAIN v \/ i = Len(v) + 1
        BY <2>1, <4>1
      <4>3. \A i \in DOMAIN v : v[i] # x
        BY <2>6 DEF Members
      <4>. QED
        BY <2>2, <3>1, <4>1, <4>2, <4>3 DEF Distinct
    <3>3. Len(a) <= target
      BY <2>1, <2>6, <3>1
    <3>4. Members(products) \subseteq Members(a)
      BY <2>2, <3>1
    <3>5. Members(a) \subseteq Members(products) \cup {q[i] : i \in 1..(m + 1)}
      BY <2>2, <2>4, <3>1
    <3>6. {q[i] : i \in 1..(m + 1)} \subseteq Members(a)
      BY <2>2, <2>4, <2>6, <3>1
    <3>. QED
      BY <3>1, <3>2, <3>3, <3>4, <3>5, <3>6
  <2>. QED
    BY <2>1, <2>5, <2>6
<1>. HIDE DEF S
<1>5. n \in S
  BY <1>1, <1>3, <1>4, Induction
<1>6. Good(c[n], n)
  <2>. HIDE DEF Good
  <2>1. n <= n
    BY <1>1
  <2>. QED
    BY <1>5, <2>1 DEF S
<1>7. Members(q) = {q[i] : i \in 1..n}
  BY <1>1 DEF Members
<1>8. n \in 0..n
  BY <1>1
<1>9. c[n] \in Seq(Skus)
  BY <1>2, <1>8
<1>. QED
  BY <1>2, <1>6, <1>7, <1>9

\* What a page adds to is a list of products, whatever the site answers.
LEMMA BatchOK ==
  ASSUME category \in Seq(Skus), page \in Nat \ {0}
  PROVE  OnSite \in Seq(Skus) /\ Batch \in Seq(Skus)
<1>1. SitePage \in Nat \ {0} /\ PageSize \in Nat \ {0}
  BY CatalogAssumption
<1>2. (page - 1) * SitePage \in Nat /\ page * SitePage \in Nat /\ Len(category) \in Nat
  BY <1>1
<1>3. OnSite \in Seq(Skus)
  BY <1>2 DEF OnSite, Lesser
<1>4. PricedOf(OnSite) \in Seq(Skus)
  BY <1>3, ParsesAll
<1>5. Batch = SubSeq(PricedOf(OnSite), 1, Lesser(PageSize, Len(PricedOf(OnSite))))
  BY DEF Batch, PricedOf
<1>. HIDE DEF OnSite
<1>6. SubSeq(PricedOf(OnSite), 1, Lesser(PageSize, Len(PricedOf(OnSite)))) \in Seq(Skus)
  BY <1>1, <1>4 DEF Lesser
<1>. QED
  BY <1>3, <1>5, <1>6

-----------------------------------------------------------------------------
(***************************************************************************)
(* What a collect keeps in its variables.                                  *)
(***************************************************************************)

\* The products are all different and no more than the target.
ProductsInv ==
  /\ category \in Seq(Skus)
  /\ target \in Targets
  /\ page \in Nat \ {0}
  /\ products \in Seq(Skus) /\ Len(products) <= target /\ Distinct(products)

CountersInv ==
  /\ error \in {None, "anti-bot", "malformed"}
  /\ attempt \in 0..(Attempts - 1)
  /\ tried \in [1..N -> 0..MaxRetries]
  /\ moved \in BOOLEAN

TypeInv == RotationInv /\ SessionsInv /\ ProductsInv /\ CountersInv

LEMMA TypeInit == Init => TypeInv
<1>. SUFFICES ASSUME Init PROVE TypeInv
  OBVIOUS
<1>1. RotationInv /\ SessionsInv
  BY RotationInit, SessionsInit
<1>2. ProductsInv
  BY CatalogAssumption DEF Init, ProductsInv, Distinct
<1>3. CountersInv
  <2>1. N \in Nat \ {0} /\ MaxRetries \in Nat \ {0} /\ DOMAIN Proxies = 1..N
    BY ProxiesOK, ClientAssumption
  <2>2. Attempts \in Nat \ {0}
    BY <2>1, OneMoreTime DEF Attempts, N
  <2>3. tried \in [1..N -> 0..MaxRetries]
    BY <2>1 DEF Init
  <2>4. attempt \in 0..(Attempts - 1)
    BY <2>2 DEF Init
  <2>. QED
    BY <2>3, <2>4 DEF Init, CountersInv
<1>. QED
  BY <1>1, <1>2, <1>3 DEF TypeInv

\* The proxy whose turn it is has had fewer attempts than MaxRetries.
LEMMA TriedBounded ==
  ASSUME RotationInv, CountersInv, pc = "request", NextProxy
  PROVE  tried' \in [1..N -> 0..MaxRetries]
<1>1. PICK s \in 1..N, q \in 0..(MaxRetries - 1), r \in 0..(N - 1) :
        Rounds(s, q, r)
  BY DEF RotationInv
<1>2. tried[proxyIndex] = q /\ proxyIndex \in 1..N
  BY <1>1 DEF Rounds, RotationInv
<1>3. q + 1 \in 0..MaxRetries
  BY <1>1, ClientAssumption
<1>. QED
  BY <1>2, <1>3 DEF NextProxy, CountersInv

LEMMA ProductsNext ==
  ASSUME ProductsInv, [Next]_vars
  PROVE  ProductsInv'
<1>1. CASE UNCHANGED <<category, target, page, products>>
  BY <1>1 DEF ProductsInv, Distinct
<1>2. CASE AddBatch /\ UNCHANGED <<category, moved>>
  <2>1. target \in Nat /\ target' = target /\ products' = With(Batch)
    BY <1>2, CatalogAssumption DEF AddBatch, ProductsInv
  <2>2. page' \in Nat \ {0}
    BY <1>2 DEF AddBatch, ProductsInv
  <2>3. /\ With(Batch) \in Seq(Skus) /\ Len(With(Batch)) <= target
        /\ Distinct(With(Batch))
    BY <2>1, BatchOK, AddsAll DEF ProductsInv
  <2>. QED
    BY <1>2, <2>1, <2>2, <2>3 DEF ProductsInv, Distinct
<1>3. CASE Reorder
  <2>1. PICK i \in DOMAIN category :
          category' = <<category[i]>> \o RemoveAt(category, i)
    BY <1>3 DEF Reorder
  <2>2. RemoveAt(category, i) \in Seq(Skus) /\ category[i] \in Skus
    BY DEF ProductsInv, RemoveAt
  <2>3. category' \in Seq(Skus)
    BY <2>1, <2>2
  <2>4. UNCHANGED <<target, page, products>>
    BY <1>3 DEF Reorder, collectVars
  <2>. QED
    BY <2>3, <2>4 DEF ProductsInv, Distinct
<1>. QED
  BY <1>1, <1>2, <1>3
     DEF Next, Collect, OpenSession, Fetched, FetchedEmpty, Blocked, Malformed,
         QuotaExhausted, Retry, Raise, Degrade, vars, collectVars

LEMMA CountersNext ==
  ASSUME RotationInv, CountersInv, [Next]_vars
  PROVE  CountersInv'
<1>0. /\ N \in Nat \ {0} /\ MaxRetries \in Nat \ {0} /\ DOMAIN Proxies = 1..N
      /\ Attempts \in Nat \ {0}
  <2>1. N \in Nat \ {0} /\ MaxRetries \in Nat \ {0} /\ DOMAIN Proxies = 1..N
    BY ProxiesOK, ClientAssumption
  <2>. QED
    BY <2>1, OneMoreTime DEF Attempts, N
<1>1. tried' \in [1..N -> 0..MaxRetries]
  <2>1. CASE pc = "request" /\ NextProxy
    BY <2>1, TriedBounded
  <2>2. CASE tried' = [i \in DOMAIN Proxies |-> 0]
    BY <1>0, <2>2
  <2>3. CASE UNCHANGED tried
    BY <2>3 DEF CountersInv
  <2>. QED
    BY <2>1, <2>2, <2>3
       DEF Next, Collect, Reorder, OpenSession, Fetched, FetchedEmpty, Blocked,
           Malformed, QuotaExhausted, AddBatch, vars
<1>2. attempt' \in 0..(Attempts - 1)
  <2>1. CASE attempt + 1 < Attempts /\ attempt' = attempt + 1
    BY <1>0, <2>1 DEF CountersInv
  <2>2. CASE attempt' = 0
    BY <1>0, <2>2
  <2>3. CASE UNCHANGED attempt
    BY <1>0, <2>3 DEF CountersInv, Attempts
  <2>. QED
    BY <2>1, <2>2, <2>3
       DEF Next, Collect, Reorder, OpenSession, Fetched, FetchedEmpty, Blocked,
           Malformed, QuotaExhausted, AddBatch, Retry, Raise, Degrade, vars
<1>3. error' \in {None, "anti-bot", "malformed"} /\ moved' \in BOOLEAN
  BY DEF CountersInv, Next, Collect, Reorder, OpenSession, Fetched, FetchedEmpty,
         Blocked, Malformed, QuotaExhausted, AddBatch, Retry, Raise, Degrade,
         vars, collectVars
<1>. QED
  BY <1>1, <1>2, <1>3 DEF CountersInv, Attempts, N

LEMMA TypeNext == TypeInv /\ [Next]_vars => TypeInv'
BY RotationNext, SessionsNext, ProductsNext, CountersNext DEF TypeInv

\* However often pages are refused and the site reorders, a collect keeps to
\* its types: the page stays positive, no proxy is asked more often for a page
\* than HTTP_MAX_RETRIES allows, and the attempts stay below their number.
THEOREM CollectorTypes == Spec => []TypeOK
<1>1. TypeInv => TypeOK
  <2>. SUFFICES ASSUME TypeInv PROVE TypeOK
    OBVIOUS
  <2>1. DOMAIN Proxies = 1..N
    BY ProxiesOK
  <2>. QED
    BY <2>1 DEF TypeInv, RotationInv, SessionsInv, ProductsInv, CountersInv, TypeOK
<1>. QED
  BY <1>1, TypeInit, TypeNext, PTL DEF Spec

\* No page and no reordering of the site between two pages puts a product
\* twice into what is collected, or more products than the target: what the
\* enrichment is given to segment.
THEOREM CollectsDistinct ==
  Spec => [](Distinct(products) /\ Len(products) <= target)
<1>1. TypeInv => Distinct(products) /\ Len(products) <= target
  BY DEF TypeInv, ProductsInv
<1>. QED
  BY <1>1, TypeInit, TypeNext, PTL DEF Spec

-----------------------------------------------------------------------------
(***************************************************************************)
(* A category that ends has been collected.                                *)
(***************************************************************************)

\* What the pages before this one list has been collected.
PagesInv ==
  /\ ~moved => category \in Listings
  /\ ~moved /\ pc \in {"attempt", "request", "batch"} =>
       \A i \in DOMAIN category :
         i <= (page - 1) * SitePage /\ category[i] \in Priced
           => category[i] \in Members(products)
  /\ ExhaustedMeansAll

LEMMA PagesInit == Init => PagesInv
<1>. SUFFICES ASSUME Init PROVE PagesInv
  OBVIOUS
<1>1. (page - 1) * SitePage = 0 /\ category \in Seq(Skus)
  BY CatalogAssumption DEF Init
<1>2. Len(products) = 0 /\ target \in Nat
  BY CatalogAssumption DEF Init
<1>3. ExhaustedMeansAll
  BY <1>2 DEF Init, ExhaustedMeansAll
<1>4. \A i \in DOMAIN category : ~(i <= (page - 1) * SitePage)
  BY <1>1
<1>. QED
  BY <1>3, <1>4 DEF Init, PagesInv

\* The members of a page are those of its positions in the category.
LEMMA PageMembers ==
  ASSUME category \in Seq(Skus), page \in Nat \ {0},
         NEW i \in DOMAIN category,
         (page - 1) * SitePage < i, i <= page * SitePage
  PROVE  category[i] \in Members(OnSite)
<1>. DEFINE lo == Lesser((page - 1) * SitePage, Len(category))
            hi == Lesser(page * SitePage, Len(category))
<1>1. /\ (page - 1) * SitePage \in Nat /\ page * SitePage \in Nat
      /\ Len(category) \in Nat /\ DOMAIN category = 1..Len(category)
  BY CatalogAssumption
<1>2. lo \in Nat /\ hi \in Nat /\ lo < i /\ i <= hi /\ hi <= Len(category)
  BY <1>1 DEF Lesser
<1>. HIDE DEF lo, hi
<1>3. /\ SubSeq(category, lo + 1, hi)[i - lo] = category[i]
      /\ i - lo \in DOMAIN SubSeq(category, lo + 1, hi)
  BY <1>1, <1>2
<1>4. OnSite = SubSeq(category, lo + 1, hi)
  BY DEF OnSite, lo, hi
<1>. QED
  BY <1>3, <1>4 DEF Members

\* When pages fit, nothing of a page is cut off.
LEMMA WholeBatch ==
  ASSUME PagesFit, category \in Seq(Skus), page \in Nat \ {0}
  PROVE  Members(Batch) = Members(OnSite) \cap Priced
<1>1. /\ (page - 1) * SitePage \in Nat /\ page * SitePage \in Nat
      /\ page * SitePage = (page - 1) * SitePage + SitePage
      /\ Len(category) \in Nat /\ SitePage \in Nat \ {0} /\ PageSize \in Nat \ {0}
  BY CatalogAssumption
<1>2. Len(OnSite) <= SitePage
  BY <1>1 DEF OnSite, Lesser
<1>3. OnSite \in Seq(Skus)
  BY BatchOK
<1>. DEFINE q == PricedOf(OnSite)
<1>4. q \in Seq(Skus) /\ Len(q) <= Len(OnSite) /\ Members(q) = Members(OnSite) \cap Priced
  BY <1>3, ParsesAll
<1>5. Batch = SubSeq(q, 1, Lesser(PageSize, Len(q)))
  BY DEF Batch, PricedOf
<1>. HIDE DEF q
<1>6. Lesser(PageSize, Len(q)) = Len(q)
  <2>1. Len(OnSite) \in Nat /\ Len(q) \in Nat
    BY <1>3, <1>4
  <2>. QED
    BY <1>1, <1>2, <1>4, <2>1 DEF Lesser, PagesFit
<1>7. SubSeq(q, 1, Len(q)) = q
  BY <1>4
<1>. QED
  BY <1>4, <1>5, <1>6, <1>7

\* A page whose products have all been added, or that the site does not have.
LEMMA PageAdded ==
  ASSUME PagesFit, PagesSell, PagesInv, ProductsInv, ~moved, pc = "batch",
         products' = With(Batch)
  PROVE  /\ Len(products') < target =>
              \A i \in DOMAIN category :
                i <= page * SitePage /\ category[i] \in Priced
                  => category[i] \in Members(products')
         /\ Batch = <<>> => \A i \in DOMAIN category : i <= (page - 1) * SitePage
<1>1. /\ category \in Seq(Skus) /\ page \in Nat \ {0} /\ products \in Seq(Skus)
      /\ target \in Nat /\ Len(products) <= target /\ Distinct(products)
      /\ category \in Listings
  BY CatalogAssumption DEF ProductsInv, PagesInv
<1>2. /\ (page - 1) * SitePage \in Nat /\ page * SitePage \in Nat
      /\ Len(category) \in Nat /\ DOMAIN category = 1..Len(category)
  BY <1>1, CatalogAssumption
<1>3. /\ Members(products) \subseteq Members(With(Batch))
      /\ Len(With(Batch)) < target => Members(Batch) \subseteq Members(With(Batch))
  BY <1>1, BatchOK, AddsAll
<1>4. Members(Batch) = Members(OnSite) \cap Priced
  BY <1>1, WholeBatch
<1>5. ASSUME Len(products') < target, NEW i \in DOMAIN category,
             i <= page * SitePage, category[i] \in Priced
      PROVE  category[i] \in Members(products')
  <2>1. CASE i <= (page - 1) * SitePage
    BY <1>3, <1>5, <2>1 DEF PagesInv
  <2>2. CASE (page - 1) * SitePage < i
    <3>1. category[i] \in Members(OnSite)
      BY <1>1, <1>5, <2>2, PageMembers
    <3>. QED
      BY <1>3, <1>4, <1>5, <3>1
  <2>. QED
    BY <1>2, <2>1, <2>2
<1>6. ASSUME Batch = <<>> PROVE Len(category) <= (page - 1) * SitePage
  <2>. SUFFICES ASSUME (page - 1) * SitePage < Len(category) PROVE FALSE
    BY <1>2
  <2>0. page \in 1..Len(category)
    <3>1. 1 * (page - 1) <= SitePage * (page - 1)
      BY <1>1, CatalogAssumption, LessTimes
    <3>. QED
      BY <1>1, <1>2, <3>1, CatalogAssumption
  <2>1. PICK i \in DOMAIN category :
          /\ (page - 1) * SitePage < i /\ i <= page * SitePage
          /\ category[i] \in Priced
    BY <1>1, <2>0 DEF PagesSell
  <2>2. category[i] \in Members(Batch)
    BY <1>1, <1>4, <2>1, PageMembers
  <2>. QED
    BY <1>6, <2>2 DEF Members
<1>. QED
  BY <1>2, <1>5, <1>6

LEMMA PagesNext ==
  ASSUME PagesFit, PagesSell, PagesInv, TypeInv, [Next]_vars
  PROVE  PagesInv'
<1>0. ProductsInv
  BY DEF TypeInv
<1>1. CASE Reorder
  BY <1>1 DEF Reorder, PagesInv, ExhaustedMeansAll
<1>2. CASE AddBatch /\ UNCHANGED <<category, moved>>
  <2>. SUFFICES ASSUME ~moved PROVE PagesInv'
    BY <1>2 DEF PagesInv, ExhaustedMeansAll
  <2>1. pc = "batch" /\ products' = With(Batch) /\ UNCHANGED target
    BY <1>2 DEF AddBatch
  <2>2. /\ Len(products') < target =>
             \A i \in DOMAIN category :
               i <= page * SitePage /\ category[i] \in Priced
                 => category[i] \in Members(products')
        /\ Batch = <<>> => \A i \in DOMAIN category : i <= (page - 1) * SitePage
    BY <1>0, <2>1, PageAdded
  <2>3. /\ page \in Nat \ {0} /\ category \in Seq(Skus)
        /\ (page - 1) * SitePage <= page * SitePage
        /\ (page - 1) * SitePage \in Nat /\ page * SitePage \in Nat
    BY <1>0, CatalogAssumption DEF ProductsInv
  <2>4. CASE Batch = <<>> \/ Len(products') >= target
    <3>1. pc' = "done"
      BY <1>2, <2>4 DEF AddBatch
    <3>2. ASSUME Len(products') < target, NEW i \in DOMAIN category,
                 category[i] \in Priced
          PROVE  category[i] \in Members(products')
      <4>1. products' \in Seq(Skus) /\ target \in Nat
        BY <1>0, <2>1, BatchOK, AddsAll, CatalogAssumption DEF ProductsInv
      <4>2. Batch = <<>>
        BY <2>4, <3>2, <4>1
      <4>3. i <= page * SitePage
        BY <2>2, <2>3, <4>2
      <4>. QED
        BY <2>2, <3>2, <4>3
    <3>3. ExhaustedMeansAll'
      BY <1>2, <2>1, <3>2 DEF ExhaustedMeansAll, Collected, Members
    <3>. QED
      BY <1>2, <3>1, <3>3 DEF PagesInv
  <2>5. CASE ~(Batch = <<>> \/ Len(products') >= target)
    <3>1. pc' = "attempt" /\ page' = page + 1
      BY <1>2, <2>5 DEF AddBatch
    <3>2. Len(products') < target
      <4>1. products' \in Seq(Skus) /\ target \in Nat
        BY <1>0, <2>1, BatchOK, AddsAll, CatalogAssumption DEF ProductsInv
      <4>. QED
        BY <2>5, <4>1
    <3>3. (page' - 1) * SitePage = page * SitePage
      BY <2>3, <3>1
    <3>4. ExhaustedMeansAll'
      BY <3>1 DEF ExhaustedMeansAll
    <3>. QED
      BY <1>2, <2>2, <3>1, <3>2, <3>3, <3>4 DEF PagesInv
  <2>. QED
    BY <2>4, <2>5
<1>3. CASE UNCHANGED <<category, moved, target, page, products, error, pc>>
  BY <1>3 DEF PagesInv, ExhaustedMeansAll, Collected
<1>4. CASE /\ UNCHANGED <<category, moved, target, page, products>>
           /\ pc \in {"attempt", "request"}
           /\ \/ pc' \in {"attempt", "request", "batch", "raised"}
              \/ error' # None
  <2>1. ExhaustedMeansAll'
    BY <1>4 DEF ExhaustedMeansAll
  <2>. QED
    BY <1>4, <2>1 DEF PagesInv
<1>. QED
  BY <1>1, <1>2, <1>3, <1>4, ClientAssumption
     DEF Next, Collect, OpenSession, Fetched, FetchedEmpty, Blocked, Malformed,
         QuotaExhausted, Retry, Raise, Degrade, vars, collectVars

\* A category that stays as it is and whose result is "exhausted" has been
\* collected to its last priced product, if the pages of the site are no longer
\* than OZON_PAGE_SIZE and none of them is without a price: an empty batch then
\* is the end of the category.
THEOREM ExhaustedCollects ==
  ASSUME PagesFit, PagesSell
  PROVE  Spec => []ExhaustedMeansAll
<1>1. PagesInv /\ TypeInv /\ [Next]_vars => PagesInv'
  BY PagesNext
<1>2. PagesInv => ExhaustedMeansAll
  BY DEF PagesInv
<1>. QED
  BY <1>1, <1>2, PagesInit, TypeInit, TypeNext, PTL DEF Spec
=============================================================================
