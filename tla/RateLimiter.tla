----------------------------- MODULE RateLimiter ----------------------------
(***************************************************************************)
(* The sliding window limiters of the API, for the requests of one client  *)
(* address.  RateLimitMiddleware keeps a list of hits in each replica;     *)
(* RedisSlidingWindowRateLimiter keeps one sorted set for all replicas,    *)
(* scored by the clock of the replica that took the hit.  Time passes in   *)
(* ticks; hits are kept by age, so that it may pass for ever.              *)
(***************************************************************************)
EXTENDS Integers, FiniteSets

CONSTANTS
  Replicas,
  Slots,        \* names for hits (bounds how many are remembered at once)
  Limit,        \* API_RATE_LIMIT_PER_MINUTE; 0 switches the limiter off
  Window,       \* a minute, in ticks
  Slack,        \* how old time.time() of a request may be when Redis counts
                \* it: the clocks differ, and the command takes its time
  Backends,     \* "redis" where REDIS_URL is set, "memory" where it is not
  Crashes       \* TRUE: a replica may die between two commands

ASSUME WindowAssumption ==
  /\ Limit \in Nat \ {0} /\ Window \in Nat \ {0} /\ Slack \in Nat
  /\ Backends \subseteq {"memory", "redis"} /\ Crashes \in BOOLEAN

ASSUME SlotsAssumption == IsFiniteSet(Slots)

VARIABLES
  backend,  \* the limiter that the deployment has
  hit,      \* hit[s]: a request that was counted or let through
  verdict   \* what the last request was told, and how many were recent then

vars == <<backend, hit, verdict>>

Shared == backend = "redis"

\* Ages beyond which nothing tells two hits apart.
Old == Window + Slack + 1
Ages == 0..Old

\* denied: to be removed again; ghost: nobody will remove it.
\* by: the replica; score: the age of its timestamp; age: since it was counted;
\* kept: in the list or the sorted set.
Hit == [state : {"free", "admitted", "denied", "ghost"}, by : Replicas, score : Ages,
        age : Ages, kept : BOOLEAN]

TypeOK ==
  /\ backend \in Backends
  /\ hit \in [Slots -> Hit]
  /\ verdict \in [admitted : BOOLEAN, recent : 0..Cardinality(Slots)]

Init ==
  /\ backend \in Backends
  /\ \E r \in Replicas :
       hit = [s \in Slots |-> [state |-> "free", by |-> r, score |-> 0,
                               age |-> 0, kept |-> FALSE]]
  /\ verdict = [admitted |-> TRUE, recent |-> 0]

-----------------------------------------------------------------------------
Kept == {s \in Slots : hit[s].kept}

\* The requests that share a limit with replica r and were let through within
\* the last w ticks.
Admitted(r, w) ==
  {s \in Slots : /\ hit[s].state = "admitted"
                 /\ hit[s].age <= w
                 /\ Shared \/ hit[s].by = r}

\* A hit that has left the window leaves the list; its name is free again.
Without(gone) ==
  [s \in Slots |->
     IF s \notin gone THEN hit[s]
     ELSE [hit[s] EXCEPT !.kept = FALSE,
                         !.state = IF hit[s].age > Window THEN "free" ELSE @]]

Names(gone) == {s \in Slots : Without(gone)[s].state = "free"}

\* Mutant: a hit is stamped with the time at which it stops to count.
NewHitAhead(state, r, d) ==
  [state |-> state, by |-> r, score |-> d - Window, age |-> 0, kept |-> TRUE]

NewHit(state, r, d) ==
  [state |-> state, by |-> r, score |-> d, age |-> 0, kept |-> TRUE]

Tells(r, admitted) ==
  verdict' = [admitted |-> admitted, recent |-> Cardinality(Admitted(r, Window))]

\* Mutant: a denied request is a hit too.
AllowCountingAll(r) ==
  /\ ~Shared
  /\ LET past == {s \in Kept : hit[s].by = r /\ hit[s].score > Window}
         hits == {s \in Kept : hit[s].by = r} \ past
         ok == Cardinality(hits) < Limit
     IN /\ \E s \in Names(past) :
             hit' = [Without(past) EXCEPT
                       ![s] = NewHit(IF ok THEN "admitted" ELSE "denied", r, 0)]
        /\ Tells(r, ok)

\* RateLimitMiddleware._allow, in the event loop of one replica.
Allow(r) ==
  /\ ~Shared
  /\ LET past == {s \in Kept : hit[s].by = r /\ hit[s].score > Window}
         hits == {s \in Kept : hit[s].by = r} \ past
     IN \/ /\ Cardinality(hits) >= Limit
           /\ hit' = Without(past)
           /\ Tells(r, FALSE)
        \/ /\ Cardinality(hits) < Limit
           /\ \E s \in Names(past) :
                hit' = [Without(past) EXCEPT ![s] = NewHit("admitted", r, 0)]
           /\ Tells(r, TRUE)

\* allow does not await: a replica that has a request to take out again
\* serves no other one until it has.
Busy(r) == \E s \in Kept : hit[s].state = "denied" /\ hit[s].by = r

\* Mutant: the set is counted before the request is in it.
CountThenAdd(r, d) ==
  /\ Shared /\ ~Busy(r)
  /\ LET past == {s \in Kept : hit[s].score >= Window + d}
         count == Cardinality(Kept \ past)
         ok == count <= Limit
     IN /\ \E s \in Names(past) :
             hit' = [Without(past) EXCEPT
                       ![s] = NewHit(IF ok THEN "admitted" ELSE "denied", r, d)]
        /\ Tells(r, ok)

\* The transaction of RedisSlidingWindowRateLimiter.allow: by a timestamp of
\* age d, old scores are removed, the request is added, and the set counted.
Count(r, d) ==
  /\ Shared /\ ~Busy(r)
  /\ LET past == {s \in Kept : hit[s].score >= Window + d}
         count == Cardinality(Kept \ past) + 1
         ok == count <= Limit
     IN /\ \E s \in Names(past) :
             hit' = [Without(past) EXCEPT
                       ![s] = NewHit(IF ok THEN "admitted" ELSE "denied", r, d)]
        /\ Tells(r, ok)

\* The zrem of a request that was too many, a command of its own.
Uncount(s) ==
  /\ hit[s].state = "denied" /\ hit[s].kept
  /\ hit' = [hit EXCEPT ![s].kept = FALSE, ![s].state = "free"]
  /\ UNCHANGED verdict

\* The replica dies before the zrem: only time removes the member.
DieDenying(s) ==
  /\ Crashes
  /\ hit[s].state = "denied" /\ hit[s].kept
  /\ hit' = [hit EXCEPT ![s].state = "ghost"]
  /\ UNCHANGED verdict

Older(a) == IF a < Old THEN a + 1 ELSE a

\* A hit that is neither kept nor recent is forgotten.
Tick ==
  /\ hit' = [s \in Slots |->
       IF hit[s].state = "free" THEN hit[s]
       ELSE [hit[s] EXCEPT !.score = Older(@), !.age = Older(@),
               !.state = IF ~hit[s].kept /\ Older(hit[s].age) > Window
                           THEN "free" ELSE @]]
  /\ UNCHANGED verdict

Ask == \E r \in Replicas : Allow(r) \/ \E d \in 0..Slack : Count(r, d)

Next ==
  /\ Ask \/ Tick \/ \E s \in Slots : Uncount(s) \/ DieDenying(s)
  /\ UNCHANGED backend

Spec == Init /\ [][Next]_vars

-----------------------------------------------------------------------------
\* The time in which no more than Limit requests are let through: with Redis,
\* a minute shortened by what the clocks may be apart.
Span == IF Shared THEN Window - Slack - 1 ELSE Window

\* No such time, wherever it begins, has more than Limit requests that were let
\* through, by one replica or, with Redis, by all together.
NeverOverLimit ==
  \A r \in Replicas : Cardinality(Admitted(r, Span)) <= Limit

\* "per-IP rate limit (default 60/min)": the limiter in memory only denies a
\* request when that many have been let through in the last minute, so that
\* those it denied never count against the client.
DeniedOnlyAtLimit == ~Shared => verdict.admitted \/ verdict.recent >= Limit
=============================================================================
