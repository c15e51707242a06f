-------------------------- MODULE RateLimiterProofs --------------------------
(***************************************************************************)
(* Theorems about RateLimiter, for any number of replicas, any limit,      *)
(* window and difference of the clocks, and both limiters.                 *)
(***************************************************************************)
EXTENDS RateLimiter, FiniteSetTheorems, TLAPS

-----------------------------------------------------------------------------
(***************************************************************************)
(* The inductive invariant.                                                *)
(***************************************************************************)

\* How much older than its hit a timestamp can be.
Skew == IF Shared THEN Slack ELSE 0

\* What has a name is kept while it could still be counted against somebody.
\* The limiter in memory keeps no request that it denied.
HitOK(x) ==
  /\ x.age <= x.score /\ x.score <= x.age + Skew
  /\ x.kept => x.state # "free"
  /\ x.state = "admitted" /\ x.age <= Span => x.kept
  /\ ~Shared => x.state \in {"free", "admitted"}

LimitInv ==
  TypeOK /\ (\A s \in Slots : HitOK(hit[s])) /\ NeverOverLimit /\ DeniedOnlyAtLimit

LEMMA NumbersOK ==
  /\ Limit \in Nat \ {0} /\ Window \in Nat \ {0} /\ Slack \in Nat
  /\ Skew \in Nat /\ Skew <= Slack /\ Span \in Int /\ Span <= Window
  /\ ~Shared => Span = Window /\ Skew = 0
  /\ Shared => Span = Window - Slack - 1 /\ Skew = Slack
  /\ Old \in Nat /\ Window < Old /\ Slack < Old
BY WindowAssumption DEF Skew, Span, Old

LEMMA HitFields ==
  ASSUME TypeOK, NEW s \in Slots
  PROVE  /\ hit[s] \in Hit /\ hit[s].age \in Nat /\ hit[s].score \in Nat
         /\ hit[s].age <= Old /\ hit[s].score <= Old
         /\ hit[s].kept \in BOOLEAN
BY NumbersOK DEF TypeOK, Hit, Ages

\* How many requests were let through is a number that TypeOK bounds.
LEMMA AdmittedOK ==
  ASSUME NEW r, NEW w
  PROVE  /\ IsFiniteSet(Admitted(r, w)) /\ Cardinality(Admitted(r, w)) \in Nat
         /\ Cardinality(Admitted(r, w)) \in 0..Cardinality(Slots)
<1>1. Admitted(r, w) \subseteq Slots
  BY DEF Admitted
<1>. QED
  BY <1>1, SlotsAssumption, FS_Subset, FS_CardinalityType

LEMMA KeptOK ==
  ASSUME NEW S, S \subseteq Kept
  PROVE  IsFiniteSet(S) /\ Cardinality(S) \in Nat
<1>1. S \subseteq Slots
  BY DEF Kept
<1>. QED
  BY <1>1, SlotsAssumption, FS_Subset, FS_CardinalityType

-----------------------------------------------------------------------------
(***************************************************************************)
(* Leaving and entering the list.                                          *)
(***************************************************************************)
Forgotten(x) ==
  [x EXCEPT !.kept = FALSE,
            !.state = IF x.age > Window THEN "free" ELSE @]

LEMMA ForgottenOK ==
  ASSUME NEW x \in Hit
  PROVE  /\ Forgotten(x) \in Hit /\ Forgotten(x).kept = FALSE
         /\ Forgotten(x).age = x.age /\ Forgotten(x).score = x.score
         /\ Forgotten(x).by = x.by
         /\ Forgotten(x).state = IF x.age > Window THEN "free" ELSE x.state
BY DEF Hit, Forgotten

LEMMA WithoutOK ==
  ASSUME TypeOK, NEW gone, NEW s \in Slots
  PROVE  /\ Without(gone)[s] \in Hit
         /\ Without(gone)[s].age = hit[s].age
         /\ Without(gone)[s].by = hit[s].by
         /\ Without(gone)[s].state = "admitted" => hit[s].state = "admitted"
         /\ Without(gone)[s] = IF s \in gone THEN Forgotten(hit[s]) ELSE hit[s]
<1>1. hit[s] \in Hit
  BY HitFields
<1>2. Without(gone)[s] = IF s \in gone THEN Forgotten(hit[s]) ELSE hit[s]
  BY DEF Without, Forgotten
<1>3. Forgotten(hit[s]).state = "admitted" => hit[s].state = "admitted"
  BY <1>1, ForgottenOK
<1>. QED
  BY <1>1, <1>2, <1>3, ForgottenOK

\* Only hits that are out of the span may leave.
LEMMA WithoutHitOK ==
  ASSUME TypeOK, NEW gone, NEW s \in Slots, HitOK(hit[s]),
         s \in gone => hit[s].age > Span
  PROVE  HitOK(Without(gone)[s])
<1>. DEFINE y == Without(gone)[s]
<1>1. CASE s \notin gone
  BY <1>1, WithoutOK
<1>2. CASE s \in gone
  <2>1. y = Forgotten(hit[s]) /\ hit[s] \in Hit
    BY <1>2, WithoutOK, HitFields
  <2>2. /\ y.kept = FALSE /\ y.age = hit[s].age /\ y.score = hit[s].score
        /\ y.state = IF hit[s].age > Window THEN "free" ELSE hit[s].state
    BY <2>1, ForgottenOK
  <2>3. hit[s].age \in Nat /\ Span \in Int /\ hit[s].age > Span
    BY <1>2, NumbersOK, HitFields
  <2>. HIDE DEF y
  <2>4. HitOK(y)
    BY <2>2, <2>3 DEF HitOK
  <2>. QED
    BY <2>4 DEF y
<1>. QED
  BY <1>1, <1>2

LEMMA NewHitOK ==
  ASSUME NEW state \in {"admitted", "denied"}, NEW r \in Replicas,
         NEW d \in 0..Skew, ~Shared => state = "admitted"
  PROVE  /\ NewHit(state, r, d) \in Hit /\ HitOK(NewHit(state, r, d))
         /\ NewHit(state, r, d).state = state /\ NewHit(state, r, d).by = r
<1>1. d \in Ages /\ 0 \in Ages /\ 0 <= d /\ d <= 0 + Skew
  BY NumbersOK DEF Ages
<1>. QED
  BY <1>1 DEF NewHit, Hit, HitOK

\* A request that enters the list: the hits stay in order, and at most this one
\* is let through.
LEMMA Entered ==
  ASSUME TypeOK, \A s \in Slots : HitOK(hit[s]), UNCHANGED backend,
         NEW gone, \A s \in gone \cap Slots : hit[s].age > Span,
         NEW state \in {"admitted", "denied"}, NEW r \in Replicas,
         NEW d \in 0..Skew, ~Shared => state = "admitted",
         NEW n \in Names(gone),
         hit' = [Without(gone) EXCEPT ![n] = NewHit(state, r, d)]
  PROVE  /\ hit' \in [Slots -> Hit] /\ \A s \in Slots : HitOK(hit'[s])
         /\ \A q : Admitted(q, Span)' \subseteq Admitted(q, Span) \cup {n}
         /\ state = "denied" => \A q : Admitted(q, Span)' \subseteq Admitted(q, Span)
         /\ ~Shared => \A q \in Replicas \ {r} :
                         Admitted(q, Span)' \subseteq Admitted(q, Span)
<1>1. Without(gone) \in [Slots -> Hit] /\ n \in Slots
  <2>1. \A s \in Slots : Without(gone)[s] \in Hit
    BY WithoutOK
  <2>. QED
    BY <2>1 DEF Without, Names
<1>2. /\ NewHit(state, r, d) \in Hit /\ HitOK(NewHit(state, r, d))
      /\ NewHit(state, r, d).state = state /\ NewHit(state, r, d).by = r
  BY NewHitOK
<1>3. /\ hit' \in [Slots -> Hit] /\ hit'[n] = NewHit(state, r, d)
      /\ \A s \in Slots \ {n} : hit'[s] = Without(gone)[s]
  BY <1>1, <1>2
<1>4. ASSUME NEW s \in Slots PROVE HitOK(hit'[s])
  <2>1. CASE s = n
    BY <1>2, <1>3, <2>1
  <2>2. CASE s # n
    BY <1>3, <2>2, WithoutHitOK
  <2>. QED
    BY <2>1, <2>2
<1>5. Span' = Span /\ Shared' = Shared
  BY DEF Span, Shared
<1>6. ASSUME NEW q, NEW s \in Admitted(q, Span)', s # n
      PROVE  s \in Admitted(q, Span)
  <2>1. /\ s \in Slots /\ hit'[s] = Without(gone)[s] /\ hit'[s].state = "admitted"
        /\ hit'[s].age <= Span
        /\ Shared \/ hit'[s].by = q
    BY <1>3, <1>5, <1>6 DEF Admitted
  <2>2. /\ hit'[s].age = hit[s].age /\ hit'[s].by = hit[s].by
        /\ hit[s].state = "admitted"
    BY <2>1, WithoutOK
  <2>. QED
    BY <2>1, <2>2 DEF Admitted
<1>7. ASSUME NEW q, n \in Admitted(q, Span)'
      PROVE  state = "admitted" /\ (Shared \/ q = r)
  BY <1>2, <1>3, <1>5, <1>7 DEF Admitted
<1>. QED
  BY <1>3, <1>4, <1>6, <1>7

\* A step after which no more requests are let through than before.
LEMMA NotMore ==
  ASSUME NEW q, Cardinality(Admitted(q, Span)) <= Limit,
         Admitted(q, Span)' \subseteq Admitted(q, Span)
  PROVE  Cardinality(Admitted(q, Span)') <= Limit
<1>1. Cardinality(Admitted(q, Span)') <= Cardinality(Admitted(q, Span))
      /\ Cardinality(Admitted(q, Span)') \in Nat
  BY AdmittedOK, FS_Subset, FS_CardinalityType
<1>. QED
  BY <1>1, AdmittedOK, NumbersOK

LEMMA OneMore ==
  ASSUME NEW q, NEW n, Cardinality(Admitted(q, Span)) < Limit,
         Admitted(q, Span)' \subseteq Admitted(q, Span) \cup {n}
  PROVE  Cardinality(Admitted(q, Span)') <= Limit
<1>1. /\ IsFiniteSet(Admitted(q, Span) \cup {n})
      /\ Cardinality(Admitted(q, Span) \cup {n}) <= Cardinality(Admitted(q, Span)) + 1
      /\ Cardinality(Admitted(q, Span) \cup {n}) \in Nat
  <2>1. IsFiniteSet(Admitted(q, Span)) /\ Cardinality(Admitted(q, Span)) \in Nat
    BY AdmittedOK
  <2>2. /\ IsFiniteSet(Admitted(q, Span) \cup {n})
        /\ Cardinality(Admitted(q, Span) \cup {n})
             = IF n \in Admitted(q, Span) THEN Cardinality(Admitted(q, Span))
               ELSE Cardinality(Admitted(q, Span)) + 1
    BY <2>1, FS_AddElement
  <2>. QED
    BY <2>1, <2>2
<1>2. /\ Cardinality(Admitted(q, Span)') <= Cardinality(Admitted(q, Span) \cup {n})
      /\ Cardinality(Admitted(q, Span)') \in Nat
  BY <1>1, FS_Subset, FS_CardinalityType
<1>. QED
  BY <1>1, <1>2, AdmittedOK, NumbersOK

-----------------------------------------------------------------------------
(***************************************************************************)
(* The steps of the limiters.                                              *)
(***************************************************************************)
LEMMA TellsOK ==
  ASSUME NEW r, NEW admitted \in BOOLEAN, Tells(r, admitted)
  PROVE  /\ verdict' \in [admitted : BOOLEAN, recent : 0..Cardinality(Slots)]
         /\ verdict'.admitted = admitted
         /\ verdict'.recent = Cardinality(Admitted(r, Window))
BY AdmittedOK DEF Tells

\* The limiter in memory: its list is what it let through in the last minute.
LEMMA AllowOK ==
  ASSUME LimitInv, NEW r \in Replicas, Allow(r), UNCHANGED backend
  PROVE  LimitInv'
<1>. DEFINE past == {s \in Kept : hit[s].by = r /\ hit[s].score > Window}
            hits == {s \in Kept : hit[s].by = r} \ past
<1>0. /\ TypeOK /\ (\A s \in Slots : HitOK(hit[s])) /\ NeverOverLimit
      /\ ~Shared /\ ~Shared' /\ Span = Window /\ Skew = 0 /\ Span' = Span
      /\ backend' \in Backends
  BY NumbersOK DEF LimitInv, TypeOK, Allow, Shared, Span
<1>1. ASSUME NEW s \in past PROVE s \in Slots /\ hit[s].age > Span
  <2>1. s \in Slots /\ hit[s].score > Window /\ hit[s].score <= hit[s].age + 0
    BY <1>0, <1>1 DEF Kept, HitOK
  <2>. QED
    BY <1>0, <2>1, HitFields, NumbersOK
<1>2. Admitted(r, Window) \subseteq hits
  <2>. SUFFICES ASSUME NEW s \in Admitted(r, Window) PROVE s \in hits
    OBVIOUS
  <2>1. /\ s \in Slots /\ hit[s].state = "admitted" /\ hit[s].age <= Window
        /\ hit[s].by = r
    BY <1>0 DEF Admitted
  <2>2. hit[s].kept /\ hit[s].score <= hit[s].age + 0
    BY <1>0, <2>1 DEF HitOK
  <2>3. ~(hit[s].score > Window)
    BY <1>0, <2>1, <2>2, HitFields, NumbersOK
  <2>. QED
    BY <2>1, <2>2, <2>3 DEF Kept
<1>3. hits \subseteq Admitted(r, Window)
  <2>. SUFFICES ASSUME NEW s \in hits PROVE s \in Admitted(r, Window)
    OBVIOUS
  <2>1. s \in Slots /\ hit[s].kept /\ hit[s].by = r /\ ~(hit[s].score > Window)
    BY DEF Kept
  <2>2. hit[s].state = "admitted" /\ hit[s].age <= hit[s].score
    BY <1>0, <2>1 DEF HitOK
  <2>3. hit[s].age <= Window
    BY <1>0, <2>1, <2>2, HitFields, NumbersOK
  <2>. QED
    BY <2>1, <2>2, <2>3 DEF Admitted
<1>4. hits = Admitted(r, Window) /\ Admitted(r, Span) = hits
  BY <1>0, <1>2, <1>3
<1>5. CASE Cardinality(hits) >= Limit /\ hit' = Without(past) /\ Tells(r, FALSE)
  <2>1. hit' \in [Slots -> Hit]
    <3>1. \A s \in Slots : Without(past)[s] \in Hit
      BY <1>0, WithoutOK
    <3>. QED
      BY <1>5, <3>1 DEF Without
  <2>2. \A s \in Slots : HitOK(hit'[s])
    BY <1>0, <1>1, <1>5, WithoutHitOK
  <2>3. \A q \in Replicas : Admitted(q, Span)' \subseteq Admitted(q, Span)
    <3>. SUFFICES ASSUME NEW q \in Replicas, NEW s \in Admitted(q, Span)'
                  PROVE  s \in Admitted(q, Span)
      OBVIOUS
    <3>1. /\ s \in Slots /\ hit'[s] = Without(past)[s]
          /\ hit'[s].state = "admitted" /\ hit'[s].age <= Span /\ hit'[s].by = q
      BY <1>0, <1>5 DEF Admitted
    <3>2. /\ hit'[s].age = hit[s].age /\ hit'[s].by = hit[s].by
          /\ hit[s].state = "admitted"
      BY <1>0, <3>1, WithoutOK
    <3>. QED
      BY <3>1, <3>2 DEF Admitted
  <2>4. NeverOverLimit'
    BY <1>0, <2>3, NotMore DEF NeverOverLimit
  <2>5. /\ verdict' \in [admitted : BOOLEAN, recent : 0..Cardinality(Slots)]
        /\ verdict'.recent = Cardinality(hits)
    BY <1>4, <1>5, TellsOK
  <2>6. DeniedOnlyAtLimit'
    BY <1>5, <2>5 DEF DeniedOnlyAtLimit
  <2>. HIDE DEF past, hits
  <2>. QED
    BY <1>0, <2>1, <2>2, <2>4, <2>5, <2>6 DEF LimitInv, TypeOK, HitOK, Shared, Span, Skew
<1>6. ASSUME Cardinality(hits) < Limit, Tells(r, TRUE), NEW n \in Names(past),
             hit' = [Without(past) EXCEPT ![n] = NewHit("admitted", r, 0)]
      PROVE  LimitInv'
  <2>1. /\ hit' \in [Slots -> Hit] /\ \A s \in Slots : HitOK(hit'[s])
        /\ Admitted(r, Span)' \subseteq Admitted(r, Span) \cup {n}
        /\ \A q \in Replicas \ {r} : Admitted(q, Span)' \subseteq Admitted(q, Span)
    <3>1. 0 \in 0..Skew /\ "admitted" \in {"admitted", "denied"}
      BY <1>0
    <3>2. \A s \in past \cap Slots : hit[s].age > Span
      BY <1>1
    <3>. HIDE DEF past
    <3>. QED
      BY <1>0, <1>6, <3>1, <3>2, Entered
  <2>2. NeverOverLimit'
    <3>1. Cardinality(Admitted(r, Span)') <= Limit
      BY <1>4, <1>6, <2>1, OneMore
    <3>2. \A q \in Replicas \ {r} : Cardinality(Admitted(q, Span)') <= Limit
      BY <1>0, <2>1, NotMore DEF NeverOverLimit
    <3>. QED
      BY <3>1, <3>2 DEF NeverOverLimit
  <2>3. /\ verdict' \in [admitted : BOOLEAN, recent : 0..Cardinality(Slots)]
        /\ verdict'.admitted
    BY <1>6, TellsOK
  <2>4. DeniedOnlyAtLimit'
    BY <2>3 DEF DeniedOnlyAtLimit
  <2>. HIDE DEF past, hits
  <2>. QED
    BY <1>0, <2>1, <2>2, <2>3, <2>4 DEF LimitInv, TypeOK, HitOK, Shared, Span, Skew
<1>. QED
  BY <1>5, <1>6 DEF Allow

\* The transaction in Redis: what was let through within the span is in the
\* set, whichever of the replicas took it, and counted.
LEMMA CountOK ==
  ASSUME LimitInv, NEW r \in Replicas, NEW d \in 0..Slack, Count(r, d),
         UNCHANGED backend
  PROVE  LimitInv'
<1>. DEFINE past == {s \in Kept : hit[s].score >= Window + d}
            count == Cardinality(Kept \ past) + 1
            ok == count <= Limit
            state == IF ok THEN "admitted" ELSE "denied"
<1>0. /\ TypeOK /\ (\A s \in Slots : HitOK(hit[s])) /\ NeverOverLimit
      /\ Shared /\ Shared' /\ Skew = Slack /\ Span' = Span
      /\ Span = Window - Slack - 1 /\ backend' \in Backends /\ d \in Nat
  BY NumbersOK DEF LimitInv, TypeOK, Count, Shared, Span
<1>1. ASSUME NEW s \in past PROVE s \in Slots /\ hit[s].age > Span
  <2>1. s \in Slots /\ hit[s].score >= Window + d /\ hit[s].score <= hit[s].age + Slack
    BY <1>0, <1>1 DEF Kept, HitOK
  <2>. QED
    BY <1>0, <2>1, HitFields, NumbersOK
<1>2. ASSUME NEW q PROVE Admitted(q, Span) \subseteq Kept \ past
  <2>. SUFFICES ASSUME NEW s \in Admitted(q, Span) PROVE s \in Kept \ past
    OBVIOUS
  <2>1. s \in Slots /\ hit[s].state = "admitted" /\ hit[s].age <= Span
    BY DEF Admitted
  <2>2. hit[s].kept /\ hit[s].score <= hit[s].age + Slack
    BY <1>0, <2>1 DEF HitOK
  <2>3. ~(hit[s].score >= Window + d)
    BY <1>0, <2>1, <2>2, HitFields, NumbersOK
  <2>. QED
    BY <2>1, <2>2, <2>3 DEF Kept
<1>3. ASSUME NEW q, ok PROVE Cardinality(Admitted(q, Span)) < Limit
  <2>1. /\ Cardinality(Admitted(q, Span)) <= Cardinality(Kept \ past)
        /\ Cardinality(Kept \ past) \in Nat
    BY <1>2, KeptOK, FS_Subset
  <2>. QED
    BY <1>3, <2>1, AdmittedOK, NumbersOK
<1>4. PICK n \in Names(past) :
        hit' = [Without(past) EXCEPT ![n] = NewHit(state, r, d)]
  BY DEF Count
<1>5. Tells(r, ok) /\ ok \in BOOLEAN
  BY DEF Count
<1>6. state \in {"admitted", "denied"} /\ (~ok => state = "denied")
  OBVIOUS
<1>7. \A s \in past \cap Slots : hit[s].age > Span
  BY <1>1
<1>8. ok => \A q : Cardinality(Admitted(q, Span)) < Limit
  BY <1>3
<1>. HIDE DEF past, ok, state
<1>9. /\ hit' \in [Slots -> Hit] /\ \A s \in Slots : HitOK(hit'[s])
      /\ \A q : Admitted(q, Span)' \subseteq Admitted(q, Span) \cup {n}
      /\ state = "denied" => \A q : Admitted(q, Span)' \subseteq Admitted(q, Span)
  BY <1>0, <1>4, <1>6, <1>7, Entered
<1>10. ASSUME NEW q \in Replicas
       PROVE  Cardinality(Admitted(q, Span)') <= Limit
  <2>1. CASE ok
    BY <1>8, <1>9, <2>1, OneMore
  <2>2. CASE ~ok
    <3>1. Admitted(q, Span)' \subseteq Admitted(q, Span)
      BY <1>6, <1>9, <2>2
    <3>. QED
      BY <1>0, <3>1, NotMore DEF NeverOverLimit
  <2>. QED
    BY <2>1, <2>2
<1>11. NeverOverLimit'
  BY <1>10 DEF NeverOverLimit
<1>12. verdict' \in [admitted : BOOLEAN, recent : 0..Cardinality(Slots)]
  BY <1>5, TellsOK
<1>. QED
  BY <1>0, <1>9, <1>11, <1>12
     DEF LimitInv, TypeOK, HitOK, Shared, Span, Skew, DeniedOnlyAtLimit

\* What happens to a request that was too many lets nobody through.
LEMMA DenyingOK ==
  ASSUME LimitInv, NEW s \in Slots, Uncount(s) \/ DieDenying(s),
         UNCHANGED backend
  PROVE  LimitInv'
<1>0. /\ TypeOK /\ (\A t \in Slots : HitOK(hit[t])) /\ NeverOverLimit
      /\ hit \in [Slots -> Hit] /\ hit[s] \in Hit
      /\ hit[s].state = "denied" /\ Span' = Span
      /\ backend' \in Backends /\ UNCHANGED verdict
  BY DEF LimitInv, TypeOK, Uncount, DieDenying, Span, Shared
<1>1. /\ hit' \in [Slots -> Hit]
      /\ \A t \in Slots \ {s} : hit'[t] = hit[t]
      /\ hit'[s].state \in {"free", "ghost"}
      /\ hit'[s].age = hit[s].age /\ hit'[s].score = hit[s].score
      /\ hit'[s].kept => hit'[s].state = "ghost"
  <2>1. CASE Uncount(s)
    <3>. DEFINE x == [hit[s] EXCEPT !.kept = FALSE, !.state = "free"]
    <3>1. /\ x \in Hit /\ x.state = "free" /\ x.age = hit[s].age
          /\ x.score = hit[s].score /\ x.kept = FALSE
      BY <1>0 DEF Hit
    <3>2. hit' = [hit EXCEPT ![s] = x]
      BY <1>0, <2>1 DEF Uncount
    <3>. HIDE DEF x
    <3>. QED
      BY <1>0, <3>1, <3>2
  <2>2. CASE DieDenying(s)
    <3>. DEFINE x == [hit[s] EXCEPT !.state = "ghost"]
    <3>1. /\ x \in Hit /\ x.state = "ghost" /\ x.age = hit[s].age
          /\ x.score = hit[s].score
      BY <1>0 DEF Hit
    <3>2. hit' = [hit EXCEPT ![s] = x]
      BY <1>0, <2>2 DEF DieDenying
    <3>. HIDE DEF x
    <3>. QED
      BY <1>0, <3>1, <3>2
  <2>. QED
    BY <2>1, <2>2
<1>2. ~Shared => FALSE
  BY <1>0 DEF HitOK
<1>3. HitOK(hit'[s])
  BY <1>0, <1>1, <1>2 DEF HitOK
<1>4. \A q \in Replicas : Admitted(q, Span)' \subseteq Admitted(q, Span)
  BY <1>0, <1>1, <1>2 DEF Admitted
<1>5. NeverOverLimit'
  BY <1>0, <1>4, NotMore DEF NeverOverLimit
<1>. QED
  BY <1>0, <1>1, <1>2, <1>3, <1>5
     DEF LimitInv, TypeOK, HitOK, Shared, Span, Skew, DeniedOnlyAtLimit

\* A tick of the clock ages all hits and their timestamps alike.
Aged(x) ==
  [x EXCEPT !.score = Older(@), !.age = Older(@),
            !.state = IF ~x.kept /\ Older(x.age) > Window THEN "free" ELSE @]

LEMMA AgedOK ==
  ASSUME NEW x \in Hit, HitOK(x)
  PROVE  /\ Aged(x) \in Hit /\ HitOK(Aged(x))
         /\ Aged(x).state \in {"free", x.state} /\ Aged(x).by = x.by
         /\ x.age <= Aged(x).age
<1>1. /\ x.age \in Nat /\ x.score \in Nat /\ x.age <= Old /\ x.score <= Old
      /\ x.kept \in BOOLEAN
  BY NumbersOK DEF Hit, Ages
<1>2. /\ Older(x.score) \in Ages /\ Older(x.age) \in Ages /\ x.age <= Older(x.age)
      /\ Older(x.age) \in Nat /\ Older(x.score) \in Nat
      /\ Older(x.age) <= Older(x.score)
      /\ Older(x.score) <= Older(x.age) + Skew
  BY <1>1, NumbersOK DEF HitOK, Older, Ages
<1>3. /\ Aged(x) \in Hit /\ Aged(x).age = Older(x.age)
      /\ Aged(x).score = Older(x.score) /\ Aged(x).kept = x.kept
      /\ Aged(x).state = IF ~x.kept /\ Older(x.age) > Window THEN "free" ELSE x.state
      /\ Aged(x).by = x.by
  BY <1>2 DEF Aged, Hit
<1>4. HitOK(Aged(x))
  BY <1>1, <1>2, <1>3, NumbersOK DEF HitOK
<1>. QED
  BY <1>2, <1>3, <1>4

LEMMA TickOK ==
  ASSUME LimitInv, Tick, UNCHANGED backend
  PROVE  LimitInv'
<1>0. /\ TypeOK /\ (\A s \in Slots : HitOK(hit[s])) /\ NeverOverLimit
      /\ hit \in [Slots -> Hit] /\ Span' = Span
      /\ backend' \in Backends /\ UNCHANGED verdict
  BY DEF LimitInv, TypeOK, Tick, Span, Shared
<1>1. \A s \in Slots :
        hit'[s] = IF hit[s].state = "free" THEN hit[s] ELSE Aged(hit[s])
  BY DEF Tick, Aged
<1>2. \A s \in Slots :
        /\ hit'[s] \in Hit /\ HitOK(hit'[s])
        /\ hit'[s].state \in {"free", hit[s].state} /\ hit'[s].by = hit[s].by
        /\ hit[s].age <= hit'[s].age
        /\ hit[s].age \in Nat /\ hit'[s].age \in Nat
  <2>. TAKE s \in Slots
  <2>1. hit[s] \in Hit /\ hit[s].age \in Nat /\ HitOK(hit[s])
    BY <1>0, HitFields
  <2>2. CASE hit[s].state = "free"
    BY <1>1, <2>1, <2>2
  <2>3. CASE hit[s].state # "free"
    <3>1. hit'[s] = Aged(hit[s])
      BY <1>1, <2>3
    <3>2. Aged(hit[s]) \in Hit => Aged(hit[s]).age \in Nat
      BY NumbersOK DEF Hit, Ages
    <3>. QED
      BY <2>1, <3>1, <3>2, AgedOK
  <2>. QED
    BY <2>2, <2>3
<1>3. hit' \in [Slots -> Hit]
  BY <1>2 DEF Tick
<1>4. ASSUME NEW q \in Replicas
      PROVE  Admitted(q, Span)' \subseteq Admitted(q, Span)
  <2>. SUFFICES ASSUME NEW s \in Admitted(q, Span)' PROVE s \in Admitted(q, Span)
    OBVIOUS
  <2>1. /\ s \in Slots /\ hit'[s].state = "admitted" /\ hit'[s].age <= Span
        /\ Shared \/ hit'[s].by = q
    BY <1>0 DEF Admitted, Shared
  <2>2. hit[s].state = "admitted" /\ hit[s].by = hit'[s].by /\ hit[s].age <= Span
    BY <1>2, <2>1, NumbersOK
  <2>. QED
    BY <2>1, <2>2 DEF Admitted
<1>5. NeverOverLimit'
  BY <1>0, <1>4, NotMore DEF NeverOverLimit
<1>. QED
  BY <1>0, <1>2, <1>3, <1>5
     DEF LimitInv, TypeOK, HitOK, Shared, Span, Skew, DeniedOnlyAtLimit

LEMMA LimitInit == Init => LimitInv
<1>. SUFFICES ASSUME Init PROVE LimitInv
  OBVIOUS
<1>1. PICK r \in Replicas :
        hit = [s \in Slots |-> [state |-> "free", by |-> r, score |-> 0,
                                age |-> 0, kept |-> FALSE]]
  BY DEF Init
<1>2. 0 \in Ages /\ 0 \in 0..Cardinality(Slots)
  BY NumbersOK, SlotsAssumption, FS_CardinalityType DEF Ages
<1>3. TypeOK
  BY <1>1, <1>2 DEF Init, TypeOK, Hit
<1>4. \A s \in Slots : HitOK(hit[s])
  BY <1>1, NumbersOK DEF HitOK
<1>5. \A q : Admitted(q, Span) = {}
  BY <1>1 DEF Admitted
<1>6. NeverOverLimit
  BY <1>5, NumbersOK, FS_EmptySet DEF NeverOverLimit
<1>7. DeniedOnlyAtLimit
  BY DEF Init, DeniedOnlyAtLimit
<1>. QED
  BY <1>3, <1>4, <1>6, <1>7 DEF LimitInv

LEMMA LimitNext == LimitInv /\ [Next]_vars => LimitInv'
<1>. SUFFICES ASSUME LimitInv, [Next]_vars PROVE LimitInv'
  OBVIOUS
<1>1. CASE UNCHANGED vars
  BY <1>1 DEF vars, LimitInv, TypeOK, HitOK, NeverOverLimit, Admitted, Span,
              Skew, Shared, DeniedOnlyAtLimit
<1>. QED
  BY <1>1, AllowOK, CountOK, DenyingOK, TickOK DEF Next, Ask

LEMMA LimitInvariant == Spec => []LimitInv
BY LimitInit, LimitNext, PTL DEF Spec

\* Type correctness of the limiters.
THEOREM LimiterTypes == Spec => []TypeOK
<1>1. LimitInv => TypeOK
  BY DEF LimitInv
<1>. QED
  BY <1>1, LimitInvariant, PTL

\* However many replicas answer, however their clocks differ within Slack,
\* and although a replica may die between the count and the removal of what it
\* denied: no span of time sees more than Limit requests let through.
THEOREM LimitHolds == Spec => []NeverOverLimit
<1>1. LimitInv => NeverOverLimit
  BY DEF LimitInv
<1>. QED
  BY <1>1, LimitInvariant, PTL

\* The limiter in memory is exact: it denies only what would be too many.
THEOREM DenialsAreDue == Spec => []DeniedOnlyAtLimit
<1>1. LimitInv => DeniedOnlyAtLimit
  BY DEF LimitInv
<1>. QED
  BY <1>1, LimitInvariant, PTL
=============================================================================
