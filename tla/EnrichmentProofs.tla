--------------------------- MODULE EnrichmentProofs ---------------------------
(***************************************************************************)
(* Theorems about Enrichment, for any products, any size of a batch and of *)
(* a task, and any answers of the model.                                   *)
(***************************************************************************)
EXTENDS Enrichment, FiniteSetTheorems, WellFoundedInduction, TLAPS

-----------------------------------------------------------------------------
(***************************************************************************)
(* The k-th of a finite set that is ordered by R is the one that has k - 1 *)
(* others before it.                                                       *)
(***************************************************************************)
Orders(R, S) ==
  /\ \A i \in S : <<i, i>> \notin R
  /\ \A i, j \in S : i # j => <<i, j>> \in R \/ <<j, i>> \in R
  /\ \A i, j, k \in S : <<i, j>> \in R /\ <<j, k>> \in R => <<i, k>> \in R

Rank(R, S, i) == Cardinality({j \in S : <<j, i>> \in R})

LEMMA RankGrows ==
  ASSUME NEW S, IsFiniteSet(S), NEW R, Orders(R, S),
         NEW i \in S, NEW j \in S, <<i, j>> \in R
  PROVE  Rank(R, S, i) < Rank(R, S, j)
<1>. DEFINE below(k) == {l \in S : <<l, k>> \in R}
<1>1. below(i) \subseteq below(j) /\ i \in below(j) /\ i \notin below(i)
  BY DEF Orders
<1>2. /\ IsFiniteSet(below(j)) /\ IsFiniteSet(below(i))
      /\ Cardinality(below(i)) \in Nat /\ Cardinality(below(j)) \in Nat
  BY FS_Subset, FS_CardinalityType
<1>3. /\ Cardinality(below(i)) <= Cardinality(below(j))
      /\ Cardinality(below(i)) # Cardinality(below(j))
  BY <1>1, <1>2, FS_Subset
<1>. QED
  BY <1>2, <1>3 DEF Rank

LEMMA RankBounds ==
  ASSUME NEW S, IsFiniteSet(S), NEW R, Orders(R, S), NEW i \in S
  PROVE  Rank(R, S, i) \in 0..(Cardinality(S) - 1)
<1>. DEFINE below == {l \in S : <<l, i>> \in R}
<1>1. below \subseteq S /\ i \notin below
  BY DEF Orders
<1>2. /\ Cardinality(below) \in Nat /\ Cardinality(S) \in Nat
      /\ Cardinality(below) <= Cardinality(S)
      /\ Cardinality(below) # Cardinality(S)
  BY <1>1, FS_Subset, FS_CardinalityType
<1>. QED
  BY <1>2 DEF Rank

\* Every rank is taken, by one element.
LEMMA Ranks ==
  ASSUME NEW S, IsFiniteSet(S), NEW R, Orders(R, S)
  PROVE  /\ Cardinality(S) \in Nat
         /\ \A i, j \in S : Rank(R, S, i) = Rank(R, S, j) => i = j
         /\ \A k \in 1..Cardinality(S) : \E i \in S : Rank(R, S, i) = k - 1
<1>. DEFINE n == Cardinality(S)
            T == 0..(n - 1)
            f == [i \in S |-> Rank(R, S, i)]
<1>1. n \in Nat
  BY FS_CardinalityType
<1>2. \A i, j \in S : Rank(R, S, i) = Rank(R, S, j) => i = j
  <2>. SUFFICES ASSUME NEW i \in S, NEW j \in S, Rank(R, S, i) = Rank(R, S, j),
                       i # j
                PROVE  FALSE
    OBVIOUS
  <2>1. Rank(R, S, i) \in 0..(n - 1) /\ Rank(R, S, j) \in 0..(n - 1)
    BY RankBounds
  <2>2. Rank(R, S, i) < Rank(R, S, j) \/ Rank(R, S, j) < Rank(R, S, i)
    BY RankGrows DEF Orders
  <2>. QED
    BY <1>1, <2>1, <2>2
<1>3. f \in Injection(S, T)
  <2>1. f \in [S -> T]
    BY RankBounds
  <2>. QED
    BY <1>2, <2>1 DEF Injection, IsInjective
<1>4. IsFiniteSet(T) /\ Cardinality(T) = n
  BY <1>1, FS_Interval
<1>5. f \in Surjection(S, T)
  BY <1>3, <1>4, FS_Injection
<1>6. ASSUME NEW k \in 1..n PROVE \E i \in S : Rank(R, S, i) = k - 1
  <2>1. k - 1 \in T
    BY <1>1
  <2>. QED
    BY <1>5, <2>1 DEF Surjection
<1>. QED
  BY <1>1, <1>2, <1>6

-----------------------------------------------------------------------------
(***************************************************************************)
(* A list of the first products in such an order.                          *)
(***************************************************************************)

\* What the collector returns.
ProductsOK ==
  /\ products \in Seq(Product)
  /\ \A i, j \in DOMAIN products : products[i].id = products[j].id => i = j

NoWorse(segment, p, q) ==
  IF segment = "premium" THEN p.price >= q.price ELSE p.price <= q.price

Listed(segment) == {products[i] : i \in Of(segment)}

\* What TasksListTheExtremes says of a task of the products of a segment.
Extremes(all, segment, list) ==
  LET chosen == {list[k] : k \in DOMAIN list}
  IN /\ chosen \subseteq all /\ Cardinality(chosen) = Len(list)
     /\ \A k, l \in DOMAIN list : k < l => NoWorse(segment, list[k], list[l])
     /\ \A p \in all \ chosen :
          Len(list) = Limit /\ \A q \in chosen : NoWorse(segment, q, p)

Shown(S) == IF Cardinality(S) < Limit THEN Cardinality(S) ELSE Limit

LEMMA OfFinite ==
  ASSUME ProductsOK, NEW segment
  PROVE  IsFiniteSet(Of(segment)) /\ Of(segment) \subseteq DOMAIN products
<1>1. DOMAIN products = 1..Len(products) /\ Len(products) \in Nat
  BY DEF ProductsOK
<1>2. IsFiniteSet(DOMAIN products)
  BY <1>1, FS_Interval
<1>. QED
  BY <1>2, FS_Subset DEF Of

LEMMA FirstsAreExtremes ==
  ASSUME ProductsOK, NEW segment, NEW R, Orders(R, Of(segment)),
         \A i, j \in Of(segment) :
           <<i, j>> \in R => NoWorse(segment, products[i], products[j]),
         NEW list, list = [k \in 1..Shown(Of(segment)) |-> list[k]],
         \A k \in 1..Shown(Of(segment)) :
           \E i \in Of(segment) :
             Rank(R, Of(segment), i) = k - 1 /\ list[k] = products[i]
  PROVE  /\ list \in Seq(Product) /\ (list = <<>> <=> Of(segment) = {})
         /\ Extremes(Listed(segment), segment, list)
<1>. DEFINE S == Of(segment)
            L == Shown(S)
            n == Cardinality(S)
            chosen == {list[k] : k \in DOMAIN list}
            all == Listed(segment)
            D == 1..L
<1>1. /\ IsFiniteSet(S) /\ S \subseteq DOMAIN products /\ n \in Nat
      /\ \A i, j \in S : Rank(R, S, i) = Rank(R, S, j) => i = j
      /\ \A i \in S : Rank(R, S, i) \in 0..(n - 1)
  BY OfFinite, Ranks, RankBounds
<1>2. Limit \in Nat \ {0} /\ L \in Nat /\ L <= n /\ L <= Limit
      /\ (L < n => L = Limit) /\ (L = 0 <=> n = 0)
  BY <1>1, EnrichmentAssumption DEF Shown
<1>3. PICK at \in [D -> S] :
        \A k \in D : Rank(R, S, at[k]) = k - 1 /\ list[k] = products[at[k]]
  <2>. DEFINE f == [k \in D |-> CHOOSE i \in S :
                      Rank(R, S, i) = k - 1 /\ list[k] = products[i]]
  <2>1. \A k \in D : /\ f[k] \in S
                     /\ Rank(R, S, f[k]) = k - 1 /\ list[k] = products[f[k]]
    OBVIOUS
  <2>. QED
    BY <2>1
<1>4. DOMAIN list = D
  OBVIOUS
<1>5. list \in [D -> Product]
  BY <1>1, <1>3, <1>4 DEF ProductsOK
<1>6. list \in Seq(Product) /\ Len(list) = L
  BY <1>2, <1>5
<1>7. list = <<>> <=> S = {}
  <2>1. n = 0 <=> S = {}
    BY <1>1, FS_EmptySet
  <2>. QED
    BY <1>2, <1>6, <2>1
<1>8. chosen \subseteq all
  BY <1>3, <1>4 DEF Listed
<1>9. Cardinality(chosen) = L
  <2>. DEFINE g == [k \in D |-> list[k]]
  <2>1. \A k, l \in D : list[k] = list[l] => k = l
    BY <1>1, <1>2, <1>3 DEF ProductsOK
  <2>2. g \in Bijection(D, chosen)
    BY <1>4, <2>1 DEF Bijection, Injection, IsInjective, Surjection
  <2>3. IsFiniteSet(D) /\ Cardinality(D) = L
    BY <1>2, FS_Interval
  <2>. QED
    BY <2>2, <2>3, FS_Bijection DEF ExistsBijection
<1>10. ASSUME NEW i \in S, NEW j \in S, Rank(R, S, i) < Rank(R, S, j)
       PROVE  NoWorse(segment, products[i], products[j])
  <2>1. <<i, j>> \in R
    <3>1. Rank(R, S, i) \in Int /\ Rank(R, S, j) \in Int
      BY <1>1
    <3>2. <<j, i>> \notin R
      BY <1>1, <1>10, <3>1, RankGrows
    <3>. QED
      BY <1>10, <3>1, <3>2 DEF Orders
  <2>. QED
    BY <2>1
<1>11. ASSUME NEW k \in D, NEW l \in D, k < l
       PROVE  NoWorse(segment, list[k], list[l])
  <2>1. at[k] \in S /\ at[l] \in S /\ Rank(R, S, at[k]) < Rank(R, S, at[l])
    BY <1>2, <1>3, <1>11
  <2>. QED
    BY <1>3, <1>10, <2>1
<1>12. ASSUME NEW p \in all \ chosen
       PROVE  L = Limit /\ \A q \in chosen : NoWorse(segment, q, p)
  <2>1. PICK i \in S : p = products[i]
    BY DEF Listed
  <2>2. Rank(R, S, i) >= L
    <3>. SUFFICES ASSUME Rank(R, S, i) < L PROVE FALSE
      BY <1>1, <1>2
    <3>. DEFINE k == Rank(R, S, i) + 1
    <3>1. k \in D /\ k - 1 = Rank(R, S, i)
      BY <1>1, <1>2
    <3>2. at[k] \in S /\ Rank(R, S, at[k]) = Rank(R, S, i) /\ list[k] = products[at[k]]
      BY <1>3, <3>1
    <3>. HIDE DEF k
    <3>3. list[k] = p /\ k \in DOMAIN list
      BY <1>1, <1>4, <2>1, <3>1, <3>2
    <3>. QED
      BY <1>12, <3>3
  <2>3. L = Limit
    BY <1>1, <1>2, <2>2
  <2>4. ASSUME NEW k \in D PROVE NoWorse(segment, list[k], p)
    <3>1. at[k] \in S /\ Rank(R, S, at[k]) < Rank(R, S, i)
      BY <1>1, <1>2, <1>3, <2>2
    <3>. QED
      BY <1>3, <1>10, <2>1, <3>1
  <2>. QED
    BY <1>4, <2>3, <2>4
<1>. QED
  BY <1>4, <1>6, <1>7, <1>8, <1>9, <1>11, <1>12 DEF Extremes

LEMMA PricesOK ==
  ASSUME ProductsOK, NEW i \in DOMAIN products
  PROVE  i \in Int /\ products[i].price \in Int
<1>1. DOMAIN products = 1..Len(products) /\ products[i] \in Product
  BY DEF ProductsOK
<1>2. \A p \in Product : p.price \in Nat
  BY EnrichmentAssumption DEF Product
<1>. QED
  BY <1>1, <1>2

\* The two orders of build_tasks.
LEMMA PremiumExtremes ==
  ASSUME ProductsOK
  PROVE  /\ TopPremium \in Seq(Product)
         /\ TopPremium = <<>> <=> Of("premium") = {}
         /\ Extremes(Listed("premium"), "premium", TopPremium)
<1>. DEFINE S == Of("premium")
            R == {p \in S \X S : Dearer(p[1], p[2])}
            list == TopPremium
<1>1. /\ IsFiniteSet(S) /\ S \subseteq DOMAIN products
      /\ \A i \in S : i \in Int /\ products[i].price \in Int
  BY OfFinite, PricesOK
<1>2. \A i, j \in S : <<i, j>> \in R <=> Dearer(i, j)
  OBVIOUS
<1>3. Orders(R, S)
  BY <1>1, <1>2 DEF Orders, Dearer
<1>4. \A i, j \in S : <<i, j>> \in R => NoWorse("premium", products[i], products[j])
  BY <1>1, <1>2 DEF Dearer, NoWorse
<1>5. \A i \in S : Rank(R, S, i) = Cardinality({j \in S : Dearer(j, i)})
  <2>1. ASSUME NEW i \in S
        PROVE  {j \in S : <<j, i>> \in R} = {j \in S : Dearer(j, i)}
    BY <1>2
  <2>. QED
    BY <2>1 DEF Rank
<1>. HIDE DEF R
<1>6. list = [k \in 1..Shown(S) |->
                products[CHOOSE i \in S :
                           Cardinality({j \in S : Dearer(j, i)}) = k - 1]]
  BY DEF TopPremium, Firsts, Shown
<1>7. ASSUME NEW k \in 1..Shown(S)
      PROVE  \E i \in S : Rank(R, S, i) = k - 1 /\ list[k] = products[i]
  <2>1. k \in 1..Cardinality(S)
    BY <1>1, FS_CardinalityType, EnrichmentAssumption DEF Shown
  <2>2. \E i \in S : Cardinality({j \in S : Dearer(j, i)}) = k - 1
    <3>1. \E i \in S : Rank(R, S, i) = k - 1
      BY <1>1, <1>3, <2>1, Ranks
    <3>. QED
      BY <1>5, <3>1
  <2>. DEFINE i == CHOOSE i \in S : Cardinality({j \in S : Dearer(j, i)}) = k - 1
  <2>3. i \in S /\ Cardinality({j \in S : Dearer(j, i)}) = k - 1
    BY <2>2
  <2>4. list[k] = products[i]
    BY <1>6
  <2>. HIDE DEF i
  <2>. QED
    BY <1>5, <2>3, <2>4
<1>8. list = [k \in 1..Shown(S) |-> list[k]]
  BY <1>6
<1>. HIDE DEF list
<1>9. /\ list \in Seq(Product) /\ (list = <<>> <=> S = {})
      /\ Extremes(Listed("premium"), "premium", list)
  BY <1>3, <1>4, <1>7, <1>8, FirstsAreExtremes
<1>. QED
  BY <1>9 DEF list

LEMMA EconomyExtremes ==
  ASSUME ProductsOK
  PROVE  /\ TopEconomy \in Seq(Product)
         /\ TopEconomy = <<>> <=> Of("economy") = {}
         /\ Extremes(Listed("economy"), "economy", TopEconomy)
<1>. DEFINE S == Of("economy")
            R == {p \in S \X S : Cheaper(p[1], p[2])}
            list == TopEconomy
<1>1. /\ IsFiniteSet(S) /\ S \subseteq DOMAIN products
      /\ \A i \in S : i \in Int /\ products[i].price \in Int
  BY OfFinite, PricesOK
<1>2. \A i, j \in S : <<i, j>> \in R <=> Cheaper(i, j)
  OBVIOUS
<1>3. Orders(R, S)
  BY <1>1, <1>2 DEF Orders, Cheaper
<1>4. \A i, j \in S : <<i, j>> \in R => NoWorse("economy", products[i], products[j])
  BY <1>1, <1>2 DEF Cheaper, NoWorse
<1>5. \A i \in S : Rank(R, S, i) = Cardinality({j \in S : Cheaper(j, i)})
  <2>1. ASSUME NEW i \in S
        PROVE  {j \in S : <<j, i>> \in R} = {j \in S : Cheaper(j, i)}
    BY <1>2
  <2>. QED
    BY <2>1 DEF Rank
<1>. HIDE DEF R
<1>6. list = [k \in 1..Shown(S) |->
                products[CHOOSE i \in S :
                           Cardinality({j \in S : Cheaper(j, i)}) = k - 1]]
  BY DEF TopEconomy, Firsts, Shown
<1>7. ASSUME NEW k \in 1..Shown(S)
      PROVE  \E i \in S : Rank(R, S, i) = k - 1 /\ list[k] = products[i]
  <2>1. k \in 1..Cardinality(S)
    BY <1>1, FS_CardinalityType, EnrichmentAssumption DEF Shown
  <2>2. \E i \in S : Cardinality({j \in S : Cheaper(j, i)}) = k - 1
    <3>1. \E i \in S : Rank(R, S, i) = k - 1
      BY <1>1, <1>3, <2>1, Ranks
    <3>. QED
      BY <1>5, <3>1
  <2>. DEFINE i == CHOOSE i \in S : Cardinality({j \in S : Cheaper(j, i)}) = k - 1
  <2>3. i \in S /\ Cardinality({j \in S : Cheaper(j, i)}) = k - 1
    BY <2>2
  <2>4. list[k] = products[i]
    BY <1>6
  <2>. HIDE DEF i
  <2>. QED
    BY <1>5, <2>3, <2>4
<1>8. list = [k \in 1..Shown(S) |-> list[k]]
  BY <1>6
<1>. HIDE DEF list
<1>9. /\ list \in Seq(Product) /\ (list = <<>> <=> S = {})
      /\ Extremes(Listed("economy"), "economy", list)
  BY <1>3, <1>4, <1>7, <1>8, FirstsAreExtremes
<1>. QED
  BY <1>9 DEF list

-----------------------------------------------------------------------------
(***************************************************************************)
(* The tasks of a run.                                                     *)
(***************************************************************************)
\* TasksListTheExtremes, segment by segment.
TasksOK ==
  \A segment \in {"premium", "economy"} :
    /\ (\E t \in DOMAIN tasks : tasks[t].segment = segment) <=> Of(segment) # {}
    /\ \A t \in DOMAIN tasks : tasks[t].segment = segment =>
         Extremes(Listed(segment), segment, tasks[t].list)

EnrichmentInv ==
  /\ ProductsOK
  /\ pc \in {"classify", "build", "done"}
  /\ pc = "done" => /\ \A t \in DOMAIN tasks :
                          tasks[t].segment \in {"premium", "economy"}
                    /\ TasksOK

LEMMA EnrichmentInit == Init => EnrichmentInv
<1>. SUFFICES ASSUME Init PROVE EnrichmentInv
  OBVIOUS
<1>1. PICK n \in 0..MaxProducts : products \in [1..n -> Product]
  BY DEF Init, Catalogs, SeqsUpTo
<1>2. products \in Seq(Product)
  BY <1>1, EnrichmentAssumption
<1>3. \A i, j \in DOMAIN products : products[i].id = products[j].id => i = j
  BY DEF Init, Catalogs
<1>. QED
  BY <1>2, <1>3 DEF Init, EnrichmentInv, ProductsOK

\* build_tasks makes a task of each segment that has products.
LEMMA BuildTasksLists ==
  ASSUME ProductsOK, BuildTasks
  PROVE  /\ TasksOK'
         /\ \A t \in DOMAIN tasks' : tasks'[t].segment \in {"premium", "economy"}
<1>. DEFINE P == [segment |-> "premium", list |-> TopPremium]
            E == [segment |-> "economy", list |-> TopEconomy]
<1>1. /\ P.segment = "premium" /\ E.segment = "economy"
      /\ Extremes(Listed("premium"), "premium", P.list)
      /\ Extremes(Listed("economy"), "economy", E.list)
      /\ TopPremium = <<>> <=> Of("premium") = {}
      /\ TopEconomy = <<>> <=> Of("economy") = {}
  BY PremiumExtremes, EconomyExtremes
<1>2. tasks' = (IF Of("premium") = {} THEN <<>> ELSE <<P>>)
               \o (IF Of("economy") = {} THEN <<>> ELSE <<E>>)
  BY <1>1 DEF BuildTasks
<1>. HIDE DEF P, E
<1>3. /\ \A t \in DOMAIN tasks' : tasks'[t] = P \/ tasks'[t] = E
      /\ (\E t \in DOMAIN tasks' : tasks'[t] = P) <=> Of("premium") # {}
      /\ (\E t \in DOMAIN tasks' : tasks'[t] = E) <=> Of("economy") # {}
  <2>0. P # E
    BY <1>1
  <2>1. CASE Of("premium") = {} /\ Of("economy") = {}
    <3>1. tasks' = <<>>
      BY <1>2, <2>1
    <3>. QED
      BY <2>1, <3>1
  <2>2. CASE Of("premium") # {} /\ Of("economy") = {}
    <3>1. tasks' = <<P>>
      BY <1>2, <2>2
    <3>. QED
      BY <2>0, <2>2, <3>1
  <2>3. CASE Of("premium") = {} /\ Of("economy") # {}
    <3>1. tasks' = <<E>>
      BY <1>2, <2>3
    <3>. QED
      BY <2>0, <2>3, <3>1
  <2>4. CASE Of("premium") # {} /\ Of("economy") # {}
    <3>1. DOMAIN tasks' = 1..2 /\ tasks'[1] = P /\ tasks'[2] = E
      BY <1>2, <2>4
    <3>. QED
      BY <2>4, <3>1
  <2>. QED
    BY <2>1, <2>2, <2>3, <2>4
<1>4. \A segment : /\ Of(segment)' = Of(segment)
                   /\ Listed(segment)' = Listed(segment)
  BY DEF BuildTasks, Of, SegmentOf, Listed
<1>. QED
  BY <1>1, <1>3, <1>4 DEF TasksOK

LEMMA EnrichmentNext ==
  ASSUME EnrichmentInv, [Next]_vars
  PROVE  EnrichmentInv'
<1>1. products' = products
  BY DEF Next, BatchAnswered, BatchFailed, BuildTasks, Advance, vars
<1>2. ProductsOK'
  BY <1>1 DEF EnrichmentInv, ProductsOK
<1>3. CASE BuildTasks
  BY <1>2, <1>3, BuildTasksLists DEF EnrichmentInv, BuildTasks
<1>4. CASE BatchAnswered \/ BatchFailed
  BY <1>2, <1>4 DEF EnrichmentInv, BatchAnswered, BatchFailed, Advance
<1>5. CASE UNCHANGED vars
  <2>1. TasksOK => TasksOK'
    BY <1>5 DEF TasksOK, Of, SegmentOf, Listed, vars
  <2>. QED
    BY <1>2, <1>5, <2>1 DEF EnrichmentInv, vars
<1>. QED
  BY <1>3, <1>4, <1>5 DEF Next

LEMMA ExtremesListed == EnrichmentInv => TasksListTheExtremes
<1>. SUFFICES ASSUME EnrichmentInv, pc = "done" PROVE TasksListTheExtremes
  BY DEF TasksListTheExtremes
<1>1. /\ \A segment \in {"premium", "economy"} :
           (\E t \in DOMAIN tasks : tasks[t].segment = segment)
             <=> Of(segment) # {}
      /\ \A t \in DOMAIN tasks :
           Extremes(Listed(tasks[t].segment), tasks[t].segment, tasks[t].list)
  BY DEF EnrichmentInv, TasksOK
<1>. QED
  BY <1>1 DEF TasksListTheExtremes, Extremes, Listed, NoWorse

\* Whatever the model answered, the tasks of a run are those of the segments
\* that have products, and each lists its segment's dearest or cheapest
\* products: none twice, in order of price, and as many as fit.
THEOREM TasksAreTheExtremes == Spec => []TasksListTheExtremes
<1>1. EnrichmentInv /\ [Next]_vars => EnrichmentInv'
  BY EnrichmentNext
<1>. QED
  BY <1>1, EnrichmentInit, ExtremesListed, PTL DEF Spec
-----------------------------------------------------------------------------
(***************************************************************************)
(* What a fold over a list computes.                                       *)
(***************************************************************************)

\* Induction, over a set of numbers.
LEMMA Induction ==
  ASSUME NEW S, 0 \in S, \A n \in Nat : n \in S => n + 1 \in S
  PROVE  Nat \subseteq S
<1>. SUFFICES ASSUME ~(Nat \subseteq S) PROVE FALSE
  OBVIOUS
<1>. DEFINE T == Nat \ S
            R == OpToRel(<, Nat)
<1>1. IsWellFoundedOn(R, Nat)
  BY NatLessThanWellFounded
<1>2. PICK x \in T : \A y \in T : <<y, x>> \notin R
  BY <1>1, WFMin, Zenon
<1>3. x # 0 /\ x - 1 \in Nat /\ x - 1 < x
  OBVIOUS
<1>4. x - 1 \in S
  BY <1>2, <1>3 DEF OpToRel
<1>. QED
  BY <1>3, <1>4

LEMMA LastPosition ==
  ASSUME NEW n \in Nat, NEW s \in SUBSET (1..n), s # {}
  PROVE  Max(s) \in s /\ \A x \in s : x <= Max(s)
<1>. DEFINE S == {m \in Nat : \A t \in SUBSET (1..m) :
                                t # {} => \E x \in t : \A y \in t : x >= y}
<1>1. 0 \in S
  <2>1. 1..0 = {}
    OBVIOUS
  <2>. QED
    BY <2>1
<1>2. ASSUME NEW m \in Nat, m \in S PROVE m + 1 \in S
  <2>. SUFFICES ASSUME NEW t \in SUBSET (1..(m + 1)), t # {}
                PROVE  \E x \in t : \A y \in t : x >= y
    OBVIOUS
  <2>1. CASE m + 1 \in t
    BY <2>1
  <2>2. CASE m + 1 \notin t
    <3>1. t \in SUBSET (1..m)
      BY <2>2
    <3>. QED
      BY <1>2, <3>1
  <2>. QED
    BY <2>1, <2>2
<1>. HIDE DEF S
<1>3. n \in S
  BY <1>1, <1>2, Induction
<1>4. \E x \in s : \A y \in s : x >= y
  BY <1>3 DEF S
<1>. QED
  BY <1>4 DEF Max

LEMMA LastOfPrefix ==
  ASSUME NEW n \in Nat \ {0}
  PROVE  1..n # {} /\ Max(1..n) = n /\ (1..n) \ {n} = 1..(n - 1)
<1>1. n \in 1..n /\ 1..n \in SUBSET (1..n)
  OBVIOUS
<1>2. Max(1..n) \in 1..n /\ \A x \in 1..n : x <= Max(1..n)
  BY <1>1, LastPosition
<1>. QED
  BY <1>1, <1>2

LEMMA WithoutLast ==
  ASSUME NEW m \in Nat, NEW n \in Nat, m + 1 <= n,
         NEW s \in SUBSET (1..(m + 1)), s # {}
  PROVE  /\ Max(s) \in 1..n /\ s \ {Max(s)} \in SUBSET (1..m)
         /\ s \ {Max(s)} \in SUBSET (1..(m + 1))
<1>1. m + 1 \in Nat
  OBVIOUS
<1>2. PICK k : k = Max(s) /\ k \in s /\ \A x \in s : x <= k
  BY <1>1, LastPosition
<1>3. \A x \in s : x \in 1..(m + 1) /\ x <= k
  BY <1>2
<1>4. k \in 1..(m + 1)
  BY <1>2, <1>3
<1>5. \A x \in s \ {k} : x \in 1..(m + 1) /\ x <= k /\ x # k
  BY <1>3
<1>6. \A x \in s \ {k} : x \in 1..m
  BY <1>4, <1>5
<1>7. k \in 1..n
  BY <1>4
<1>8. s \ {k} \in SUBSET (1..m) /\ s \ {k} \in SUBSET (1..(m + 1))
  BY <1>6
<1>. QED
  BY <1>2, <1>7, <1>8

\* step takes what the elements before position i give, in V, to what they
\* give with it.
Steps(step, n, V) == \A v \in V, i \in 1..n : step[<<v, i>>] \in V

\* The function by which a fold over n elements is defined.
Folds(f, n, V, base, step) ==
  /\ f \in [SUBSET (1..n) -> V]
  /\ \A s \in SUBSET (1..n) :
       f[s] = IF s = {} THEN base ELSE step[<<f[s \ {Max(s)}], Max(s)>>]

\* It goes through the list from the left.
Runs(f, n, V, base, step) ==
  /\ f[1..0] = base
  /\ \A i \in 0..n : f[1..i] \in V
  /\ \A i \in 1..n : f[1..i] = step[<<f[1..(i - 1)], i>>]

LEMMA FoldExists ==
  ASSUME NEW n \in Nat, NEW V, NEW base \in V, NEW step, Steps(step, n, V)
  PROVE  \E f : Folds(f, n, V, base, step)
<1>0. \A v \in V, i \in 1..n : step[<<v, i>>] \in V
  BY DEF Steps
<1>. DEFINE Meets(f, m) ==
              \A s \in SUBSET (1..m) :
                f[s] = IF s = {} THEN base
                       ELSE step[<<f[s \ {Max(s)}], Max(s)>>]
            S == {m \in Nat : m <= n => \E f \in [SUBSET (1..m) -> V] : Meets(f, m)}
<1>1. 0 \in S
  <2>. DEFINE f == [s \in SUBSET (1..0) |-> base]
  <2>1. f \in [SUBSET (1..0) -> V] /\ Meets(f, 0)
    OBVIOUS
  <2>. QED
    BY <2>1
<1>2. ASSUME NEW m \in Nat, m \in S PROVE m + 1 \in S
  <2>. HIDE DEF Meets
  <2>. SUFFICES ASSUME m + 1 <= n
                PROVE  \E f \in [SUBSET (1..(m + 1)) -> V] : Meets(f, m + 1)
    <3>1. m + 1 \in Nat
      OBVIOUS
    <3>. QED
      BY <3>1
  <2>0. m <= n
    OBVIOUS
  <2>1. PICK g \in [SUBSET (1..m) -> V] : Meets(g, m)
    BY <1>2, <2>0
  <2>. DEFINE f == [s \in SUBSET (1..(m + 1)) |->
                      IF s = {} THEN base
                      ELSE step[<<g[s \ {Max(s)}], Max(s)>>]]
  <2>2. ASSUME NEW s \in SUBSET (1..(m + 1)), s # {}
        PROVE  /\ Max(s) \in 1..n /\ s \ {Max(s)} \in SUBSET (1..m)
               /\ s \ {Max(s)} \in SUBSET (1..(m + 1))
    BY <2>2, WithoutLast
  <2>3. f \in [SUBSET (1..(m + 1)) -> V]
    BY <1>0, <2>2
  <2>4. \A s \in SUBSET (1..m) : s \in SUBSET (1..(m + 1)) /\ f[s] = g[s]
    <3>1. \A i \in 1..m : i \in 1..(m + 1)
      OBVIOUS
    <3>. QED
      BY <2>1, <3>1 DEF Meets
  <2>5. ASSUME NEW s \in SUBSET (1..(m + 1))
        PROVE  f[s] = IF s = {} THEN base
                      ELSE step[<<f[s \ {Max(s)}], Max(s)>>]
    <3>1. s # {} => f[s \ {Max(s)}] = g[s \ {Max(s)}]
      BY <2>2, <2>4
    <3>. QED
      BY <3>1
  <2>. QED
    BY <2>3, <2>5 DEF Meets
<1>. HIDE DEF S
<1>3. n \in S
  BY <1>1, <1>2, Induction
<1>. HIDE DEF Meets
<1>4. n <= n
  OBVIOUS
<1>5. \E f \in [SUBSET (1..n) -> V] : Meets(f, n)
  BY <1>3, <1>4 DEF S
<1>. QED
  BY <1>5 DEF Meets, Folds

\* Any such function goes through the list from the left.
LEMMA FoldRuns ==
  ASSUME NEW n \in Nat, NEW V, NEW base \in V, NEW step,
         Steps(step, n, V), NEW f, f[{}] = base,
         \A s \in SUBSET (1..n) :
           s # {} /\ f[s \ {Max(s)}] \in V
             => f[s] = step[<<f[s \ {Max(s)}], Max(s)>>]
  PROVE  Runs(f, n, V, base, step)
<1>. DEFINE S == {m \in Nat : m <= n => f[1..m] \in V}
<1>1. 1..0 = {}
  OBVIOUS
<1>2. ASSUME NEW i \in 1..n, f[1..(i - 1)] \in V
      PROVE  f[1..i] = step[<<f[1..(i - 1)], i>>]
  <2>1. 1..i \in SUBSET (1..n) /\ i \in Nat \ {0}
    OBVIOUS
  <2>. QED
    BY <1>2, <2>1, LastOfPrefix
<1>3. 0 \in S
  BY <1>1
<1>4. ASSUME NEW m \in Nat, m \in S PROVE m + 1 \in S
  <2>. SUFFICES ASSUME m + 1 <= n PROVE f[1..(m + 1)] \in V
    OBVIOUS
  <2>1. m + 1 \in 1..n /\ (m + 1) - 1 = m /\ f[1..m] \in V
    BY <1>4
  <2>. QED
    BY <1>2, <2>1 DEF Steps
<1>. HIDE DEF S
<1>5. Nat \subseteq S
  BY <1>3, <1>4, Induction
<1>6. \A i \in 0..n : f[1..i] \in V
  BY <1>5 DEF S
<1>. QED
  BY <1>1, <1>2, <1>6 DEF Runs


-----------------------------------------------------------------------------
(***************************************************************************)
(* What the classifier takes from an answer.                               *)
(***************************************************************************)
NoSegments == [i \in Ids |-> None]

\* A segment as _parse_segments takes it.
Normal(segment) == IF segment \in Segments THEN segment ELSE "standard"

\* What the items of an answer say, before the missing ids count as standard.
Given(items) ==
  FoldLeft(LAMBDA got, item :
             IF item.id \notin BatchIds THEN got
             ELSE [got EXCEPT ![item.id] =
                     IF item.segment \in Segments THEN item.segment
                                                  ELSE "standard"],
           [i \in Ids |-> None], items)

LEMMA GivenRuns ==
  ASSUME NEW items \in Seq(Item)
  PROVE  \E c \in [0..Len(items) -> [Ids -> Segments \cup {None}]] :
           /\ c[0] = NoSegments
           /\ \A i \in 1..Len(items) :
                c[i] = IF items[i].id \notin BatchIds THEN c[i - 1]
                       ELSE [c[i - 1] EXCEPT ![items[i].id] =
                               Normal(items[i].segment)]
           /\ Given(items) = c[Len(items)]
<1>. DEFINE n == Len(items)
            V == [Ids -> Segments \cup {None}]
            Op(v, i) == IF items[i].id \notin BatchIds THEN v
                        ELSE [v EXCEPT ![items[i].id] =
                                IF items[i].segment \in Segments
                                  THEN items[i].segment ELSE "standard"]
            step == [x \in V \X (1..n) |-> Op(x[1], x[2])]
            Meets(g) == g = [s \in SUBSET (1..n) |->
                               IF s = {} THEN [i \in Ids |-> None]
                               ELSE Op(g[s \ {Max(s)}], Max(s))]
            f == CHOOSE g : Meets(g)
<1>1. n \in Nat /\ DOMAIN items = 1..n
  OBVIOUS
<1>2. \A v \in V, i \in 1..n : Op(v, i) \in V /\ step[<<v, i>>] = Op(v, i)
  <2>1. "standard" \in Segments
    BY DEF Segments
  <2>2. \A v \in V, i \in 1..n : Op(v, i) \in V
    BY <2>1
  <2>. HIDE DEF V, Op
  <2>. QED
    BY <2>2
<1>3. [i \in Ids |-> None] \in V /\ Steps(step, n, V)
  <2>1. [i \in Ids |-> None] \in V
    OBVIOUS
  <2>2. \A v \in V, i \in 1..n : step[<<v, i>>] \in V
    <3>. HIDE DEF V, Op, step
    <3>. QED
      BY <1>2
  <2>. HIDE DEF V, Op, step
  <2>. QED
    BY <2>1, <2>2 DEF Steps
<1>4. PICK w : Folds(w, n, V, [i \in Ids |-> None], step)
  <2>. HIDE DEF step, V, n, Op
  <2>. QED
    BY <1>1, <1>3, FoldExists
<1>5. Meets(w)
  <2>1. ASSUME NEW s \in SUBSET (1..n), s # {}
        PROVE  step[<<w[s \ {Max(s)}], Max(s)>>] = Op(w[s \ {Max(s)}], Max(s))
    <3>1. Max(s) \in s
      BY <1>1, <2>1, LastPosition
    <3>. HIDE DEF step, Op, V
    <3>2. Max(s) \in 1..n /\ w[s \ {Max(s)}] \in V
      BY <1>4, <3>1 DEF Folds
    <3>. QED
      BY <1>2, <3>2
  <2>. HIDE DEF step, Op, V
  <2>. QED
    BY <1>4, <2>1 DEF Folds
<1>6. Meets(f)
  <2>. HIDE DEF Meets
  <2>. QED
    BY <1>5
<1>7. Given(items) = f[1..n]
  BY <1>1 DEF Given, FoldLeft, MapThenFoldSet
<1>. HIDE DEF f
<1>8. f[{}] = [i \in Ids |-> None]
  <2>. HIDE DEF Op
  <2>. QED
    BY <1>6
<1>9. \A s \in SUBSET (1..n) :
        s # {} /\ f[s \ {Max(s)}] \in V
          => f[s] = step[<<f[s \ {Max(s)}], Max(s)>>]
  <2>. SUFFICES ASSUME NEW s \in SUBSET (1..n), s # {}, f[s \ {Max(s)}] \in V
                PROVE  f[s] = step[<<f[s \ {Max(s)}], Max(s)>>]
    OBVIOUS
  <2>1. Max(s) \in 1..n
    BY <1>1, LastPosition
  <2>2. f[s] = Op(f[s \ {Max(s)}], Max(s))
    <3>. HIDE DEF Op
    <3>. QED
      BY <1>6
  <2>. HIDE DEF step, Op, V
  <2>. QED
    BY <1>2, <2>1, <2>2
<1>10. Runs(f, n, V, [i \in Ids |-> None], step)
  <2>. HIDE DEF step, V, n, Op, Meets
  <2>. QED
    BY <1>1, <1>3, <1>8, <1>9, FoldRuns
<1>. DEFINE c == [i \in 0..n |-> f[1..i]]
<1>11. ASSUME NEW i \in 1..n PROVE c[i] = Op(c[i - 1], i)
  <2>1. i \in 0..n /\ i - 1 \in 0..n
    BY <1>1
  <2>. HIDE DEF step, V, Op
  <2>2. f[1..(i - 1)] \in V /\ f[1..i] = step[<<f[1..(i - 1)], i>>]
    BY <1>10, <2>1 DEF Runs
  <2>3. f[1..i] = Op(f[1..(i - 1)], i)
    BY <1>2, <2>2
  <2>. QED
    BY <2>1, <2>3
<1>12. c \in [0..n -> V] /\ c[0] = [i \in Ids |-> None] /\ c[n] = Given(items)
  <2>1. 0 \in 0..n /\ n \in 0..n
    BY <1>1
  <2>. HIDE DEF V
  <2>. QED
    BY <1>7, <1>10, <2>1 DEF Runs
<1>. HIDE DEF c
<1>13. ASSUME NEW i \in 1..n
       PROVE  c[i] = IF items[i].id \notin BatchIds THEN c[i - 1]
                     ELSE [c[i - 1] EXCEPT ![items[i].id] =
                             Normal(items[i].segment)]
  BY <1>11 DEF Normal
<1>. QED
  BY <1>12, <1>13 DEF NoSegments

\* The last of the first m items about product i.
LastAbout(items, i, m, l) ==
  /\ l \in 1..m /\ items[l].id = i
  /\ \A k \in 1..m : items[k].id = i => k <= l

\* A later item wins, and an item about another batch is passed over.
LEMMA GivenSays ==
  ASSUME NEW items \in Seq(Item)
  PROVE  /\ Given(items) \in [Ids -> Segments \cup {None}]
         /\ \A i \in Ids :
              i \notin BatchIds \/ (\A k \in 1..Len(items) : items[k].id # i)
                => Given(items)[i] = None
         /\ \A i \in BatchIds : \A l \in 1..Len(items) :
              LastAbout(items, i, Len(items), l)
                => Given(items)[i] = Normal(items[l].segment)
<1>. DEFINE n == Len(items)
            V == [Ids -> Segments \cup {None}]
            Missing(g, m) == \A i \in Ids :
              i \notin BatchIds \/ (\A k \in 1..m : items[k].id # i)
                => g[i] = None
            Found(g, m) == \A i \in BatchIds : \A l \in 1..m :
              LastAbout(items, i, m, l) => g[i] = Normal(items[l].segment)
<1>1. n \in Nat /\ DOMAIN items = 1..n /\ \A i \in 1..n : items[i].id \in Ids
  <2>1. \A i \in 1..n : items[i] \in Item
    OBVIOUS
  <2>2. \A x \in Item : x.id \in Ids
    BY DEF Item
  <2>. QED
    BY <2>1, <2>2
<1>2. PICK c \in [0..n -> V] :
        /\ c[0] = NoSegments
        /\ \A i \in 1..n :
             c[i] = IF items[i].id \notin BatchIds THEN c[i - 1]
                    ELSE [c[i - 1] EXCEPT ![items[i].id] =
                            Normal(items[i].segment)]
        /\ Given(items) = c[n]
  BY GivenRuns
<1>. DEFINE S == {m \in Nat : m <= n => Missing(c[m], m) /\ Found(c[m], m)}
<1>3. 0 \in S
  <2>1. 1..0 = {}
    OBVIOUS
  <2>2. Missing(c[0], 0) /\ Found(c[0], 0)
    BY <1>2, <2>1 DEF NoSegments
  <2>. HIDE DEF Missing, Found
  <2>. QED
    BY <2>2
<1>4. ASSUME NEW m \in Nat, m \in S PROVE m + 1 \in S
  <2>. SUFFICES ASSUME m + 1 <= n
                PROVE  Missing(c[m + 1], m + 1) /\ Found(c[m + 1], m + 1)
    <3>. HIDE DEF Missing, Found
    <3>1. m + 1 \in Nat
      OBVIOUS
    <3>. QED
      BY <3>1
  <2>1. /\ m + 1 \in 1..n /\ m \in 0..n /\ (m + 1) - 1 = m /\ m <= n
        /\ c[m] \in V /\ items[m + 1].id \in Ids
        /\ \A k : k \in 1..(m + 1) <=> k \in 1..m \/ k = m + 1
    BY <1>1, <1>2
  <2>2. Missing(c[m], m) /\ Found(c[m], m)
    <3>. HIDE DEF Missing, Found
    <3>. QED
      BY <1>4, <2>1
  <2>. DEFINE x == items[m + 1].id
              d == c[m + 1]
  <2>3. d = IF x \notin BatchIds THEN c[m]
            ELSE [c[m] EXCEPT ![x] = Normal(items[m + 1].segment)]
    BY <1>2, <2>1
  <2>4. \A i \in Ids : d[i] = IF i = x /\ x \in BatchIds
                                THEN Normal(items[m + 1].segment) ELSE c[m][i]
    BY <2>1, <2>3
  <2>5. BatchIds \cap Ids \subseteq Ids /\ x = items[m + 1].id
    OBVIOUS
  <2>. HIDE DEF d, x
  <2>6. Missing(d, m + 1)
    <3>. SUFFICES ASSUME NEW i \in Ids,
                         i \notin BatchIds
                           \/ (\A k \in 1..(m + 1) : items[k].id # i)
                  PROVE  d[i] = None
      OBVIOUS
    <3>1. ~(i = x /\ x \in BatchIds)
      BY <2>1, <2>5
    <3>2. i \notin BatchIds \/ (\A k \in 1..m : items[k].id # i)
      BY <2>1
    <3>. QED
      BY <2>2, <2>4, <3>1, <3>2
  <2>7. Found(d, m + 1)
    <3>. SUFFICES ASSUME NEW i \in BatchIds, NEW l \in 1..(m + 1),
                         LastAbout(items, i, m + 1, l)
                  PROVE  d[i] = Normal(items[l].segment)
      OBVIOUS
    <3>0. i \in Ids
      BY <1>1, <2>1 DEF LastAbout
    <3>1. CASE l = m + 1
      <4>1. i = x
        BY <2>5, <3>1 DEF LastAbout
      <4>. QED
        BY <2>4, <3>0, <3>1, <4>1
    <3>2. CASE l # m + 1
      <4>1. l \in 1..m /\ ~(m + 1 <= l) /\ m + 1 \in 1..(m + 1)
        BY <2>1, <3>2
      <4>2. i # x
        BY <2>5, <4>1 DEF LastAbout
      <4>3. LastAbout(items, i, m, l)
        BY <2>1, <4>1 DEF LastAbout
      <4>4. c[m][i] = Normal(items[l].segment)
        BY <2>2, <4>1, <4>3
      <4>. QED
        BY <2>4, <3>0, <4>2, <4>4
    <3>. QED
      BY <3>1, <3>2
  <2>. QED
    BY <2>6, <2>7 DEF d
<1>. HIDE DEF S
<1>5. n \in S
  BY <1>1, <1>3, <1>4, Induction
<1>6. Missing(c[n], n) /\ Found(c[n], n)
  <2>. HIDE DEF Missing, Found
  <2>1. n <= n
    BY <1>1
  <2>. QED
    BY <1>5, <2>1 DEF S
<1>7. c[n] \in V
  <2>1. n \in 0..n
    BY <1>1
  <2>. QED
    BY <1>2, <2>1
<1>. QED
  BY <1>2, <1>6, <1>7

\* What Expected names is what _parse_segments gives to a product of the batch.
LEMMA ParsedSays ==
  ASSUME NEW items \in Seq(Item)
  PROVE  \A i \in Ids : /\ Parsed(items)[i] \in Segments \cup {None}
                        /\ i \notin BatchIds => Parsed(items)[i] = None
                        /\ i \in BatchIds => Parsed(items)[i] = Expected(i, items)
                        /\ Expected(i, items) \in Segments
<1>. DEFINE n == Len(items)
<1>1. n \in Nat /\ DOMAIN items = 1..n
  OBVIOUS
<1>2. /\ Given(items) \in [Ids -> Segments \cup {None}]
      /\ \A i \in Ids :
           i \notin BatchIds \/ (\A k \in 1..n : items[k].id # i)
             => Given(items)[i] = None
      /\ \A i \in BatchIds : \A l \in 1..n :
           LastAbout(items, i, n, l) => Given(items)[i] = Normal(items[l].segment)
  BY GivenSays
<1>3. Parsed(items) =
        [i \in Ids |-> IF i \in BatchIds /\ Given(items)[i] = None
                         THEN "standard" ELSE Given(items)[i]]
  BY DEF Parsed, Given
<1>4. "standard" \in Segments /\ None \notin Segments
  BY EnrichmentAssumption DEF Segments
<1>. SUFFICES ASSUME NEW i \in Ids
              PROVE  /\ Parsed(items)[i] \in Segments \cup {None}
                     /\ i \notin BatchIds => Parsed(items)[i] = None
                     /\ i \in BatchIds => Parsed(items)[i] = Expected(i, items)
                     /\ Expected(i, items) \in Segments
  OBVIOUS
<1>5. /\ Parsed(items)[i] \in Segments \cup {None}
      /\ i \notin BatchIds => Parsed(items)[i] = None
  BY <1>2, <1>3, <1>4
<1>. DEFINE s == Mentions(items, i)
<1>6. CASE s = {}
  <2>1. \A k \in 1..n : items[k].id # i
    BY <1>1, <1>6 DEF Mentions
  <2>2. Given(items)[i] = None
    BY <1>2, <2>1
  <2>3. Expected(i, items) = "standard"
    BY <1>6 DEF Expected
  <2>. QED
    BY <1>3, <1>4, <1>5, <2>2, <2>3
<1>7. CASE s # {}
  <2>. DEFINE l == CHOOSE k \in s : \A m \in s : m <= k
  <2>1. s \in SUBSET (1..n)
    BY <1>1 DEF Mentions
  <2>2. Max(s) \in s /\ \A m \in s : m <= Max(s)
    BY <1>1, <1>7, <2>1, LastPosition
  <2>3. l \in s /\ \A m \in s : m <= l
    BY <2>2
  <2>4. Expected(i, items) = Normal(items[l].segment)
    BY <1>7 DEF Expected, Normal
  <2>. HIDE DEF l
  <2>5. LastAbout(items, i, n, l) /\ l \in 1..n
    BY <1>1, <2>1, <2>3 DEF Mentions, LastAbout
  <2>6. i \in BatchIds => Given(items)[i] = Normal(items[l].segment)
    BY <1>2, <2>5
  <2>7. Normal(items[l].segment) \in Segments
    BY <1>4 DEF Normal
  <2>. QED
    BY <1>3, <1>4, <1>5, <2>4, <2>6, <2>7
<1>. QED
  BY <1>6, <1>7

-----------------------------------------------------------------------------
(***************************************************************************)
(* Each batch is classified by its own answer.                             *)
(***************************************************************************)
LEMMA Division ==
  ASSUME NEW a \in Nat, NEW b \in Nat \ {0}
  PROVE  /\ a \div b \in Nat /\ a % b \in 0..(b - 1)
         /\ a = b * (a \div b) + (a % b)
OBVIOUS

LEMMA Multiples ==
  ASSUME NEW m \in Nat, NEW k \in Nat, NEW b \in Nat, m <= k
  PROVE  m * b <= k * b /\ m * b \in Nat /\ k * b \in Nat
OBVIOUS

LEMMA OneMore ==
  ASSUME NEW k \in Nat, NEW b \in Nat
  PROVE  (k + 1) * b = k * b + b /\ k * b \in Nat /\ b * k = k * b
OBVIOUS

\* Product n is in batch k + 1, and in one of the first k if it comes before.
LEMMA BatchOf ==
  ASSUME NEW k \in Nat, NEW b \in Nat \ {0}, NEW n \in Nat \ {0}
  PROVE  /\ n < k * b + 1 => (n - 1) \div b \in 0..(k - 1)
         /\ k * b + 1 <= n /\ n < k * b + 1 + b => (n - 1) \div b = k
<1>. DEFINE a == n - 1
            q == a \div b
            r == a % b
<1>0. a \in Nat
  OBVIOUS
<1>. HIDE DEF a
<1>1. q \in Nat /\ r \in 0..(b - 1) /\ a = b * q + r /\ a \in Nat
  BY <1>0, Division
<1>. HIDE DEF q, r
<1>2. b * q = q * b /\ (q + 1) * b = q * b + b /\ q * b \in Nat
      /\ (k + 1) * b = k * b + b /\ k * b \in Nat
  BY <1>1, OneMore
<1>3. q > k => (k + 1) * b <= q * b
  BY <1>1, Multiples
<1>4. q >= k => k * b <= q * b
  BY <1>1, Multiples
<1>5. q < k => (q + 1) * b <= k * b
  BY <1>1, Multiples
<1>. USE DEF a
<1>6. ASSUME n < k * b + 1 PROVE q \in 0..(k - 1)
  BY <1>1, <1>2, <1>4, <1>6
<1>7. ASSUME k * b + 1 <= n, n < k * b + 1 + b PROVE q = k
  <2>1. ~(q > k)
    BY <1>1, <1>2, <1>3, <1>7
  <2>2. ~(q < k)
    BY <1>1, <1>2, <1>5, <1>7
  <2>. QED
    BY <1>1, <2>1, <2>2
<1>. QED
  BY <1>6, <1>7 DEF q

\* Where the loop over the batches stands.
LoopInv ==
  /\ mockLlm \in MockModes
  /\ Len(products) <= MaxProducts
  /\ next \in Nat \ {0} /\ next <= MaxProducts + BatchSize
  /\ answers \in Seq(Seq(Item))
  /\ segments \in [Ids -> Segments \cup {None}]
  /\ pc = "classify" => ~mockLlm /\ next <= Len(products)
  /\ ~mockLlm => /\ next = Len(answers) * BatchSize + 1
                 /\ pc \in {"build", "done"} => Len(products) < next

\* The products of the batches so far are in the segments that they were given.
ClassifiedInv ==
  ~mockLlm => \A n \in DOMAIN products : n < next =>
    segments[products[n].id] =
      Expected(products[n].id, answers[((n - 1) \div BatchSize) + 1])

LEMMA ProductIds ==
  ASSUME ProductsOK, NEW n \in DOMAIN products
  PROVE  n \in Nat \ {0} /\ n <= Len(products) /\ products[n].id \in Ids
<1>1. DOMAIN products = 1..Len(products) /\ products[n] \in Product
      /\ Len(products) \in Nat
  BY DEF ProductsOK
<1>2. \A p \in Product : p.id \in Ids
  BY DEF Product
<1>. QED
  BY <1>1, <1>2

LEMMA LoopInit == Init => LoopInv /\ ClassifiedInv
<1>. SUFFICES ASSUME Init PROVE LoopInv /\ ClassifiedInv
  OBVIOUS
<1>0. ProductsOK
  BY EnrichmentInit DEF EnrichmentInv
<1>1. PICK n \in 0..MaxProducts : products \in [1..n -> Product]
  BY DEF Init, Catalogs, SeqsUpTo
<1>2. Len(products) = n
  BY <1>1, EnrichmentAssumption
<1>3. next = 1 /\ answers = <<>> /\ Len(answers) * BatchSize + 1 = 1
  BY EnrichmentAssumption DEF Init
<1>4. segments \in [Ids -> Segments \cup {None}]
  <2>1. \A p : MockSegment(p) \in Segments
    BY DEF MockSegment, Segments
  <2>. QED
    BY <2>1 DEF Init
<1>5. pc = "classify" => ~mockLlm /\ next <= Len(products)
  <2>1. products # <<>> => n # 0
    BY <1>1
  <2>. QED
    BY <1>2, <1>3, <2>1 DEF Init
<1>6. ~mockLlm => (pc \in {"build", "done"} => Len(products) < next)
  BY <1>3 DEF Init
<1>7. \A k \in DOMAIN products : ~(k < next)
  BY <1>0, <1>3, ProductIds
<1>8. LoopInv
  BY <1>2, <1>3, <1>4, <1>5, <1>6, EnrichmentAssumption DEF Init, LoopInv
<1>. QED
  BY <1>7, <1>8 DEF ClassifiedInv

\* One turn of the loop: the answer classifies the products of its batch and
\* no other.
LEMMA BatchClassified ==
  ASSUME ProductsOK, LoopInv, ClassifiedInv, pc = "classify", Advance,
         UNCHANGED mockLlm, NEW items \in Seq(Item), answers' = Append(answers, items),
         segments' \in [Ids -> Segments \cup {None}],
         \A i \in Ids : segments'[i] = IF i \in BatchIds THEN Expected(i, items)
                                                        ELSE segments[i]
  PROVE  LoopInv' /\ ClassifiedInv'
<1>. DEFINE k == Len(answers)
<1>1. /\ BatchSize \in Nat \ {0} /\ MaxProducts \in Nat
      /\ answers \in Seq(Seq(Item)) /\ k \in Nat
      /\ ~mockLlm /\ next = k * BatchSize + 1 /\ k * BatchSize \in Nat
      /\ Len(products) \in Nat /\ next <= Len(products)
      /\ Len(products) <= MaxProducts
  BY EnrichmentAssumption, OneMore DEF LoopInv, ProductsOK
<1>2. /\ answers' \in Seq(Seq(Item)) /\ Len(answers') = k + 1
      /\ \A m \in 1..k : answers'[m] = answers[m]
      /\ answers'[k + 1] = items
  BY <1>1
<1>3. /\ next' = next + BatchSize /\ products' = products /\ mockLlm' = mockLlm
      /\ pc' = IF next' > Len(products) THEN "build" ELSE "classify"
  BY DEF Advance
<1>4. next' = Len(answers') * BatchSize + 1
  BY <1>1, <1>2, <1>3, OneMore
<1>5. /\ next' \in Nat \ {0} /\ next' <= MaxProducts + BatchSize
      /\ pc' = "classify" => next' <= Len(products)
      /\ pc' \in {"build", "done"} => Len(products) < next'
  BY <1>1, <1>3
<1>6. LoopInv'
  BY <1>1, <1>2, <1>3, <1>4, <1>5 DEF LoopInv
<1>7. ASSUME NEW n \in DOMAIN products, n < next'
      PROVE  segments'[products[n].id] =
               Expected(products[n].id, answers'[((n - 1) \div BatchSize) + 1])
  <2>1. n \in Nat \ {0} /\ n <= Len(products) /\ products[n].id \in Ids
    BY ProductIds
  <2>2. CASE n < next
    <3>1. (n - 1) \div BatchSize \in 0..(k - 1)
      BY <1>1, <2>1, <2>2, BatchOf
    <3>2. answers'[((n - 1) \div BatchSize) + 1] = answers[((n - 1) \div BatchSize) + 1]
      BY <1>1, <1>2, <3>1
    <3>3. products[n].id \notin BatchIds
      <4>1. \A m \in Batch : m \in DOMAIN products /\ next <= m /\ m \in Nat
        BY ProductIds DEF Batch
      <4>2. n \notin Batch
        BY <1>1, <2>1, <2>2, <4>1
      <4>. QED
        BY <4>1, <4>2 DEF BatchIds, ProductsOK
    <3>. QED
      BY <1>1, <2>1, <2>2, <3>2, <3>3 DEF ClassifiedInv
  <2>3. CASE next <= n
    <3>1. (n - 1) \div BatchSize = k
      BY <1>1, <1>3, <1>7, <2>1, <2>3, BatchOf
    <3>2. products[n].id \in BatchIds
      BY <1>3, <1>7, <2>3 DEF BatchIds, Batch
    <3>. QED
      BY <1>2, <2>1, <3>1, <3>2
  <2>4. n < next \/ next <= n
    BY <2>1 DEF LoopInv
  <2>. QED
    BY <2>2, <2>3, <2>4
<1>. QED
  BY <1>3, <1>6, <1>7 DEF ClassifiedInv

LEMMA LoopNext ==
  ASSUME ProductsOK, LoopInv, ClassifiedInv, [Next]_vars
  PROVE  LoopInv' /\ ClassifiedInv'
<1>0. segments \in [Ids -> Segments \cup {None}] /\ None \notin Segments
      /\ "standard" \in Segments
  BY EnrichmentAssumption DEF LoopInv, Segments
<1>1. CASE BatchAnswered /\ UNCHANGED mockLlm
  <2>1. PICK items \in SeqsUpTo(MaxItems, Item) :
          /\ segments' = Updated(Parsed(items))
          /\ answers' = Append(answers, items)
    BY <1>1 DEF BatchAnswered
  <2>2. items \in Seq(Item)
    BY EnrichmentAssumption DEF SeqsUpTo
  <2>3. \A i \in Ids : /\ Parsed(items)[i] \in Segments \cup {None}
                       /\ i \notin BatchIds => Parsed(items)[i] = None
                       /\ i \in BatchIds => Parsed(items)[i] = Expected(i, items)
                       /\ Expected(i, items) \in Segments
    BY <2>2, ParsedSays
  <2>4. /\ segments' \in [Ids -> Segments \cup {None}]
        /\ \A i \in Ids : segments'[i] = IF i \in BatchIds THEN Expected(i, items)
                                                          ELSE segments[i]
    BY <1>0, <2>1, <2>3 DEF Updated
  <2>. QED
    BY <1>1, <2>1, <2>2, <2>4, BatchClassified DEF BatchAnswered
<1>2. CASE BatchFailed /\ UNCHANGED mockLlm
  <2>1. \A i \in Ids : Expected(i, <<>>) = "standard"
    BY DEF Expected, Mentions
  <2>2. segments' = Updated([i \in Ids |-> IF i \in BatchIds THEN "standard"
                                                             ELSE None])
    BY <1>2 DEF BatchFailed
  <2>3. /\ segments' \in [Ids -> Segments \cup {None}]
        /\ \A i \in Ids : segments'[i] = IF i \in BatchIds THEN Expected(i, <<>>)
                                                          ELSE segments[i]
    BY <1>0, <2>1, <2>2 DEF Updated
  <2>4. <<>> \in Seq(Item) /\ answers' = Append(answers, <<>>)
    BY <1>2 DEF BatchFailed
  <2>. QED
    BY <1>2, <2>3, <2>4, BatchClassified DEF BatchFailed
<1>3. CASE UNCHANGED <<mockLlm, products, next, segments, answers>>
           /\ (pc' = pc \/ (pc = "build" /\ pc' = "done"))
  <2>1. LoopInv'
    BY <1>3 DEF LoopInv
  <2>2. ClassifiedInv'
    BY <1>3 DEF ClassifiedInv
  <2>. QED
    BY <2>1, <2>2
<1>. QED
  <2>1. BuildTasks => /\ UNCHANGED <<products, next, segments, answers>>
                      /\ pc = "build" /\ pc' = "done"
    BY DEF BuildTasks
  <2>2. CASE BuildTasks /\ UNCHANGED mockLlm
    BY <1>3, <2>1, <2>2
  <2>3. CASE UNCHANGED vars
    BY <2>3 DEF vars, LoopInv, ClassifiedInv
  <2>. QED
    BY <1>1, <1>2, <2>2, <2>3 DEF Next

LEMMA LoopClassifies ==
  ASSUME ProductsOK, LoopInv, ClassifiedInv
  PROVE  BatchesAreIndependent
<1>. SUFFICES ASSUME pc = "done", ~mockLlm, NEW n \in DOMAIN products
              PROVE  SegmentOf(products[n]) =
                       Expected(products[n].id,
                                answers[((n - 1) \div BatchSize) + 1])
  BY DEF BatchesAreIndependent
<1>1. /\ n \in Nat \ {0} /\ products[n].id \in Ids /\ n < next
  BY ProductIds DEF LoopInv, ProductsOK
<1>2. segments[products[n].id] =
        Expected(products[n].id, answers[((n - 1) \div BatchSize) + 1])
  BY <1>1 DEF ClassifiedInv
<1>3. answers[((n - 1) \div BatchSize) + 1] \in Seq(Item)
  <2>1. /\ Len(answers) \in Nat /\ BatchSize \in Nat \ {0}
        /\ n < Len(answers) * BatchSize + 1 /\ answers \in Seq(Seq(Item))
    BY <1>1, EnrichmentAssumption DEF LoopInv
  <2>2. (n - 1) \div BatchSize \in 0..(Len(answers) - 1)
    BY <1>1, <2>1, BatchOf
  <2>. QED
    BY <2>1, <2>2
<1>4. Expected(products[n].id, answers[((n - 1) \div BatchSize) + 1]) \in Segments
  BY <1>1, <1>3, ParsedSays
<1>5. None \notin Segments
  BY EnrichmentAssumption
<1>. QED
  BY <1>2, <1>4, <1>5 DEF SegmentOf

\* "Soft-fail batch", for batches of any size and answers of any length: a
\* product is in the segment that the last item about it in the answer to its
\* own batch names, and standard when there is none, whatever the other
\* batches answered or failed to.
THEOREM BatchesStayIndependent == Spec => []BatchesAreIndependent
<1>1. EnrichmentInv /\ LoopInv /\ ClassifiedInv /\ [Next]_vars
        => EnrichmentInv' /\ LoopInv' /\ ClassifiedInv'
  BY EnrichmentNext, LoopNext DEF EnrichmentInv
<1>2. EnrichmentInv /\ LoopInv /\ ClassifiedInv => BatchesAreIndependent
  BY LoopClassifies DEF EnrichmentInv
<1>. QED
  BY <1>1, <1>2, EnrichmentInit, LoopInit, PTL DEF Spec

-----------------------------------------------------------------------------
(***************************************************************************)
(* Types, for catalogs of any size.                                        *)
(***************************************************************************)
Task == [segment : {"premium", "economy"}, list : Seq(Product)]

LEMMA TasksTyped ==
  ASSUME EnrichmentInv, tasks \in Seq(Task), [Next]_vars
  PROVE  tasks' \in Seq(Task)
<1>1. CASE BuildTasks
  <2>. DEFINE P == [segment |-> "premium", list |-> TopPremium]
              E == [segment |-> "economy", list |-> TopEconomy]
  <2>1. P \in Task /\ E \in Task
    BY PremiumExtremes, EconomyExtremes DEF Task, EnrichmentInv
  <2>2. tasks' = (IF TopPremium = <<>> THEN <<>> ELSE <<P>>)
                 \o (IF TopEconomy = <<>> THEN <<>> ELSE <<E>>)
    BY <1>1 DEF BuildTasks
  <2>. HIDE DEF P, E
  <2>. QED
    BY <2>1, <2>2
<1>2. CASE UNCHANGED tasks
  BY <1>2
<1>. QED
  BY <1>1, <1>2 DEF Next, BatchAnswered, BatchFailed, Advance, vars

\* The index of the next batch passes the end of the products by less than a
\* batch, the segments are those the program knows whatever the model wrote,
\* and a task is of one of the two segments that have tasks.
THEOREM EnrichmentTypes == Spec => []TypeOK
<1>. DEFINE Inv == EnrichmentInv /\ LoopInv /\ ClassifiedInv /\ tasks \in Seq(Task)
<1>1. Init => Inv
  BY EnrichmentInit, LoopInit DEF Init
<1>2. Inv /\ [Next]_vars => Inv'
  BY EnrichmentNext, LoopNext, TasksTyped DEF EnrichmentInv
<1>3. Inv => TypeOK
  <2>. SUFFICES ASSUME Inv PROVE TypeOK
    OBVIOUS
  <2>1. next \in 1..(MaxProducts + BatchSize)
    BY EnrichmentAssumption DEF LoopInv
  <2>. QED
    BY <2>1 DEF EnrichmentInv, ProductsOK, LoopInv, Task, TypeOK
<1>. QED
  BY <1>1, <1>2, <1>3, PTL DEF Spec
=============================================================================
