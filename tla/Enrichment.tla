----------------------------- MODULE Enrichment -----------------------------
(***************************************************************************)
(* What happens to the collected products of a run before the CRM is       *)
(* called: OpenAiSegmentClassifier.classify asks a language model batch by *)
(* batch, and ProductSelectionService and CrmTaskFactory pick the products *)
(* of at most two tasks.                                                   *)
(***************************************************************************)
EXTENDS Integers, Sequences, FiniteSets, SequencesExt

CONSTANTS
  Ids,          \* product ids
  Prices,       \* natural numbers
  Names,        \* what names say to the mock, see AllNames
  MaxProducts,  \* length of the product lists that are tried
  MaxItems,     \* length of the model's answers that are tried
  BatchSize,    \* LLM_BATCH_SIZE
  Limit,        \* products of a task
  MockModes,    \* values of MOCK_LLM that are tried
  Cheap, Dear,  \* the price limits of the mock
  None

AllNames == {"budget", "flagship", "plain"}
Segments == {"economy", "standard", "premium"}

ASSUME EnrichmentAssumption ==
  /\ Names \subseteq AllNames
  /\ Prices \subseteq Nat
  /\ BatchSize \in Nat \ {0} /\ Limit \in Nat \ {0}
  /\ MaxProducts \in Nat /\ MaxItems \in Nat
  /\ Cheap \in Nat /\ Dear \in Nat /\ MockModes \subseteq BOOLEAN
  /\ None \notin Segments

Product == [id : Ids, price : Prices, name : Names]

\* Items of an answer: the id of any product, of another batch too, and any
\* text for a segment.
Item == [id : Ids, segment : Segments \cup {"other"}]

SeqsUpTo(n, S) == UNION {[1..m -> S] : m \in 0..n}

\* The collector never returns one id twice; only the mock looks at names.
Catalogs(mock) ==
  {c \in SeqsUpTo(MaxProducts,
                  {p \in Product : mock \/ p.name = "plain"}) :
     \A i, j \in DOMAIN c : c[i].id = c[j].id => i = j}

VARIABLES
  mockLlm,      \* MOCK_LLM of this run
  products,     \* CollectionResult.products
  pc,
  next,         \* index of the first product of the next batch
  segments,     \* the segments that the batches gave, by id
  answers,      \* history: the answer to each batch, <<>> if it failed
  tasks         \* the product lists of the CRM tasks, in order

vars == <<mockLlm, products, pc, next, segments, answers, tasks>>

TypeOK ==
  /\ mockLlm \in MockModes
  /\ products \in Seq(Product)
  /\ pc \in {"classify", "build", "done"}
  /\ next \in 1..(MaxProducts + BatchSize)
  /\ segments \in [Ids -> Segments \cup {None}]
  /\ answers \in Seq(Seq(Item))
  /\ tasks \in Seq([segment : {"premium", "economy"}, list : Seq(Product)])

\* _mock_classify: the name decides before the price.
MockSegment(p) ==
  CASE p.name = "budget" -> "economy"
    [] p.name = "flagship" -> "premium"
    [] p.name = "plain" /\ p.price < Cheap -> "economy"
    [] p.name = "plain" /\ p.price >= Cheap /\ p.price > Dear -> "premium"
    [] OTHER -> "standard"

ById(i) == CHOOSE p \in {products[n] : n \in DOMAIN products} : p.id = i

Init ==
  /\ mockLlm \in MockModes
  /\ products \in Catalogs(mockLlm)
  /\ pc = IF mockLlm \/ products = <<>> THEN "build" ELSE "classify"
  /\ next = 1
  /\ segments = [i \in Ids |->
       IF mockLlm /\ \E n \in DOMAIN products : products[n].id = i
         THEN MockSegment(ById(i)) ELSE None]
  /\ answers = <<>>
  /\ tasks = <<>>

-----------------------------------------------------------------------------
\* _chunk: the products from next on, BatchSize of them or what is left.
Batch == {n \in DOMAIN products : next <= n /\ n < next + BatchSize}
BatchIds == {products[n].id : n \in Batch}

\* Mutant: a segment is taken as the model wrote it.
ParsedRaw(items) ==
  LET given == FoldLeft(LAMBDA got, item :
                 IF item.id \notin BatchIds THEN got
                 ELSE [got EXCEPT ![item.id] = item.segment],
                 [i \in Ids |-> None], items)
  IN [i \in Ids |-> IF i \in BatchIds /\ given[i] = None THEN "standard"
                                                         ELSE given[i]]

\* _parse_segments: items in order, a later one wins, unknown ids are passed
\* over, an unknown segment and a missing id count as standard.
Parsed(items) ==
  LET given == FoldLeft(LAMBDA got, item :
                 IF item.id \notin BatchIds THEN got
                 ELSE [got EXCEPT ![item.id] =
                         IF item.segment \in Segments THEN item.segment
                                                      ELSE "standard"],
                 [i \in Ids |-> None], items)
  IN [i \in Ids |-> IF i \in BatchIds /\ given[i] = None THEN "standard"
                                                         ELSE given[i]]

\* segments.update(...)
Updated(got) ==
  [i \in Ids |-> IF got[i] # None THEN got[i] ELSE segments[i]]

Advance ==
  /\ next' = next + BatchSize
  /\ pc' = IF next' > Len(products) THEN "build" ELSE "classify"
  /\ UNCHANGED <<products, tasks>>

\* The model answers with a list of items.
BatchAnswered ==
  /\ pc = "classify"
  /\ \E items \in SeqsUpTo(MaxItems, Item) :
       /\ segments' = Updated(Parsed(items))
       /\ answers' = Append(answers, items)
  /\ Advance

\* Mutant: a failed batch gives up on what was classified before.
BatchFailedForAll ==
  /\ pc = "classify"
  /\ segments' = [i \in Ids |-> "standard"]
  /\ answers' = Append(answers, <<>>)
  /\ Advance

\* The request fails for good, or its answer can not be parsed: the batch
\* falls back to standard, the run goes on.
BatchFailed ==
  /\ pc = "classify"
  /\ segments' = Updated([i \in Ids |-> IF i \in BatchIds THEN "standard"
                                                          ELSE None])
  /\ answers' = Append(answers, <<>>)
  /\ Advance

\* segments.get(product.id, STANDARD), of the products in their order.
SegmentOf(p) == IF segments[p.id] = None THEN "standard" ELSE segments[p.id]

\* The products at the positions S in the order given by before, cut to
\* Limit: the k-th is the one that has k - 1 others before it.
Firsts(S, before(_, _)) ==
  [k \in 1..(IF Cardinality(S) < Limit THEN Cardinality(S) ELSE Limit) |->
     products[CHOOSE i \in S : Cardinality({j \in S : before(j, i)}) = k - 1]]

Of(segment) == {i \in DOMAIN products : SegmentOf(products[i]) = segment}

\* sorted is stable, also with reverse=True: products that cost the same stay
\* in the order in which they were collected.
Dearer(i, j) == \/ products[i].price > products[j].price
                \/ products[i].price = products[j].price /\ i < j
Cheaper(i, j) == \/ products[i].price < products[j].price
                 \/ products[i].price = products[j].price /\ i < j

\* Mutant: the list is cut before it is sorted.
TopPremiumCutFirst ==
  LET cut == {i \in Of("premium") :
                Cardinality({j \in Of("premium") : j < i}) < Limit}
  IN Firsts(cut, Dearer)

TopPremium == Firsts(Of("premium"), Dearer)
TopEconomy == Firsts(Of("economy"), Cheaper)

\* build_tasks: the premium task first, no task without products.
BuildTasks ==
  /\ pc = "build"
  /\ pc' = "done"
  /\ tasks' =
       (IF TopPremium = <<>> THEN <<>>
          ELSE <<[segment |-> "premium", list |-> TopPremium]>>)
       \o (IF TopEconomy = <<>> THEN <<>>
             ELSE <<[segment |-> "economy", list |-> TopEconomy]>>)
  /\ UNCHANGED <<products, next, segments, answers>>

Next ==
  /\ BatchAnswered \/ BatchFailed \/ BuildTasks
  /\ UNCHANGED mockLlm

Spec == Init /\ [][Next]_vars

-----------------------------------------------------------------------------
\* The answer to a batch that counts for product i: the last item with its id.
Mentions(items, i) == {n \in DOMAIN items : items[n].id = i}
Expected(i, items) ==
  IF Mentions(items, i) = {} THEN "standard"
  ELSE LET said == items[CHOOSE n \in Mentions(items, i) :
                           \A m \in Mentions(items, i) : m <= n].segment
       IN IF said \in Segments THEN said ELSE "standard"

\* "Soft-fail batch": every product is in the segment that the answer to its
\* own batch gives it, whatever the other batches answered or failed to, and
\* standard when that answer is missing or makes no sense.
BatchesAreIndependent ==
  pc = "done" /\ ~mockLlm =>
    \A n \in DOMAIN products :
      SegmentOf(products[n]) =
        Expected(products[n].id, answers[((n - 1) \div BatchSize) + 1])

\* A task lists products of its segment only, none twice, in order of price,
\* and leaves one out only when it is full of products that are no worse.
TasksListTheExtremes ==
  pc = "done" =>
    /\ \A segment \in {"premium", "economy"} :
         (\E t \in DOMAIN tasks : tasks[t].segment = segment)
           <=> Of(segment) # {}
    /\ \A t \in DOMAIN tasks :
         LET list == tasks[t].list
             NoWorse(p, q) == IF tasks[t].segment = "premium"
                                THEN p.price >= q.price ELSE p.price <= q.price
             chosen == {list[k] : k \in DOMAIN list}
             all == {products[i] : i \in Of(tasks[t].segment)}
         IN /\ chosen \subseteq all /\ Cardinality(chosen) = Len(list)
            /\ \A k, l \in DOMAIN list : k < l => NoWorse(list[k], list[l])
            /\ \A p \in all \ chosen :
                 Len(list) = Limit /\ \A q \in chosen : NoWorse(q, p)
=============================================================================
