---------------------------- MODULE OzonCollector ---------------------------
(***************************************************************************)
(* OzonCatalogCollector.collect over OzonHttpClient: page after page of a  *)
(* category until enough products are found or a page has none.  A page is *)
(* fetched by attempts that go round the proxies; each proxy has a client, *)
(* a browser fingerprint and a warm-up request of its own, which a block   *)
(* or a transport error drops.  A collector lives for one collect.         *)
(***************************************************************************)
EXTENDS Integers, Sequences, SequencesExt

CONSTANTS
  Skus,         \* products that the category may list
  Priced,       \* those whose price text has digits
  Listings,     \* categories that are tried: sequences of Skus
  Targets,      \* collection targets that are tried
  SitePage,     \* products on a page of the site
  PageSize,     \* OZON_PAGE_SIZE
  Proxies,      \* OZON_PROXY_LIST in order; <<Direct>> when it is empty
  Profiles,     \* browser profiles to pick a fingerprint from
  MaxRetries,   \* HTTP_MAX_RETRIES
  Warmup,       \* OZON_WARMUP_SESSION
  PastTheEnd,   \* what the site may answer past the last page, see Endings
  Faults,       \* how an attempt can go wrong, see AllFaults
  Moves,        \* TRUE: the site reorders the category meanwhile
  None

Sessions == {Proxies[i] : i \in DOMAIN Proxies}

Endings == {"no widgets", "no tiles"}
AllFaults == {"blocked", "transport", "empty", "malformed", "quota"}

ASSUME CatalogAssumption ==
  /\ Priced \subseteq Skus
  /\ Listings \subseteq Seq(Skus)
  /\ Targets \subseteq Nat
  /\ SitePage \in Nat \ {0} /\ PageSize \in Nat \ {0}

ASSUME ClientAssumption ==
  /\ MaxRetries \in Nat \ {0} /\ Warmup \in BOOLEAN
  /\ Proxies \in Seq(Sessions) /\ Proxies # <<>>
  /\ None \notin Profiles \cup {"anti-bot", "malformed"}

ASSUME SiteAssumption ==
  PastTheEnd \subseteq Endings /\ Faults \subseteq AllFaults /\ Moves \in BOOLEAN

VARIABLES
  category,     \* the site's products, in the order it lists them
  pc,
  target, page, products, error,        \* collect; degraded is error # None
  attempt, proxyIndex,                  \* get_composer_json
  clients,      \* clients[s]: the fingerprint that warmed s's client up, ...
  warmed,       \* _warmed_proxies
  fingerprints, \* _fingerprints
  tried,        \* history: attempts for this page by position in Proxies
  moved         \* history: the site has reordered the category

collectVars == <<target, page, products, error>>
sessionVars == <<clients, warmed, fingerprints>>
vars ==
  <<category, pc, collectVars, attempt, proxyIndex, sessionVars, tried, moved>>

\* ... or that it is new, and has no cookies of the site.
Cold == "cold"

\* max_retries for every proxy.
Attempts == MaxRetries * Len(Proxies)

Collected == {products[i] : i \in DOMAIN products}

TypeOK ==
  /\ category \in Seq(Skus)
  /\ pc \in {"attempt", "request", "batch", "done", "raised"}
  /\ target \in Targets
  /\ page \in Nat \ {0}
  /\ products \in Seq(Skus)
  /\ error \in {None, "anti-bot", "malformed"}
  /\ attempt \in 0..(Attempts - 1)
  /\ proxyIndex \in DOMAIN Proxies
  /\ clients \in [Sessions -> Profiles \cup {Cold, None}]
  /\ warmed \subseteq Sessions
  /\ fingerprints \in [Sessions -> Profiles \cup {None}]
  /\ tried \in [DOMAIN Proxies -> 0..MaxRetries]
  /\ moved \in BOOLEAN

NoSessions == [s \in Sessions |-> None]

Init ==
  /\ category \in Listings
  /\ target \in Targets
  /\ pc = IF target > 0 THEN "attempt" ELSE "done"
  /\ page = 1
  /\ products = <<>>
  /\ error = None
  /\ attempt = 0
  /\ proxyIndex = 1
  /\ clients = NoSessions /\ warmed = {} /\ fingerprints = NoSessions
  /\ tried = [i \in DOMAIN Proxies |-> 0]
  /\ moved = FALSE

-----------------------------------------------------------------------------
\* The session of the current attempt; attempts count from the last one of the
\* page before, so that a page does not always begin with the same proxy.
Session == Proxies[proxyIndex]

\* Mutant: the index runs past the list.
NextProxyUnwrapped ==
  /\ proxyIndex' = proxyIndex + 1
  /\ tried' = [tried EXCEPT ![proxyIndex] = @ + 1]

\* _next_proxy has been called when an attempt ends; the index is only used
\* modulo the number of proxies.
NextProxy ==
  /\ proxyIndex' = (proxyIndex % Len(Proxies)) + 1
  /\ tried' = [tried EXCEPT ![proxyIndex] = @ + 1]

\* Mutant: the new client is taken for the one that was warmed up.
DropClient ==
  /\ clients' = [clients EXCEPT ![Session] = None]
  /\ fingerprints' = [fingerprints EXCEPT ![Session] = None]
  /\ UNCHANGED warmed

DropSession ==
  /\ clients' = [clients EXCEPT ![Session] = None]
  /\ warmed' = warmed \ {Session}
  /\ fingerprints' = [fingerprints EXCEPT ![Session] = None]

\* close, in the finally of collect.
CloseSessions ==
  clients' = NoSessions /\ warmed' = {} /\ fingerprints' = NoSessions

\* ProxyQuotaExhaustedError leaves collect and fails the run.
Raise ==
  /\ pc' = "raised"
  /\ CloseSessions
  /\ UNCHANGED <<collectVars, attempt>>

\* Any other exception of _fetch_page: what was collected is the result.
Degrade(message) ==
  /\ error' = message
  /\ pc' = "done"
  /\ CloseSessions
  /\ UNCHANGED <<target, page, products, attempt>>

\* Mutant: max_retries attempts in all.
RetryFew ==
  IF attempt + 1 < MaxRetries
    THEN /\ attempt' = attempt + 1
         /\ pc' = "attempt"
         /\ UNCHANGED collectVars
    ELSE Degrade("anti-bot")

\* The next attempt of get_composer_json; after the last one it raises
\* OzonAntiBotError.
Retry ==
  IF attempt + 1 < Attempts
    THEN /\ attempt' = attempt + 1
         /\ pc' = "attempt"
         /\ UNCHANGED collectVars
    ELSE Degrade("anti-bot")

MoreAttempts == attempt + 1 < Attempts

\* The fingerprint of the session, a client, and the warm-up request, whose
\* status does not matter.
OpenSession ==
  /\ pc = "attempt"
  /\ \E f \in IF fingerprints[Session] = None THEN Profiles
                                              ELSE {fingerprints[Session]} :
       /\ fingerprints' = [fingerprints EXCEPT ![Session] = f]
       /\ IF Warmup /\ Session \notin warmed
            THEN /\ clients' = [clients EXCEPT ![Session] = f]
                 /\ warmed' = warmed \cup {Session}
            ELSE /\ clients' = [clients EXCEPT
                                  ![Session] = IF @ = None THEN Cold ELSE @]
                 /\ UNCHANGED warmed
  /\ pc' = "request"
  /\ UNCHANGED <<collectVars, attempt, proxyIndex, tried>>

\* What the site lists on the page, and what _fetch_page makes of it: the
\* products whose price parses, cut to PageSize.
Lesser(n, m) == IF n < m THEN n ELSE m
OnSite ==
  SubSeq(category, Lesser((page - 1) * SitePage, Len(category)) + 1,
         Lesser(page * SitePage, Len(category)))
Batch ==
  LET parsed == FoldLeft(LAMBDA got, p : IF p \in Priced THEN Append(got, p)
                                                         ELSE got, <<>>, OnSite)
  IN SubSeq(parsed, 1, Lesser(PageSize, Len(parsed)))

\* A payload with widgets; past the end they may hold no tile.
Fetched ==
  /\ pc = "request"
  /\ OnSite # <<>> \/ "no tiles" \in PastTheEnd
  /\ NextProxy
  /\ pc' = "batch"
  /\ UNCHANGED <<collectVars, attempt, sessionVars>>

\* A payload without widgets is retried in the same sessions.
FetchedEmpty ==
  /\ pc = "request"
  /\ \/ "empty" \in Faults
     \/ OnSite = <<>> /\ "no widgets" \in PastTheEnd
  /\ NextProxy
  /\ Retry
  /\ MoreAttempts => UNCHANGED sessionVars

\* HTTP 403, 429 or another error status of the request, or no answer to it
\* or to the warm-up: the session is dropped.
Blocked ==
  /\ pc = "request"
  /\ Faults \cap {"blocked", "transport"} # {}
  /\ NextProxy
  /\ Retry
  /\ MoreAttempts => DropSession

\* A body that is no JSON object.
Malformed ==
  /\ pc = "request"
  /\ "malformed" \in Faults
  /\ NextProxy
  /\ Degrade("malformed")

\* HTTP 402 or 407, or a transport error that speaks of traffic or balance.
QuotaExhausted ==
  /\ pc = "request"
  /\ "quota" \in Faults
  /\ NextProxy
  /\ Raise

\* The products after a batch: those with a new id, until there are enough.
With(batch) ==
  FoldLeft(LAMBDA have, p : IF \/ Len(have) >= target
                               \/ \E i \in DOMAIN have : have[i] = p
                              THEN have ELSE Append(have, p), products, batch)

\* Mutant: a page whose products are all known ends the category.
EndAtKnownPage ==
  /\ pc = "batch"
  /\ products' = With(Batch)
  /\ IF products' = products \/ Len(products') >= target
       THEN /\ pc' = "done"
            /\ CloseSessions
            /\ UNCHANGED <<page, attempt, tried>>
       ELSE /\ pc' = "attempt"
            /\ page' = page + 1
            /\ attempt' = 0
            /\ tried' = [i \in DOMAIN Proxies |-> 0]
            /\ UNCHANGED sessionVars
  /\ UNCHANGED <<target, error, proxyIndex>>

\* Mutant: the page number stays.
AddBatchOfSamePage ==
  /\ pc = "batch"
  /\ products' = With(Batch)
  /\ IF Batch = <<>> \/ Len(products') >= target
       THEN /\ pc' = "done"
            /\ CloseSessions
            /\ UNCHANGED <<attempt, tried>>
       ELSE /\ pc' = "attempt"
            /\ attempt' = 0
            /\ tried' = [i \in DOMAIN Proxies |-> 0]
            /\ UNCHANGED sessionVars
  /\ UNCHANGED <<target, page, error, proxyIndex>>

\* An empty batch ends the category; otherwise its new products are added,
\* and the next page is fetched while there are too few.
AddBatch ==
  /\ pc = "batch"
  /\ products' = With(Batch)
  /\ IF Batch = <<>> \/ Len(products') >= target
       THEN /\ pc' = "done"
            /\ CloseSessions
            /\ UNCHANGED <<page, attempt, tried>>
       ELSE /\ pc' = "attempt"
            /\ page' = page + 1
            /\ attempt' = 0
            /\ tried' = [i \in DOMAIN Proxies |-> 0]
            /\ UNCHANGED sessionVars
  /\ UNCHANGED <<target, error, proxyIndex>>

\* The site moves a product to the front of the category between requests.
Reorder ==
  /\ Moves
  /\ pc \in {"attempt", "request"}
  /\ \E i \in DOMAIN category :
       category' = <<category[i]>> \o RemoveAt(category, i)
  /\ moved' = TRUE
  /\ UNCHANGED <<pc, collectVars, attempt, proxyIndex, sessionVars, tried>>

Collect ==
  /\ \/ OpenSession
     \/ Fetched \/ FetchedEmpty \/ Blocked \/ Malformed \/ QuotaExhausted
     \/ AddBatch
  /\ UNCHANGED <<category, moved>>

Next == Collect \/ Reorder

Spec == Init /\ [][Next]_vars

\* Requests have timeouts: the collector goes on.
FairSpec == Spec /\ WF_vars(Collect)

-----------------------------------------------------------------------------
\* A proxy that counts as warmed up has the very client and fingerprint that
\* the warm-up was made with: the three maps are dropped together.
SessionsAreConsistent ==
  \A s \in warmed : clients[s] # None /\ clients[s] = fingerprints[s]

\* Wherever the rotation stood when the page began, OzonAntiBotError means
\* that every proxy had all its attempts.
GivesUpFairly ==
  error = "anti-bot" => \A i \in DOMAIN Proxies : tried[i] = MaxRetries

\* A page of the site is no longer than what is taken of it, and has a product
\* whose price parses, if it has one at all.
PagesFit == SitePage <= PageSize
PagesSell ==
  \A l \in Listings : \A k \in 1..Len(l) :
    (k - 1) * SitePage < Len(l) =>
      \E i \in DOMAIN l : /\ (k - 1) * SitePage < i /\ i <= k * SitePage
                          /\ l[i] \in Priced

\* While the category stays as it is, a result that is "exhausted" holds every
\* priced product of it: with PagesFit and PagesSell, an empty batch is the end.
ExhaustedMeansAll ==
  ~moved /\ pc = "done" /\ error = None /\ Len(products) < target =>
    \A i \in DOMAIN category : category[i] \in Priced =>
                                 category[i] \in Collected

\* collect comes to an end, whatever is refused and however the site reorders.
CollectEnds == <>(pc \in {"done", "raised"})
=============================================================================
