---------------------------- MODULE MCApiFront -----------------------------
(***************************************************************************)
(* Instances of ApiFront for TLC.                                          *)
(***************************************************************************)
EXTENDS ApiFront

Single(live, redis) ==
  [job_store |-> "sqlite", runner |-> "thread", redis_url |-> redis,
   broker_url |-> FALSE, crm_store |-> "file",
   mock_parser |-> ~live, proxy_list |-> TRUE, market_key |-> TRUE,
   api_key |-> live]

Scaled(redis) ==
  [job_store |-> "postgres", runner |-> "celery", redis_url |-> redis,
   broker_url |-> ~redis, crm_store |-> IF redis THEN "redis" ELSE "file",
   mock_parser |-> FALSE, proxy_list |-> redis, market_key |-> FALSE,
   api_key |-> TRUE]

\* With Redis for limits and keys only, and with a broker other than Redis,
\* next to the two deployments that the documentation describes.
FourDeployments ==
  {Single(TRUE, FALSE), Single(FALSE, TRUE), Scaled(TRUE), Scaled(FALSE)}

OneDeployment == {Single(FALSE, FALSE)}

Package(total, used, active) ==
  [total |-> total, used |-> used, is_active |-> active]

\* No package; a full one that is not active; an overdrawn one; two low ones
\* that together have the minimum of 2; a dry and a full one; a full one on the
\* second page.
SomeAccounts ==
  {<<>>, <<Package(2, 0, FALSE)>>, <<Package(2, 3, TRUE)>>,
   <<Package(2, 1, TRUE), Package(2, 1, TRUE)>>,
   <<Package(2, 2, TRUE), Package(2, 0, TRUE)>>,
   <<Package(2, 1, TRUE), Package(2, 2, TRUE), Package(2, 0, TRUE)>>}
=============================================================================
