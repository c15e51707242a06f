---------------------------- MODULE ProxyQuota ----------------------------
(***************************************************************************)
(* ProxyMarketQuotaChecker.check_quota_available: what the pre-flight      *)
(* check concludes from proxy.market's list of traffic packages and from   *)
(* the balance of the account.                                             *)
(***************************************************************************)
EXTENDS Integers, Sequences, FiniteSetsExt

CONSTANTS
  PerPage,      \* _PACKAGES_PAGE_SIZE: only the first page is asked for
  MinBytes,     \* min_remaining_bytes
  MinBalance,   \* min_balance
  None          \* the balance, if its request failed or names no number

\* ProxyPackageQuota, of which the check reads these fields.
ProxyPackageQuota == [total : Int, used : Int, is_active : BOOLEAN]

-----------------------------------------------------------------------------
\* The packages of account that the one request lists.
Listed(account) == {i \in DOMAIN account : i <= PerPage}

Active(account) == {i \in Listed(account) : account[i].is_active}

\* remaining_bytes is never negative, however much of a package was used.
Remaining(package) ==
  IF package.used > package.total THEN 0 ELSE package.total - package.used

Depleted(account) ==
  {i \in Active(account) : Remaining(account[i]) < MinBytes}

\* Mutant: one depleted package is enough.
AnyDepleted(account) == Depleted(account) # {}

\* Refused after the first request: no active package, or every one depleted.
\* (Of an empty list, none is depleted, and all are.)
TrafficExhausted(account) == Depleted(account) = Active(account)

Prepaid(account) ==
  MapThenSumSet(LAMBDA i : Remaining(account[i]), Active(account))

\* Refused after the second one.
BalanceExhausted(account, balance) ==
  /\ balance # None
  /\ balance <= MinBalance
  /\ Prepaid(account) < MinBytes

=============================================================================
