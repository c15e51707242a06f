SPECIFICATION FairSpec
CONSTANTS
  None = None
  Deployments <- FourDeployments
  Accounts <- SomeAccounts
  Balances = {0, 1}
  PerPage = 2
  MinBytes = 2
  MinBalance = 0
  DeleteWhileUp = FALSE
INVARIANTS TypeOK ReadyIsServed RefusalLeavesNothing RefusedOnlyWithoutTraffic
PROPERTY Recovers
