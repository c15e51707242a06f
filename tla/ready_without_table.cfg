SPECIFICATION Spec
CONSTANTS
  None = None
  Deployments <- OneDeployment
  Accounts <- SomeAccounts
  Balances = {0, 1}
  PerPage = 2
  MinBytes = 2
  MinBalance = 0
  DeleteWhileUp = TRUE
INVARIANT ReadyMeansTable
