SPECIFICATION Spec
CONSTANTS
  Configs <- Deployments
  MaxRuns = 2
  MaxUpstream = 1
  MaxRounds = 1
  MaxRetries = 2
INVARIANTS ShippedIsVerified LocalPrIsOwn PrCarriesWork StuckRunsTold
PROPERTIES LiveRunsEnd
