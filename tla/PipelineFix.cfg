SPECIFICATION Spec
CONSTANTS
  Configs <- LocalWithMail
  MaxRuns = 1
  MaxUpstream = 1
  MaxRounds = 1
  MaxRetries = 2
INVARIANTS PrHasFix
