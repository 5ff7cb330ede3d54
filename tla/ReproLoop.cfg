SPECIFICATION FairSpec
CONSTANTS
  near = near  far = far  gone = gone  None = None
  Source = {near, far, gone}
  Repo = {near, far}
  MaxRounds = 3
  Evidence <- SomeEvidence
  Replays <- SomeReplays
CHECK_DEADLOCK FALSE
INVARIANTS ReproducedTwice
PROPERTIES Decides IsATrial
