SPECIFICATION FairOnboardSpec
CONSTANTS
  Event = {"first", "second", "third"}
  Nobody = Nobody
  MaxRevisions = 1
  ByHand = TRUE
  MaxRestarts = 1
CHECK_DEADLOCK FALSE
INVARIANTS OnlyApproved WholeOrNothing
PROPERTIES EveryEventAnswered
