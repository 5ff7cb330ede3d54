SPECIFICATION AgentSpec
CONSTANTS
  Agent = {"ANALYST", "FIX_INVESTIGATOR", "FIX_PLANNER"}
  Width = 2
  Total = 5
  Reserve = 2
  MaxSteps = 4
  MaxRoutes = 2
  ReadsNeeded = 1
CHECK_DEADLOCK FALSE
INVARIANTS BudgetHolds AbandonHeard
PROPERTIES NoTryForFree AgentEnds
