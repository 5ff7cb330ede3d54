SPECIFICATION Spec
CONSTANTS
  Check = {"ruff", "ruff-format-test"}
  Linters <- MCLinters
  Blind = {"ruff-format-test"}
  Manual = {"ruff-format-test"}
  MaxHuman = 1
  MaxAmends = 1
INVARIANT EveryFailureTold
PROPERTIES FixedIsPushed HumanWorkKept WatchEnds
ACTION_CONSTRAINT OneKindInACrowd
CHECK_DEADLOCK FALSE
