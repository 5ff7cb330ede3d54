SPECIFICATION Spec
CONSTANTS
  fix = fix  side = side  a = a  b = b
  Slot = {a, b}
  Idle = Idle
  File = {fix, side}
  NoFile = NoFile
  Budget = 4
  Tool <- FixTools
  MaxTurns = 3
  Tests = {fix}
  New = {}
  InScope = {fix}
  Vetoed = {}
  Secret = {fix}
  ReproGreen <- FixRepairs
  TestsGreen <- SideBreaks
  Drivers = {"local", "gha"}
  MaxIterations = 2
  TokenRounds = 3
  MaxRepairs = 1
CHECK_DEADLOCK FALSE
CONSTRAINT Overlapping
INVARIANTS GreenIsCurrent NothingNewOutOfScope
PROPERTIES Decides NoIterationForFree
