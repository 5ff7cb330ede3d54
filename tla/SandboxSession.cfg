SPECIFICATION FairSpec
CONSTANTS
  s1 = s1  p1 = p1  a = a  b = b
  Session = {s1}
  Slot = {a, b}
  Profiles <- AgentOrGate
  Pkg = {p1}
  NoRun = NoRun
  TicksPerSecond = 2
  AppearWait = 1
  RunWait = 1
  MaxRuns = 2
  MaxEdits = 1
  MaxTime = 3
CHECK_DEADLOCK FALSE
INVARIANTS OwnRun OwedIsKept
PROPERTIES CallsReturn
