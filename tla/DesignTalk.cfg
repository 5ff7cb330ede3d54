SPECIFICATION TalkSpec
CONSTANTS
  Question = {q1, q2}
  Issue = {primary, i1, i2}
  Primary = primary
  MaxReplies = 2
  NoReply = NoReply
  NoState = NoState
INVARIANTS ClosedStaysClosed DesignHasDecisions ScopeAsWritten
PROPERTY TalkEnds
CHECK_DEADLOCK FALSE
