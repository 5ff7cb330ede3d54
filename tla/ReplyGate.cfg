SPECIFICATION Spec
CONSTANTS
  p1 = p1  p2 = p2  i1 = i1
  Nobody = Nobody  NoMail = NoMail  NoIssue = NoIssue  NoApproval = NoApproval
  Pipe = {p1, p2}
  Issue = {i1}
  IssueOf <- SameIssue
  Addr <- CutAddr
  Encode <- Cut
  Reencode <- Stable
  HasGate = TRUE
  MaxReplies = 1
  MaxAgain = 1
  MaxRestarts = 1
  MaxAge = 1
CHECK_DEADLOCK FALSE
CONSTRAINT TwoReplies
SYMMETRY PipeSymmetry
INVARIANTS OpenedOnWord ApprovalIsLastWord
