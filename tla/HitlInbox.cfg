SPECIFICATION FairSpec
CONSTANTS
  e1 = e1  e2 = e2  a1 = a1  m1 = m1  m2 = m2
  g1 = g1  g2 = g2  r1 = r1  r2 = r2
  BlankMid = BlankMid  Nothing = Nothing  Admin = Admin
  Entry = {e1, e2}
  Attempt = {a1}
  AttemptOf <- OneAttempt
  Mid = {m1, m2}
  To <- BothToFirst
  Ingest = {g1, g2}
  Resumer = {r1, r2}
  MaxTimes <- FirstTwice
  MaxResumes <- ForceFirst
  MaxCrashes = 1
CHECK_DEADLOCK FALSE
INVARIANTS ResumeOnce HeardIsStored
PROPERTIES AsksOnce ReplyDecided
