SPECIFICATION FairSpec
CONSTANTS
  i1 = i1  repoA = repoA  s1 = s1  p1 = p1  p2 = p2  idA = idA
  NoId = NoId  NoRun = NoRun  NoRecord = NoRecord
  Issue = {i1}
  Repo = {repoA}
  RepoOf <- OneRepoOf
  Slot = {s1}
  SafeKey <- OneSafeKey
  Proc = {p1, p2}
  InstanceId <- OneId
  RunId = {r1, r2}
  StaleAfter = 1
  PruneAfter = 1
  MaxTime = 2
  MaxLoading = 1
  MaxQueued = 2
  LiveDeps = TRUE
  Backends = {"file", "gist"}
  Overlap = TRUE
  GistFails = TRUE
CHECK_DEADLOCK FALSE
INVARIANTS ExclusiveUnlessOverdue NoLeakedClaim QuiescentDurable
PROPERTIES DeadClaimExpires
