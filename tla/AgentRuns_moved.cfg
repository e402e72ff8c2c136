SPECIFICATION Spec
CONSTANTS
  r1 = r1
  r2 = r2
  i1 = i1
  i2 = i2
  dir = dir
  file = file
  other = other
  Runs <- TwoRuns
  Installations = {i1}
  InstallationOf <- Shared
  TokenBound = {}
  Revocable = {}
  Assigned = {r1}
  Siblings = {}
  Ground <- TwoGround
  Files <- TwoGround
  Overlaps <- TwoOverlaps
  Scopes <- BothScope
  Observable <- OnlyFile
  Voices <- AgentAndHook
  Reported = {"active"}
  Outcomes = {"completed"}
  ClaimLease = 2
  WaitingLease = 2
  StaleAfter = 1
  ScopeCap = 3
  SlowFinish = TRUE
  MaxTime = 3
CHECK_DEADLOCK FALSE
INVARIANTS MovedGroundIsTold ReleasedStaysReleased
