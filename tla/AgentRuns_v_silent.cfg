SPECIFICATION Spec
CONSTANTS
  r1 = r1
  r2 = r2
  i1 = i1
  i2 = i2
  dir = dir
  file = file
  other = other
  Runs <- TwoRuns
  Installations = {i1}
  InstallationOf <- Shared
  TokenBound = {}
  Revocable = {}
  Assigned = {}
  Siblings = {}
  Ground <- TwoGround
  Files <- TwoGround
  Overlaps <- TwoOverlaps
  Scopes <- TwoScopes
  Observable <- OnlyFile
  Voices <- AgentOnly
  Reported = {"active"}
  Outcomes = {"completed"}
  ClaimLease = 4
  WaitingLease = 4
  StaleAfter = 0
  ScopeCap = 3
  SlowFinish = FALSE
  MaxTime = 4
CHECK_DEADLOCK FALSE
SYMMETRY RunSymmetry
INVARIANT EveryMoveIsTold
