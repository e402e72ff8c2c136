SPECIFICATION Spec
CONSTANTS
  r1 = r1
  r2 = r2
  i1 = i1
  i2 = i2
  dir = dir
  file = file
  other = other
  Runs <- TwoRuns
  Installations = {i1}
  InstallationOf <- Shared
  TokenBound = {}
  Revocable = {}
  Assigned = {}
  Siblings = {}
  Ground <- OneGround
  Files = {file}
  Overlaps <- OneOverlaps
  Scopes <- WriteScopes
  Observable <- OnlyFile
  Voices <- AgentAndHook
  Reported = {"active"}
  Outcomes = {"completed"}
  ClaimLease = 5
  WaitingLease = 5
  StaleAfter = 0
  ScopeCap = 3
  SlowFinish = FALSE
  MaxTime = 5
CHECK_DEADLOCK FALSE
SYMMETRY RunSymmetry
INVARIANT WriteExclusionAlways
