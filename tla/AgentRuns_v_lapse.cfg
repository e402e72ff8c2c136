SPECIFICATION Spec
CONSTANTS
  r1 = r1
  r2 = r2
  i1 = i1
  i2 = i2
  dir = dir
  file = file
  other = other
  Runs <- TwoRuns
  Installations = {i1}
  InstallationOf <- Shared
  TokenBound = {}
  Revocable = {}
  Assigned = {}
  Siblings = {}
  Ground <- DirGround
  Files = {file}
  Overlaps <- DirOverlaps
  Scopes <- DirScopes
  Observable <- OnlyFile
  Voices <- AgentAndHook
  Reported = {"active", "waiting"}
  Outcomes = {"completed"}
  ClaimLease = 1
  WaitingLease = 2
  StaleAfter = 0
  ScopeCap = 3
  SlowFinish = FALSE
  MaxTime = 3
CHECK_DEADLOCK FALSE
SYMMETRY RunSymmetry
INVARIANT ScopeOutlivesHeartbeat
