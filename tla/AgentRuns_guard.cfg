SPECIFICATION Spec
CONSTANTS
  r1 = r1
  r2 = r2
  i1 = i1
  i2 = i2
  dir = dir
  file = file
  other = other
  Runs <- TwoRuns
  Installations = {i1}
  InstallationOf <- Shared
  TokenBound = {i1}
  Revocable = {i1}
  Assigned = {}
  Siblings = {}
  Ground <- DirGround
  Files = {file}
  Overlaps <- DirOverlaps
  Scopes <- DirScopes
  Observable <- OnlyFile
  Voices <- AgentAndHook
  Reported = {"waiting"}
  Outcomes = {}
  ClaimLease = 1
  WaitingLease = 2
  StaleAfter = 0
  ScopeCap = 2
  SlowFinish = FALSE
  MaxTime = 2
CHECK_DEADLOCK FALSE
SYMMETRY RunSymmetry
INVARIANTS WriteExclusion AScopeOutlivesHeartbeat
PROPERTY EndedStaysEnded
