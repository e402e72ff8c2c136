SPECIFICATION Spec
CONSTANTS
  r1 = r1
  r2 = r2
  i1 = i1
  i2 = i2
  dir = dir
  file = file
  other = other
  Runs <- TwoRuns
  Installations = {i1}
  InstallationOf <- Shared
  TokenBound = {}
  Revocable = {i1}
  Assigned = {}
  Siblings = {}
  Ground <- OneGround
  Files = {file}
  Overlaps <- OneOverlaps
  Scopes <- OneScopes
  Observable <- OnlyFile
  Voices <- AgentOnly
  Reported = {"active", "waiting"}
  Outcomes = {"completed"}
  ClaimLease = 1
  WaitingLease = 2
  StaleAfter = 0
  ScopeCap = 3
  SlowFinish = FALSE
  MaxTime = 2
CHECK_DEADLOCK FALSE
SYMMETRY RunSymmetry
INVARIANT RevokedHoldsNothing
