SPECIFICATION FairSpec
CONSTANTS
  Calls = {q1}
  Nobody = Nobody
  MaxTokens = 3
  ApprovalTtl = 1
  CodeTtl = 1
  Grace = 2
  Patience = 1
  CallTime = 1
PROPERTY ReuseEndsInstallation
