SPECIFICATION Spec
CONSTANTS
  Calls = {q1, q2}
  Nobody = Nobody
  MaxTokens = 4
  ApprovalTtl = 2
  CodeTtl = 1
  Grace = 2
  Patience = 1
  CallTime = 1
SYMMETRY CallSymmetry
INVARIANTS OneIdentity RevokedMeansRevoked NothingOlderIsLive HonestClientGoesOn
