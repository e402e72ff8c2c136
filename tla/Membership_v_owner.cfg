SPECIFICATION Spec
CONSTANTS
  u1 = u1
  u2 = u2
  u3 = u3
  Users = {u1, u2, u3}
  Founder = u1
  Confirmed = {u1, u2}
  Invites = {i1}
  LinkUses = 2
  Limit = 2
  Calls = {c1, c2}
  Nobody = Nobody
INVARIANT TeamKeepsOwner
