SPECIFICATION Spec
CONSTANTS
  u1 = u1
  u2 = u2
  i1 = i1
  i2 = i2
  i3 = i3
  r1 = r1
  r2 = r2
  c1 = c1
  c2 = c2
  k1 = k1
  k2 = k2
  Nobody = Nobody
  Users = {u1, u2}
  Installations = {i1, i2, i3}
  OwnerOf <- PairOwners
  Listens <- Paired
  Runs = {r1, r2}
  InstallationOf <- AdapterRuns
  Linked = {}
  Handoffs = {h1, h2, h3}
  Trees <- OneTree
  Senders = {i1, i3}
  Keys = {k1, k2}
  Requests <- FromRun
  Actions = {}
  Revocable = {i2}
  Cap = 2
  Lease = 1
  MaxCalls = 2
SYMMETRY HandoffSymmetry
INVARIANTS OncePerRequest HandedOffOnce ChargedForEach
