SPECIFICATION Spec
CONSTANTS
  u1 = u1
  u2 = u2
  i1 = i1
  i2 = i2
  i3 = i3
  r1 = r1
  r2 = r2
  c1 = c1
  c2 = c2
  k1 = k1
  k2 = k2
  Nobody = Nobody
  Users = {u1, u2}
  Installations = {i1, i2, i3}
  OwnerOf <- Owners
  Listens <- NoListeners
  Runs = {}
  InstallationOf <- NoRuns
  Linked = {}
  Handoffs = {h1}
  Trees <- OneTree
  Senders = {i1}
  Keys = {k1, k2}
  Requests <- ToEach
  Actions <- Verbs
  Revocable = {}
  Cap = 2
  Lease = 1
  MaxCalls = 2
PROPERTY KeepsPromise
