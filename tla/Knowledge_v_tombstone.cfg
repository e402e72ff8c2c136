SPECIFICATION Spec
CONSTANTS
  k1 = k1
  k2 = k2
  all = all
  few = few
  member = member
  project = project
  Items = {k1, k2}
  Audiences = {all, few}
  Readers = {member, project}
  Sees <- SeesByKind
  Owners = {o1}
  Starts = {s1}
  Calls = {c1}
  MaxVersions = 4
  DraftLimit = 1
  PublishedLimit = 2
  VersionLimit = 4
  Perishable = {1}
  Unpublished = TRUE
SYMMETRY KeySymmetry
INVARIANT TombstoneStands
CHECK_DEADLOCK FALSE
