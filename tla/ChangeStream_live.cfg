SPECIFICATION FairSpec
CONSTANTS
  Nobody = Nobody
  Replicas = {r1, r2}
  Writers = {r1}
  Pages = {p1}
  Streams = {s1}
  QuietTurns = 2
  MaxSubscribers = 1
  MaxFlight = 1
INVARIANTS StaleNotForLong NothingIsDropped OneMoreAtMost
PROPERTY GoneIsForgotten
