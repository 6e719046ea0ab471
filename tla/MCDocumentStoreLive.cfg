SPECIFICATION FairSpec
CONSTANTS
  Requests = {r1, r2, r3}
  Ids = {i1}
  Slugs = {s1}
  Times = {0, 1}
  Nobody = Nobody
  NoRow = NoRow
  Deleted = Deleted
PROPERTIES
  EveryRequestAnswered
