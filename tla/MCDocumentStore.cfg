SPECIFICATION Spec
CONSTANTS
  Requests = {r1, r2, r3, r4}
  Ids = {i1, i2}
  Slugs = {s1, s2}
  Times = {0, 1}
  Nobody = Nobody
  NoRow = NoRow
  Deleted = Deleted
SYMMETRY Symmetry
INVARIANTS
  TypeOK
  NoResurrection
  TokenNamesVersion
PROPERTIES
  ImplementsLifecycle
