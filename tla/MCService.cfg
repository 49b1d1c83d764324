CONSTANTS
  Process = {p1, p2}
  Search = {s1}
  u1 = u1
  u2 = u2
  d1 = d1
  d2 = d2
  Url = {u1, u2}
  Doc = {d1, d2}
  Serves <- MCServes
SPECIFICATION Spec
INVARIANTS
  TypeOK
  CorpusWhole
  ResourcesNest
SYMMETRY Symmetric
CHECK_DEADLOCK FALSE
