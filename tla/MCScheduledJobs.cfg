SPECIFICATION BoundedJobs
CONSTANTS
  a = a
  b = b
  w1 = w1
  w2 = w2
  NoRow = NoRow
  NoName = NoName
  Managers <- League
  Audited <- League
  Workers <- TwoAudits
  Names <- TwoNames
INVARIANTS
  InsertsNeverCollide
PROPERTIES
  FlagSettles
