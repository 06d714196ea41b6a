\* Two writers store six episodes of two tenants; two are kept of each.
CONSTANTS
  w1 = w1
  w2 = w2
  t1 = t1
  t2 = t2
  Writers <- TwoWriters
  Tenants <- TwoTenants
  NoEpisode = NoEpisode
  Kept = 2
  FileKept = 2
  MaxEpisodes = 6
\* The episodes run out: the system may stop.
CHECK_DEADLOCK FALSE
SPECIFICATION Spec
SYMMETRY Symmetry
INVARIANTS
  TypeOK
  RecallIsNewest
  RowsBounded
