SPECIFICATION Spec
CONSTANTS
  d1 = d1
  d2 = d2
  s1 = s1
  s2 = s2
  c1 = c1
  c2 = c2
  m1 = m1
  m2 = m2
  m3 = m3
  review = review
  r1 = r1
  r2 = r2
  Documents = {d1, d2}
  Valid = {d1, d2}
  Missing = Missing
  Empty = Empty
  Nobody = Nobody
  Loads = {r1, r2}
  Config <- MCConfig
  Senders <- MCSenders
  Upstreams <- MCUpstreams
  AutoReview = review
  Bundled = {m1, review}
  Ttl = 1
  StaleTtl = 1
  CatalogTtl = 1
  MaxEntries = 2
  MaxTime = 2
SYMMETRY Symmetry
INVARIANTS
  TypeOK
  ServedWasCurrent
  CatalogIsRoutable
PROPERTIES
  GoodStays
CHECK_DEADLOCK FALSE
