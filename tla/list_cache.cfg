SPECIFICATION Spec
CONSTANTS
  Requests = {r1, r2}
  Keys = {k1, k2, k3}
  Pages = {p0, p1}
  EmptyPage = p0
  NoEtag = NoEtag
  NoEntry = NoEntry
  NoKey = NoKey
  CacheEnabled = TRUE
  MaxEntries = 2
SYMMETRY Symmetry
INVARIANTS
  TypeOK
  EtagNamesData
  CacheBounded
PROPERTIES
  EvictsLeastRecent
  FreshSpec
