SPECIFICATION SpecGarbled
CONSTANTS
  Requests = {r1}
  Keys = {k1}
  Pages = {p0, p1}
  EmptyPage = p0
  NoEtag = NoEtag
  NoEntry = NoEntry
  NoKey = NoKey
  CacheEnabled = TRUE
  MaxEntries = 1
INVARIANTS
  EtagNamesData
