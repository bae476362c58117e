\* Two requests at once over two pages and three keys, a cache of two entries, a read as long as the times to live.
CONSTANTS
  Readers = {r1, r2}
  Pages = {p1, p2}
  Keys = {k1, k2, k3}
  ListTtl = 1
  FilingsTtl = 1
  Max = 2
  Slow = 1
  MaxTime = 2
  Nothing = nothing
SPECIFICATION ServingSpec
SYMMETRY Interchangeable
INVARIANTS ServingTypeOK ServedIsRecent CacheBounded NobodyForgotten
