SPECIFICATION FairSpec
CONSTANTS
  s1 = s1
  s2 = s2
  t1 = t1
  t2 = t2
  t3 = t3
  d1 = d1
  d2 = d2
  Servers = {s1, s2}
  Threads = {t1, t2, t3}
  ServerOf <- MCServerOf
  Stores = {d1}
  MaxRuns = 3
  MaxQueries = 4
  MaxFailures = 0
  WaitForReload = TRUE
  QuietStart = TRUE
  NoOne = NoOne
CHECK_DEADLOCK FALSE
INVARIANTS CurrentIsSound
PROPERTIES QueriesStartFresh CallsEnd
