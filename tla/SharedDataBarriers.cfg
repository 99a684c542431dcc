SPECIFICATION Spec
CONSTANTS
  s1 = s1
  s2 = s2
  t1 = t1
  t2 = t2
  t3 = t3
  d1 = d1
  d2 = d2
  Servers = {s1}
  Threads = {t1, t2}
  ServerOf <- MCServerOfOne
  Stores = {d1, d2}
  MaxRuns = 3
  MaxQueries = 3
  MaxFailures = 1
  WaitForReload = FALSE
  QuietStart = FALSE
  NoOne = NoOne
CHECK_DEADLOCK FALSE
INVARIANTS CountCoversQueries SwapExcludesReload
