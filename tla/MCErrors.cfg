CONSTANTS
  m1 = m1
  m2 = m2
  m3 = m3
  t1 = t1
  t2 = t2
  Threads <- MCThreads
  Fingerprints <- MCErrorSet
  MaxPerModule = 1
  MaxTotal = 2
  MaxRecords = 5
  MaxClock = 2
SPECIFICATION Spec
INVARIANT EvictedEverywhere
CHECK_DEADLOCK FALSE
