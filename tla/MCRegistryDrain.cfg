SPECIFICATION Spec
CONSTANTS
  a = a
  m1 = m1
  m2 = m2
  th1 = th1
  th2 = th2
  th3 = th3
  w = w
  Watcher = w
  None = None
  Ids <- MCIds
  Instances <- MCInstances
  Versions <- MCVersions
  Threads <- MCThreads
  Drainers <- MCDrainers
PROPERTY CleanMeansUnused
CHECK_DEADLOCK FALSE
