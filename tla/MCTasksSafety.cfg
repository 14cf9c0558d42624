CONSTANTS
  t1 = t1
  t2 = t2
  t3 = t3
  c1 = c1
  NoTask = NoTask
  Tasks <- MCTasks
  Clients <- MCClients
  MaxConcurrent = 1
  MaxTasks = 2
  MaxRetries = 1
SPECIFICATION Spec
INVARIANTS SettledMeansStopped PermitsConserved
PROPERTY Implements
SYMMETRY MCSymmetry
CHECK_DEADLOCK FALSE
