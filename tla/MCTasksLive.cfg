CONSTANTS
  t1 = t1
  t2 = t2
  c1 = c1
  c2 = c2
  NoTask = NoTask
  Tasks <- MCTasks
  Clients <- MCClients
  MaxConcurrent = 1
  MaxTasks = 2
  MaxRetries = 1
SPECIFICATION MCSpec
INVARIANTS NoOrphan
PROPERTIES Settles ClientsReturn
CHECK_DEADLOCK FALSE
