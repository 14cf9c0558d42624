SPECIFICATION Spec
CONSTANTS
  t1 = t1
  p1 = p1
  NoTask = NoTask
  Tasks <- MCTasks
  Processes <- MCProcesses
  MaxRetries = 1
PROPERTY TerminalIsFinal
CHECK_DEADLOCK FALSE
