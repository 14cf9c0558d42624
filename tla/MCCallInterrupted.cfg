SPECIFICATION Spec
CONSTANTS
  Order <- MCOuter
  RetryMW = "retry"
  MaxRetries = 1
  MaxRepeat = 3
  Modes = {"call"}
  Strategies = {"standard"}
INVARIANT AbandonedBodyIsTold
CHECK_DEADLOCK FALSE
