SPECIFICATION Spec
CONSTANTS
  Order <- MCRetrying
  RetryMW = "retry"
  MaxRetries = 3
  MaxRepeat = 3
  Modes = {"call"}
  Strategies = {"standard"}
PROPERTY CancelledOnlyOnRequest
CHECK_DEADLOCK FALSE
