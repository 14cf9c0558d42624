\* Four spans, batches of one, one caller of force_flush() and one of shutdown().
CONSTANTS
  Worker = Worker
  Flushers = {f1}
  Closers = {d1}
  MaxSpans = 4
  MaxQueueSize = 3
  MaxExportBatchSize = 1
SPECIFICATION Spec
INVARIANT ShutdownFlushes
CHECK_DEADLOCK FALSE
