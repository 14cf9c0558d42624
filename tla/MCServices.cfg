SPECIFICATION MCSpec
CONSTANTS
  k1 = k1
  k2 = k2
  k3 = k3
  k4 = k4
  flusher = flusher
  closer1 = closer1
  plain = plain
  wrapped = wrapped
  caller = caller
  m1 = m1
  m2 = m2
  m3 = m3
  t1 = t1
  t2 = t2
  None = None
  Calls <- MCCalls
  WindowSize = 4
  MinSamples = 2
  RateNum = 1
  RateDen = 2
  MaxSpans = 4
  Flushers <- MCFlushers
  Closers <- MCClosers
  Worker = Worker
  MaxQueueSize = 3
  MaxExportBatchSize = 1
  Emitters <- MCEmitters
  Subscribers <- MCSubscribers
  Watchers <- MCWatchers
  Wrapped <- MCWrapped
  MaxAttempts = 2
  OpenThreshold = 1
  MaxWorkers = 2
  MaxEvents = 2
  Recorders <- MCThreads
  Fingerprints <- MCFingerprints
  MaxPerModule = 1
  MaxTotal = 2
  MaxRecords = 5
  MaxClock = 1
  Callers <- MCThreads
  Keys = {"timeout"}
  Constrained = {"timeout"}
  Toggles = {"mod"}
  Values = {"new", "bad"}
  Valid = {"old", "new"}
  FileConfig <- MCFileConfig
  MaxRestarts = 1
INVARIANTS ProbeIsSound SpansAreAccountedFor NothingOutlivesShutdown ListedEverywhere RejectedLeavesNoTrace NoLostOverride
PROPERTIES Recovers RecoveryIsNotPostponed
CHECK_DEADLOCK FALSE
