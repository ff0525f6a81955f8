CONSTANTS
  logs = logs
  b1 = b1
  b2 = b2
  Signals <- MCSignals
  Batches <- MCBatches
  SignalOf <- MCSignalOf
  CountOf <- MCCountOf
  Statuses <- MCStatuses
  Mode = "tail"
  QueueDepth = 1
  EventDepth = 2
  TailDepth = 1
  SinkDepth = 1
  LifecycleDepth = 1
  Throttle = 2
  MaxAttempts = 1
  MaxTime = 0
SPECIFICATION StuckWritersSpec
INVARIANTS ProxyTypeOK FinalTotalsAreFinal FailedStartLeavesOnlySink
PROPERTIES EveryExportAnswered AcceptedIsAttempted SignalEndsUnlessWedged
CHECK_DEADLOCK FALSE
