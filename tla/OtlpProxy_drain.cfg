CONSTANTS
  logs = logs
  b1 = b1
  b2 = b2
  Signals <- MCSignals
  Batches <- MCBatches
  SignalOf <- MCSignalOf
  CountOf <- MCCountOf
  Statuses <- MCStatuses
  Mode = "agent"
  QueueDepth = 1
  EventDepth = 2
  TailDepth = 1
  SinkDepth = 1
  LifecycleDepth = 2
  Throttle = 2
  MaxAttempts = 1
  MaxTime = 0
SPECIFICATION ProxySpec
INVARIANT DrainedAtExit
CHECK_DEADLOCK FALSE
