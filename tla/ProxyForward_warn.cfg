CONSTANTS
  logs = logs
  spans = spans
  b1 = b1
  b2 = b2
  b3 = b3
  Signals <- WarnSignals
  Batches <- WarnBatches
  SignalOf <- WarnSignalOf
  CountOf <- WarnCountOf
  Statuses <- WarnStatuses
  Mode = "tail"
  QueueDepth = 1
  EventDepth = 1
  TailDepth = 1
  LifecycleDepth = 1
  Throttle = 2
  MaxAttempts = 1
  MaxTime = 3
SPECIFICATION Spec
INVARIANT AuthWarningsThrottled
PROPERTY WindowOnlyUsedByWarning
CHECK_DEADLOCK FALSE
