CONSTANTS
  logs = logs
  spans = spans
  b1 = b1
  b2 = b2
  b3 = b3
  Signals <- DataSignals
  Batches <- DataBatches
  SignalOf <- DataSignalOf
  CountOf <- DataCountOf
  Statuses <- DataStatuses
  Mode = "agent"
  QueueDepth = 2
  EventDepth = 1
  TailDepth = 1
  LifecycleDepth = 1
  Throttle = 2
  MaxAttempts = 2
  MaxTime = 0
SPECIFICATION Spec
INVARIANTS TypeOK InOrder TakenAtMostOnce SuccessRateExact ErrorAfterAnnouncement
PROPERTY RelaySpec
CHECK_DEADLOCK FALSE
