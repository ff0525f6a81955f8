CONSTANTS
  logs = logs
  spans = spans
  SignalOrder <- MCSignalOrder
  Increments <- MCIncrements
  Lags = {0, 1, 2}
  WindowCapacity = 2
  HistoryCapacity = 1
  StatsDepth = 1
  SinkDepth = 1
  MaxRecords = 1
  MaxSamples = 3
SPECIFICATION Spec
INVARIANTS TypeOK TearHealsByNextSample
PROPERTY ReadersNeverFallBack
CHECK_DEADLOCK FALSE
