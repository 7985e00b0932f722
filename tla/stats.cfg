SPECIFICATION StatsSpec
CONSTANTS
  r1 = r1
  r2 = r2
  b1 = b1
  b2 = b2
  b3 = b3
  Receivers <- MCReceivers
  Batches <- MCBatches
  Spots = 3
  None = None
  Http = Http
  Parser = Parser
  Watcher = Watcher
INVARIANT SlotsConserved
INVARIANT NothingDuplicated
INVARIANT FlushTimesAdvance
INVARIANT ReportsExact
PROPERTY ImplementsMetricBuffer
PROPERTY AcceptedIsFlushed
