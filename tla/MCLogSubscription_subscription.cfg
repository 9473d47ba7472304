CONSTANTS
  x1 = x1  x2 = x2  c1 = c1  c2 = c2  h1 = h1  h2 = h2  None = None
  Executions = {x1}
  Clients = {c1}
  Handlers = {h1, h2}
  Logs <- UpToMaxLogs
  Capacity = 2
  MaxBatch = 2
  HistoryLimit = 1
  Development = FALSE
  MaxLogs = 4
  MaxRestarts = 1
CHECK_DEADLOCK FALSE
SPECIFICATION SubscriptionSpec
INVARIANTS RecentLogsAreLast SubscribersMissOnlyOld ToldIsTrue
PROPERTY ImplementsWindow
