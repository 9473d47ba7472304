CONSTANTS
  p1 = p1  p2 = p2  t1 = t1  t2 = t2  t3 = t3  j1 = j1  j2 = j2  None = None
  Pollers = {p1}
  Guarded = {}
  Polls = {t1, t2}
  Jobs = {j1}
  MaxLogs = 2
  MaxRetries = 2
  MaxAttempts = 2
  MaxFaults = 2
  MaxRestarts = 1
CHECK_DEADLOCK FALSE
SPECIFICATION FairSpec
INVARIANTS TypeOK NothingSkipped
PROPERTIES RecoveryIsComplete PollingStops SuccessHasLogs
