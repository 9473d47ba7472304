CONSTANTS
  e1 = e1  e2 = e2  l1 = l1  l2 = l2  r1 = r1  r2 = r2  r3 = r3  None = None
  Events = {e1}
  Lambdas = {l1}
  Requests = {r1}
  Direct = FALSE
  RedisReliable = TRUE
  MaxDeliveries = 1
  MaxCrashes = 0
CHECK_DEADLOCK FALSE
SPECIFICATION Spec
INVARIANT ReportedIsProcessed
