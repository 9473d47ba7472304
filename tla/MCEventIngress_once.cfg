CONSTANTS
  e1 = e1  e2 = e2  l1 = l1  l2 = l2  r1 = r1  r2 = r2  r3 = r3  None = None
  Events = {e1}
  Lambdas = {l1, l2}
  Requests = {r1, r2}
  Direct = TRUE
  RedisReliable = FALSE
  MaxDeliveries = 3
  MaxCrashes = 1
CHECK_DEADLOCK FALSE
SPECIFICATION FairSpec
INVARIANTS TypeOK ProcessedOnce
PROPERTY KeysExpire
