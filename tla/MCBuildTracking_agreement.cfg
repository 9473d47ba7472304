SPECIFICATION FairSpec
CONSTANTS
  b1 = b1
  b2 = b2
  x1 = x1
  p1 = p1
  p2 = p2
  h1 = h1
  h2 = h2
  c1 = c1
  None = None
  Builds = {b1}
  AutoIds = {x1}
  Pipelines = {p1}
  Edited = {}
  Handlers = {h1}
  Checkers = {c1}
  Outcomes = {"SUCCEEDED", "STOPPED", "TIMED_OUT"}
  MaxDeliveries = 1
  MaxRestarts = 1
  RedisReliable = TRUE
  MaxFaults = 1
  PatchStatuses = {}
INVARIANTS StatusIsReported
PROPERTIES RowsEventuallyAgree
CHECK_DEADLOCK FALSE
