SPECIFICATION Spec
CONSTANTS
  b1 = b1
  b2 = b2
  x1 = x1
  p1 = p1
  p2 = p2
  h1 = h1
  h2 = h2
  c1 = c1
  None = None
  Builds = {b1}
  AutoIds = {x1}
  Pipelines = {p1}
  Edited = {}
  Handlers = {h1, h2}
  Checkers = {}
  Outcomes = {"SUCCEEDED", "STOPPED", "FAULT"}
  MaxDeliveries = 2
  MaxRestarts = 0
  RedisReliable = TRUE
  MaxFaults = 1
  PatchStatuses = {"success"}
INVARIANTS TypeOK
PROPERTIES ReleasesBuilds
SYMMETRY HandlerSymmetry
CHECK_DEADLOCK FALSE
