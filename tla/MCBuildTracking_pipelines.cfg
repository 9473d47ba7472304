SPECIFICATION Spec
CONSTANTS
  b1 = b1
  b2 = b2
  x1 = x1
  p1 = p1
  p2 = p2
  h1 = h1
  h2 = h2
  c1 = c1
  None = None
  Builds = {b1, b2}
  AutoIds = {}
  Pipelines = {p1, p2}
  Edited = {p1, p2}
  Handlers = {h1}
  Checkers = {}
  Outcomes = {"SUCCEEDED"}
  MaxDeliveries = 1
  MaxRestarts = 0
  RedisReliable = TRUE
  MaxFaults = 0
  PatchStatuses = {}
INVARIANT UndisturbedDeploysItself
SYMMETRY PipelineSymmetry
CHECK_DEADLOCK FALSE
