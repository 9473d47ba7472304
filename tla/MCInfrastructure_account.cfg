CONSTANTS
  Pipelines = {p1, p2}
  MaxPriority = 2
  MaxZones = 2
  MaxFaults = 1
  None = None
SPECIFICATION Spec
SYMMETRY Symmetry
CHECK_DEADLOCK FALSE
INVARIANTS TypeOK DoneIsServed GroupIsOpened LonersSucceed ZoneSetUpIsCleaned
