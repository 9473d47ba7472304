CONSTANTS
  t1 = t1  None = None
  MaxDeployments = 2
  Tasks = {t1}
  MaxFaults = 1
  Overlapping = {2}
CHECK_DEADLOCK FALSE
SPECIFICATION Spec
INVARIANTS TypeOK ShownIsReachable SuccessIsServed RulesEndWithPipeline
