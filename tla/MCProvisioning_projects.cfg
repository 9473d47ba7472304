CONSTANTS
  u1 = u1  u2 = u2  i1 = i1  p1 = p1  p2 = p2  h1 = h1  h2 = h2  r1 = r1  r2 = r2  None = None
  Users = {u1}
  Installations = {i1}
  Personal = {}
  Projects = {p1}
  Webhooks = {h1, h2}
  Requests = {r1, r2}
  LambdaArn = TRUE
  MaxEvents = 3
  MaxRequests = 3
  MaxWork = 3
CHECK_DEADLOCK FALSE
SPECIFICATION Spec
INVARIANTS TypeOK LiveProjectsAreWhole NothingTorn TableAgrees
