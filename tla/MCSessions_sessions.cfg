CONSTANTS
  a1 = a1  b1 = b1  b2 = b2  t1 = t1  t2 = t2  t3 = t3  r1 = r1  r2 = r2  r3 = r3  None = None
  Accounts = {a1}
  Browsers = {b1, b2}
  Person <- OnePerson
  Tokens = {t1, t2, t3}
  Requests = {r1, r2}
  MaxFaults = 1
CHECK_DEADLOCK FALSE
SYMMETRY Interchangeable
SPECIFICATION Spec
INVARIANTS CookiesWork SessionsHaveOneUser LateRefreshesFail
