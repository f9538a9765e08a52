CONSTANTS
  r1 = r1  r2 = r2  r3 = r3  e1 = e1  e2 = e2
  Requests = {r1, r2, r3}
  Emails = {e1}
  Nobody = Nobody
  JwtLife = 2
  RowLife = 2
  MaxTime = 1
  Wired = {}
SPECIFICATION Spec
INVARIANTS
  LoginSucceeds
CHECK_DEADLOCK FALSE
