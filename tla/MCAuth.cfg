CONSTANTS
  r1 = r1  r2 = r2  r3 = r3  e1 = e1  e2 = e2
  Requests = {r1, r2, r3}
  Emails = {e1, e2}
  Nobody = Nobody
  JwtLife = 2
  RowLife = 1
  MaxTime = 2
  Wired = {"cleanup"}
SPECIFICATION FairSpec
INVARIANTS
  TypeOK
  RegisteredOnce
  SessionsKept
  OwnSession
  LogoutIsFinal
PROPERTIES
  EveryRequestEnds
CHECK_DEADLOCK FALSE
