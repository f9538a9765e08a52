CONSTANTS
  r1 = r1  r2 = r2  r3 = r3
  u1 = u1  u2 = u2  lot1 = lot1  lot2 = lot2
  upperPlate = upperPlate  lowerPlate = lowerPlate
  Requests = {r1, r2, r3}
  Users = {u1}
  Lots = {lot1}
  Plates = {upperPlate}
  Upper <- SameCase
  Hour = 2
  MaxTime = 3
  Wired = {"cleanup"}
SYMMETRY Symmetry
SPECIFICATION Spec
INVARIANTS
  TypeOK
  IInv
  NoUnracedOverlap
  EventsAreTrue
  QueryIsExact
  CostCoversSlot
PROPERTIES
  ClosedStaysClosed
  ShortenedOnlyByStaleRead
  ImplementsLedger
CHECK_DEADLOCK FALSE
