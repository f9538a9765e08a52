CONSTANTS
  r1 = r1  r2 = r2  r3 = r3
  u1 = u1  u2 = u2  lot1 = lot1  lot2 = lot2
  upperPlate = upperPlate  lowerPlate = lowerPlate
  Requests = {r1, r2, r3}
  Users = {u1, u2}
  Lots = {lot1}
  Plates = {upperPlate}
  Upper <- SameCase
  Hour = 2
  MaxTime = 2
  Wired = {"activate", "cleanup"}
SPECIFICATION SpecTwoCreate
PROPERTIES
  ChangedByOwnerOnly
  VehicleKept
  ReopenedOnlyByActivation
  EveryRequestEnds
CHECK_DEADLOCK FALSE
