CONSTANTS
  lot1 = lot1  t1 = t1  c1 = c1
  Spots = {101}
  Lots = {lot1}
  LotOf <- OneLot
  MaxLate = 0
  Threads = {t1}
  Cars = {c1}
SPECIFICATION GateFairSpec
INVARIANTS
  GateTypeOK
  BarrierIsLogged
PROPERTIES
  GrantIsTrue
  EveryCarIsAnswered
  StaleEntryGoes
